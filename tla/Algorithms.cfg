\* Files of three lines, four values in a message, pairs of challenges, three
\* colliders, a clock that wraps around at 16, four arguments, signatures of six
\* chars.
SPECIFICATION Calls
CONSTANTS
  Second = 4
  Wrap = 16
  Files <- MCFiles
  DataValues <- MCDataValues
  MaxPushes = 4
  Challenges <- MCChallenges
  Scenes <- MCScenes
  Moments <- MCMoments
  CommandLines <- MCCommandLines
  Names <- MCNames
  Signatures <- MCSignatures
  Convention <- MCConvention
INVARIANTS
  LookupFindsLastLine
  PulledAsPushed
  AnswersTellApart
  CollidedOverlap
  AnimatedOnTime
  ChainStopsAtFailure
  OptionsReachTheirCommand
  SignaturesCleaned
CHECK_DEADLOCK FALSE
