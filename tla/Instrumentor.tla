------------------------------ MODULE Instrumentor ------------------------------
(***************************************************************************)
(* The profiler of instrumentor.h: the game opens and closes sessions,     *)
(* each a results file, while timers in any thread write their profiles to *)
(* the one that is open. A step holds m_mutex at most once; what a flush   *)
(* has not carried to the disk is lost when the program is killed.         *)
(***************************************************************************)
EXTENDS Integers, Sequences

CONSTANTS
  Paths,         \* the results files, none of which is there at first
  Timers,        \* the Instrumentation_Timers, in whatever threads
  NoPath,
  Game,          \* the thread that begins and ends sessions
  Nobody,
  MaxProfiles    \* bound of the model: how often timers are stopped

ASSUME InstrumentorAssumption ==
  /\ NoPath \notin Paths
  /\ Game \notin Timers /\ Nobody \notin Timers /\ Game # Nobody
  /\ MaxProfiles \in Nat

VARIABLES
  program,      \* "runs", "exits" (in ~Instrumentor), "exited" or "killed"
  mutex,        \* who holds m_mutex
  session,      \* the file of m_currentSession, NoPath for nullptr
  buffer,       \* what m_outputStream has not flushed
  file,         \* what the disk has of each file
  at,           \* where the game is in beginSession or endSession
  next,         \* the file beginSession is to open, NoPath in endSession
  timer,        \* where each timer is
  profile,      \* the profile a timer made last
  count,        \* how many profiles were made
  dropped,      \* profiles that met no session
  overwritten   \* profiles in files that were opened once more

gameVars == <<program, at, next>>
timerVars == <<timer, profile, count, dropped>>
diskVars == <<session, buffer, file, overwritten>>
vars == <<gameVars, mutex, diskVars, timerVars>>

\* What a file is made of: the header, the numbers of profiles, the footer.
Header == 0
Footer == -1
Profiles == 1 .. MaxProfiles
Entries == Profiles \cup {Header, Footer}

TypeOK ==
  /\ program \in {"runs", "exits", "exited", "killed"}
  /\ mutex \in Timers \cup {Game, Nobody}
  /\ session \in Paths \cup {NoPath}
  /\ buffer \in Seq(Entries)
  /\ file \in [Paths -> Seq(Entries)]
  /\ at \in {"idle", "footer", "close", "open", "header", "flush"}
  /\ next \in Paths \cup {NoPath}
  /\ timer \in [Timers -> {"none", "running", "measured", "writing", "flushing", "stopped"}]
  /\ profile \in [Timers -> Profiles \cup {0}]
  /\ count \in 0 .. MaxProfiles
  /\ dropped \in SUBSET Profiles
  /\ overwritten \in SUBSET Profiles

Init ==
  /\ program = "runs"
  /\ mutex = Nobody
  /\ session = NoPath
  /\ buffer = <<>>
  /\ file = [p \in Paths |-> <<>>]
  /\ at = "idle"
  /\ next = NoPath
  /\ timer = [t \in Timers |-> "none"]
  /\ profile = [t \in Timers |-> 0]
  /\ count = 0
  /\ dropped = {}
  /\ overwritten = {}

Alive == program \in {"runs", "exits"}

EntriesOf(f) == {f[i] : i \in DOMAIN f}

------------------------------------------------------------------------------
(* The game's calls. *)

BeginSession(p) ==
  /\ program = "runs" /\ at = "idle"
  /\ mutex = Nobody /\ mutex' = Game
  /\ next' = p
  /\ at' = IF session = NoPath THEN "open" ELSE "footer"
  /\ UNCHANGED <<program, diskVars, timerVars>>

\* Without a session the call does nothing.
EndSession ==
  /\ program = "runs" /\ at = "idle" /\ session # NoPath
  /\ mutex = Nobody /\ mutex' = Game
  /\ next' = NoPath
  /\ at' = "footer"
  /\ UNCHANGED <<program, diskVars, timerVars>>

WriteFooter ==
  /\ Alive /\ at = "footer"
  /\ buffer' = Append(buffer, Footer)
  /\ at' = "close"
  /\ UNCHANGED <<program, next, mutex, session, file, overwritten, timerVars>>

\* The rest of internalEndSession, and of endSession if that called it.
CloseFile ==
  /\ Alive /\ at = "close"
  /\ file' = [file EXCEPT ![session] = @ \o buffer]
  /\ buffer' = <<>>
  /\ session' = NoPath
  /\ IF next # NoPath
     THEN at' = "open" /\ UNCHANGED <<mutex, program>>
     ELSE /\ at' = "idle" /\ mutex' = Nobody
          /\ program' = IF program = "exits" THEN "exited" ELSE program
  /\ UNCHANGED <<next, overwritten, timerVars>>

\* ofstream::open leaves an empty file, whatever was in it.
OpenFile ==
  /\ Alive /\ at = "open"
  /\ session' = next
  /\ file' = [file EXCEPT ![next] = <<>>]
  /\ overwritten' = overwritten \cup (EntriesOf(file[next]) \cap Profiles)
  /\ at' = "header"
  /\ UNCHANGED <<program, next, mutex, buffer, timerVars>>

OpenFails ==
  /\ Alive /\ at = "open"
  /\ mutex' = Nobody
  /\ at' = "idle"
  /\ UNCHANGED <<program, next, diskVars, timerVars>>

WriteHeader ==
  /\ Alive /\ at = "header"
  /\ buffer' = Append(buffer, Header)
  /\ at' = "flush"
  /\ UNCHANGED <<program, next, mutex, session, file, overwritten, timerVars>>

FlushHeader ==
  /\ Alive /\ at = "flush"
  /\ file' = [file EXCEPT ![session] = @ \o buffer]
  /\ buffer' = <<>>
  /\ mutex' = Nobody
  /\ at' = "idle"
  /\ UNCHANGED <<program, next, session, overwritten, timerVars>>

\* main returned, its threads joined, the profiler is destroyed.
Exit ==
  /\ program = "runs" /\ at = "idle" /\ mutex = Nobody
  /\ \A t \in Timers : timer[t] = "none"
  /\ next' = NoPath
  /\ IF session = NoPath
     THEN program' = "exited" /\ UNCHANGED <<at, mutex>>
     ELSE program' = "exits" /\ at' = "footer" /\ mutex' = Game
  /\ UNCHANGED <<diskVars, timerVars>>

Kill ==
  /\ Alive
  /\ program' = "killed"
  /\ UNCHANGED <<at, next, mutex, diskVars, timerVars>>

------------------------------------------------------------------------------
(* A timer's life. *)

StartTimer(t) ==
  /\ program = "runs" /\ timer[t] = "none"
  /\ timer' = [timer EXCEPT ![t] = "running"]
  /\ UNCHANGED <<gameVars, mutex, diskVars, profile, count, dropped>>

\* The destructor of a timer that runs, or a call of its own, which may come
\* again: Stop does not ask for m_Stopped.
Stop(t) ==
  /\ program = "runs" /\ timer[t] \in {"running", "stopped"} /\ count < MaxProfiles
  /\ timer' = [timer EXCEPT ![t] = "measured"]
  /\ count' = count + 1
  /\ profile' = [profile EXCEPT ![t] = count + 1]
  /\ UNCHANGED <<gameVars, mutex, diskVars, dropped>>

\* A mutant of WriteProfile: it does without the lock.
WriteUnlocked(t) ==
  /\ program = "runs" /\ timer[t] = "measured"
  /\ session # NoPath
  /\ timer' = [timer EXCEPT ![t] = "writing"]
  /\ UNCHANGED <<gameVars, mutex, diskVars, profile, count, dropped>>

WriteProfile(t) ==
  /\ program = "runs" /\ timer[t] = "measured" /\ mutex = Nobody
  /\ IF session # NoPath
     THEN /\ mutex' = t
          /\ timer' = [timer EXCEPT ![t] = "writing"]
          /\ UNCHANGED dropped
     ELSE /\ dropped' = dropped \cup {profile[t]}
          /\ timer' = [timer EXCEPT ![t] = "stopped"]
          /\ UNCHANGED mutex
  /\ UNCHANGED <<gameVars, diskVars, profile, count>>

Output(t) ==
  /\ program = "runs" /\ timer[t] = "writing"
  /\ buffer' = Append(buffer, profile[t])
  /\ timer' = [timer EXCEPT ![t] = "flushing"]
  /\ UNCHANGED <<gameVars, mutex, session, file, overwritten, profile, count, dropped>>

\* A mutant of Flush: what is written stays in the buffer.
LeaveBuffered(t) ==
  /\ program = "runs" /\ timer[t] = "flushing"
  /\ mutex' = Nobody
  /\ timer' = [timer EXCEPT ![t] = "stopped"]
  /\ UNCHANGED <<gameVars, diskVars, profile, count, dropped>>

Flush(t) ==
  /\ program = "runs" /\ timer[t] = "flushing"
  /\ file' = [file EXCEPT ![session] = @ \o buffer]
  /\ buffer' = <<>>
  /\ mutex' = Nobody
  /\ timer' = [timer EXCEPT ![t] = "stopped"]
  /\ UNCHANGED <<gameVars, session, overwritten, profile, count, dropped>>

Destroy(t) ==
  /\ program = "runs" /\ timer[t] = "stopped"
  /\ timer' = [timer EXCEPT ![t] = "none"]
  /\ UNCHANGED <<gameVars, mutex, diskVars, profile, count, dropped>>

Next ==
  \/ \E p \in Paths : BeginSession(p)
  \/ EndSession \/ WriteFooter \/ CloseFile
  \/ OpenFile \/ OpenFails \/ WriteHeader \/ FlushHeader
  \/ Exit \/ Kill
  \/ \E t \in Timers :
       StartTimer(t) \/ Stop(t) \/ WriteProfile(t) \/ Output(t) \/ Flush(t) \/ Destroy(t)

Spec == Init /\ [][Next]_vars

------------------------------------------------------------------------------
\* f is the beginning of a results file.
Begun(f) == f # <<>> /\ f[1] = Header /\ \A i \in 2 .. Len(f) : f[i] \in Profiles

\* f is a results file JSON can read.
Complete(f) ==
  /\ Len(f) > 1 /\ f[1] = Header /\ f[Len(f)] = Footer
  /\ \A i \in 2 .. Len(f) - 1 : f[i] \in Profiles

\* Whatever the threads and the game do, and wherever the program is killed, a
\* file was never opened, or has one header, then profiles, then one footer, and
\* only the file of the session that is open misses the footer, or the header as
\* well. A program that returns from main leaves no such file, even if it never
\* called endSession (instrumentor.h:34-54, 70-74, 87-110).
FilesWellFormed ==
  \A p \in Paths :
    \/ file[p] = <<>>
    \/ IF p = session /\ program # "exited" THEN Begun(file[p]) ELSE Complete(file[p])

InFlight == {profile[t] : t \in {s \in Timers : timer[s] \in {"measured", "writing", "flushing"}}}

\* The places of a profile on the disk.
OnDisk(n) == UNION {{p} \X {i \in DOMAIN file[p] : file[p][i] = n} : p \in Paths}

\* Once its Stop has returned, a profile is on the disk, in one place, unless it
\* met no session or its file was opened again: nothing is written twice and
\* nothing that was written is lost, not even when the program is killed
\* (instrumentor.h:70-74, 130-138).
ProfilesAccounted ==
  \A n \in 1 .. count :
    /\ \A a, b \in OnDisk(n) : a = b
    /\ OnDisk(n) = {} => n \in InFlight \cup dropped \cup overwritten
    /\ OnDisk(n) # {} => n \notin dropped \cup overwritten
==============================================================================
