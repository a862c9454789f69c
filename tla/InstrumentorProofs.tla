--------------------------- MODULE InstrumentorProofs ---------------------------
(***************************************************************************)
(* What holds of the profiler for any timers, threads and results files.   *)
(***************************************************************************)
EXTENDS Instrumentor, SequenceTheorems, TLAPS

\* Who is inside the lock is where the lock says.
LockInv ==
  /\ mutex = Game <=> at # "idle"
  /\ \A t \in Timers : mutex = t <=> timer[t] \in {"writing", "flushing"}
  /\ \A t \in Timers : timer[t] \in {"measured", "writing", "flushing"} => profile[t] \in Profiles

\* Where the game is, and what it means for the stream.
CallInv ==
  /\ at \in {"footer", "close", "header", "flush"} => session # NoPath
  /\ at = "open" => session = NoPath /\ next # NoPath
  /\ program = "exited" => session = NoPath /\ at = "idle"
  /\ program = "exits" => next = NoPath /\ at \in {"footer", "close"}
  /\ \A t \in Timers : timer[t] \in {"writing", "flushing"} => session # NoPath

\* What is not flushed is the one thing that who holds the lock has written.
BufferInv ==
  /\ at = "close" => buffer = <<Footer>>
  /\ at = "flush" => buffer = <<Header>>
  /\ \A t \in Timers : timer[t] = "flushing" => buffer = <<profile[t]>>
  /\ at \notin {"close", "flush"} /\ (\A t \in Timers : timer[t] # "flushing") => buffer = <<>>

FileInv ==
  /\ at \in {"header", "flush"} => file[session] = <<>>
  /\ session # NoPath /\ at \notin {"header", "flush"} => Begun(file[session])
  /\ \A p \in Paths \ {session} : file[p] = <<>> \/ Complete(file[p])

Inv == TypeOK /\ LockInv /\ CallInv /\ BufferInv /\ FileInv

------------------------------------------------------------------------------
\* What a flush adds to a file.
LEMMA FlushedEntry ==
  ASSUME NEW f \in Seq(Entries), NEW e \in Entries
  PROVE  /\ f \o <<e>> \in Seq(Entries)
         /\ Len(f \o <<e>>) = Len(f) + 1
         /\ (f \o <<e>>)[Len(f) + 1] = e
         /\ \A i \in 1 .. Len(f) : (f \o <<e>>)[i] = f[i]
         /\ f = <<>> /\ e = Header => Begun(f \o <<e>>)
         /\ Begun(f) /\ e \in Profiles => Begun(f \o <<e>>)
         /\ Begun(f) /\ e = Footer => Complete(f \o <<e>>)
<1> DEFINE g == f \o <<e>>
<1>1. <<e>> \in Seq(Entries) /\ Len(<<e>>) = 1 /\ <<e>>[1] = e
  OBVIOUS
<1>2. /\ g \in Seq(Entries) /\ Len(g) = Len(f) + 1
      /\ \A i \in 1 .. Len(f) + 1 : g[i] = IF i <= Len(f) THEN f[i] ELSE <<e>>[i - Len(f)]
  BY <1>1, ConcatProperties
<1>3. Len(f) \in Nat
  OBVIOUS
<1>4. g[Len(f) + 1] = e /\ \A i \in 1 .. Len(f) : g[i] = f[i]
  BY <1>1, <1>2, <1>3
<1>5. g # <<>>
  BY <1>2, <1>3
<1> HIDE DEF g
<1>6. f = <<>> /\ e = Header => Begun(g)
  BY <1>2, <1>4, <1>5 DEF Begun
<1>7. Begun(f) => Len(f) \in Nat \ {0}
  BY <1>3 DEF Begun
<1>8. Begun(f) /\ e \in Profiles => Begun(g)
  BY <1>2, <1>3, <1>4, <1>5, <1>7 DEF Begun
<1>9. Begun(f) /\ e = Footer => Complete(g)
  BY <1>2, <1>3, <1>4, <1>7 DEF Begun, Complete
<1> QED BY <1>2, <1>4, <1>6, <1>8, <1>9 DEF g

LEMMA InitInv == Init => Inv
<1> SUFFICES ASSUME Init PROVE Inv
  OBVIOUS
<1>1. <<>> \in Seq(Entries) /\ buffer = <<>> /\ \A p \in Paths : file[p] = <<>>
  BY DEF Init
<1>2. TypeOK
  BY <1>1, InstrumentorAssumption DEF Init, TypeOK
<1> QED BY <1>1, <1>2, InstrumentorAssumption DEF Init, Inv, LockInv, CallInv, BufferInv, FileInv

\* The constants are apart.
LEMMA Apart ==
  /\ Game \notin Timers /\ Nobody \notin Timers /\ Game # Nobody /\ NoPath \notin Paths
  /\ Header \in Entries /\ Footer \in Entries /\ Profiles \subseteq Entries
  /\ Header \notin Profiles /\ Footer \notin Profiles
  BY InstrumentorAssumption DEF Entries, Profiles, Header, Footer

LEMMA BeginSessionInv ==
  ASSUME Inv, NEW p \in Paths, BeginSession(p)
  PROVE  Inv'
  BY Apart DEF Inv, TypeOK, LockInv, CallInv, BufferInv, FileInv, BeginSession, diskVars, timerVars

LEMMA EndSessionInv ==
  ASSUME Inv, EndSession
  PROVE  Inv'
  BY Apart DEF Inv, TypeOK, LockInv, CallInv, BufferInv, FileInv, EndSession, diskVars, timerVars

\* The footer or the header is in the buffer.
LEMMA WriteFooterInv ==
  ASSUME Inv, WriteFooter
  PROVE  Inv'
<1>1. buffer = <<>> /\ session # NoPath /\ mutex = Game /\ \A t \in Timers : timer[t] # "flushing"
  BY Apart DEF Inv, LockInv, CallInv, BufferInv, WriteFooter
<1>2. buffer' = <<Footer>> /\ buffer' \in Seq(Entries)
  BY <1>1, Apart DEF WriteFooter
<1> QED BY <1>1, <1>2, Apart
        DEF Inv, TypeOK, LockInv, CallInv, BufferInv, FileInv, WriteFooter, timerVars

LEMMA WriteHeaderInv ==
  ASSUME Inv, WriteHeader
  PROVE  Inv'
<1>1. buffer = <<>> /\ session # NoPath /\ mutex = Game /\ \A t \in Timers : timer[t] # "flushing"
  BY Apart DEF Inv, LockInv, CallInv, BufferInv, WriteHeader
<1>2. buffer' = <<Header>> /\ buffer' \in Seq(Entries)
  BY <1>1, Apart DEF WriteHeader
<1> QED BY <1>1, <1>2, Apart
        DEF Inv, TypeOK, LockInv, CallInv, BufferInv, FileInv, WriteHeader, timerVars

\* The file is complete once the footer is on the disk.
LEMMA CloseFileInv ==
  ASSUME Inv, CloseFile
  PROVE  Inv'
<1>1. /\ at = "close" /\ session \in Paths /\ buffer = <<Footer>> /\ mutex = Game
      /\ Begun(file[session]) /\ file[session] \in Seq(Entries)
      /\ \A t \in Timers : timer[t] \notin {"writing", "flushing"}
  BY Apart DEF Inv, TypeOK, LockInv, CallInv, BufferInv, FileInv, CloseFile
<1>2. file[session] \o buffer \in Seq(Entries) /\ Complete(file[session] \o buffer)
  BY <1>1, Apart, FlushedEntry
<1>3. file' \in [Paths -> Seq(Entries)]
        /\ \A p \in Paths : file'[p] = IF p = session THEN file[session] \o buffer ELSE file[p]
  BY <1>1, <1>2 DEF Inv, TypeOK, CloseFile
<1>4. buffer' = <<>> /\ buffer' \in Seq(Entries) /\ session' = NoPath
  BY DEF CloseFile
<1>5. TypeOK'
  BY <1>3, <1>4 DEF Inv, TypeOK, CloseFile, timerVars
<1>6. LockInv'
  BY <1>1, Apart DEF Inv, LockInv, CloseFile, timerVars
<1>7. CallInv'
  BY <1>1, <1>4 DEF Inv, CallInv, CloseFile, timerVars
<1>8. BufferInv'
  BY <1>1, <1>4 DEF BufferInv, CloseFile, timerVars
<1>9. FileInv'
  BY <1>2, <1>3, <1>4 DEF Inv, FileInv, CloseFile
<1> QED BY <1>5, <1>6, <1>7, <1>8, <1>9 DEF Inv

LEMMA OpenFileInv ==
  ASSUME Inv, OpenFile
  PROVE  Inv'
<1>1. /\ session = NoPath /\ next \in Paths /\ buffer = <<>> /\ mutex = Game
      /\ \A t \in Timers : timer[t] \notin {"writing", "flushing"}
  BY Apart DEF Inv, TypeOK, LockInv, CallInv, BufferInv, OpenFile
<1>2. <<>> \in Seq(Entries)
  OBVIOUS
<1>3. file' \in [Paths -> Seq(Entries)]
        /\ \A p \in Paths : file'[p] = IF p = next THEN <<>> ELSE file[p]
  BY <1>2 DEF Inv, TypeOK, OpenFile
<1>4. TypeOK'
  BY <1>1, <1>3 DEF Inv, TypeOK, OpenFile, timerVars
<1>5. FileInv'
  BY <1>1, <1>3, Apart DEF Inv, FileInv, OpenFile
<1> QED BY <1>1, <1>4, <1>5, Apart DEF Inv, LockInv, CallInv, BufferInv, OpenFile, timerVars

LEMMA OpenFailsInv ==
  ASSUME Inv, OpenFails
  PROVE  Inv'
  BY Apart DEF Inv, TypeOK, LockInv, CallInv, BufferInv, FileInv, OpenFails, diskVars, timerVars

LEMMA FlushHeaderInv ==
  ASSUME Inv, FlushHeader
  PROVE  Inv'
<1>1. /\ at = "flush" /\ session \in Paths /\ buffer = <<Header>> /\ mutex = Game
      /\ file[session] = <<>> /\ file[session] \in Seq(Entries)
      /\ \A t \in Timers : timer[t] \notin {"writing", "flushing"}
  BY Apart DEF Inv, TypeOK, LockInv, CallInv, BufferInv, FileInv, FlushHeader
<1>2. file[session] \o buffer \in Seq(Entries) /\ Begun(file[session] \o buffer)
  BY <1>1, Apart, FlushedEntry
<1>3. file' \in [Paths -> Seq(Entries)]
        /\ \A p \in Paths : file'[p] = IF p = session THEN file[session] \o buffer ELSE file[p]
  BY <1>1, <1>2 DEF Inv, TypeOK, FlushHeader
<1>4. buffer' = <<>> /\ buffer' \in Seq(Entries) /\ session' = session
  BY DEF FlushHeader
<1>5. TypeOK'
  BY <1>3, <1>4 DEF Inv, TypeOK, FlushHeader, timerVars
<1>6. FileInv'
  BY <1>1, <1>2, <1>3, <1>4 DEF Inv, FileInv, FlushHeader
<1>7. BufferInv'
  BY <1>1, <1>4 DEF BufferInv, FlushHeader, timerVars
<1> QED BY <1>1, <1>4, <1>5, <1>6, <1>7, Apart DEF Inv, LockInv, CallInv, FlushHeader, timerVars

LEMMA ExitInv ==
  ASSUME Inv, Exit
  PROVE  Inv'
  BY Apart DEF Inv, TypeOK, LockInv, CallInv, BufferInv, FileInv, Exit, diskVars, timerVars

LEMMA KillInv ==
  ASSUME Inv, Kill
  PROVE  Inv'
  BY DEF Inv, TypeOK, LockInv, CallInv, BufferInv, FileInv, Kill, diskVars, timerVars

------------------------------------------------------------------------------
(* The timers. *)

LEMMA OutsideTheLockInv ==
  ASSUME Inv, NEW t \in Timers, StartTimer(t) \/ Stop(t) \/ Destroy(t)
  PROVE  Inv'
<1>1. count \in Nat /\ count + 1 \in Nat /\ MaxProfiles \in Nat
  BY InstrumentorAssumption DEF Inv, TypeOK
<1>2. Stop(t) => count + 1 \in Profiles /\ count' \in 0 .. MaxProfiles
  BY <1>1 DEF Inv, TypeOK, Stop, Profiles
<1>3. TypeOK'
  BY <1>1, <1>2 DEF Inv, TypeOK, StartTimer, Stop, Destroy, gameVars, diskVars
<1>4. mutex' = mutex /\ mutex # t
  BY DEF Inv, TypeOK, LockInv, StartTimer, Stop, Destroy
<1>5. /\ \A u \in Timers \ {t} : timer'[u] = timer[u] /\ profile'[u] = profile[u]
      /\ timer'[t] \in {"running", "measured", "none"}
      /\ timer'[t] = "measured" => profile'[t] \in Profiles
  BY <1>2 DEF Inv, TypeOK, StartTimer, Stop, Destroy
<1>6. UNCHANGED <<gameVars, diskVars>>
  BY DEF StartTimer, Stop, Destroy
<1>7. LockInv'
  BY <1>4, <1>5, <1>6 DEF Inv, LockInv, gameVars
<1>8. CallInv'
  BY <1>5, <1>6 DEF Inv, CallInv, gameVars, diskVars
<1>9. BufferInv'
  BY <1>4, <1>5, <1>6 DEF Inv, LockInv, BufferInv, gameVars, diskVars
<1>10. FileInv'
  BY <1>6 DEF Inv, FileInv, gameVars, diskVars
<1> QED BY <1>3, <1>7, <1>8, <1>9, <1>10 DEF Inv

LEMMA WriteProfileInv ==
  ASSUME Inv, NEW t \in Timers, WriteProfile(t)
  PROVE  Inv'
<1>1. /\ program = "runs" /\ timer[t] = "measured" /\ mutex = Nobody /\ at = "idle"
      /\ profile[t] \in Profiles /\ \A u \in Timers : timer[u] \notin {"writing", "flushing"}
  BY Apart DEF Inv, TypeOK, LockInv, WriteProfile
<1>2. UNCHANGED <<gameVars, diskVars, profile, count>>
  BY DEF WriteProfile
<1>3. CASE session # NoPath
  <2>1. mutex' = t /\ timer' = [timer EXCEPT ![t] = "writing"] /\ dropped' = dropped
    BY <1>3 DEF WriteProfile
  <2> QED BY <1>1, <1>2, <1>3, <2>1, Apart
          DEF Inv, TypeOK, LockInv, CallInv, BufferInv, FileInv, gameVars, diskVars
<1>4. CASE session = NoPath
  <2>1. /\ mutex' = mutex /\ timer' = [timer EXCEPT ![t] = "stopped"]
        /\ dropped' = dropped \cup {profile[t]}
    BY <1>4 DEF WriteProfile
  <2> QED BY <1>1, <1>2, <1>4, <2>1, Apart
          DEF Inv, TypeOK, LockInv, CallInv, BufferInv, FileInv, gameVars, diskVars
<1> QED BY <1>3, <1>4

LEMMA OutputInv ==
  ASSUME Inv, NEW t \in Timers, Output(t)
  PROVE  Inv'
<1>1. /\ mutex = t /\ at = "idle" /\ session # NoPath /\ profile[t] \in Profiles
      /\ \A u \in Timers \ {t} : timer[u] \notin {"writing", "flushing"}
      /\ timer[t] = "writing"
  BY Apart DEF Inv, TypeOK, LockInv, CallInv, Output
<1>2. buffer = <<>>
  BY <1>1 DEF Inv, BufferInv
<1>3. /\ buffer' = <<profile[t]>> /\ buffer' \in Seq(Entries)
      /\ timer' = [timer EXCEPT ![t] = "flushing"] /\ mutex' = mutex
      /\ UNCHANGED <<gameVars, session, file, overwritten, profile, count, dropped>>
  BY <1>1, <1>2, Apart DEF Output
<1> QED BY <1>1, <1>3, Apart DEF Inv, TypeOK, LockInv, CallInv, BufferInv, FileInv, gameVars

LEMMA FlushInv ==
  ASSUME Inv, NEW t \in Timers, Flush(t)
  PROVE  Inv'
<1>1. /\ mutex = t /\ at = "idle" /\ session \in Paths /\ profile[t] \in Profiles
      /\ \A u \in Timers \ {t} : timer[u] \notin {"writing", "flushing"}
      /\ buffer = <<profile[t]>> /\ Begun(file[session]) /\ file[session] \in Seq(Entries)
  BY Apart DEF Inv, TypeOK, LockInv, CallInv, BufferInv, FileInv, Flush
<1>2. file[session] \o buffer \in Seq(Entries) /\ Begun(file[session] \o buffer)
  BY <1>1, Apart, FlushedEntry
<1>3. file' \in [Paths -> Seq(Entries)]
        /\ \A p \in Paths : file'[p] = IF p = session THEN file[session] \o buffer ELSE file[p]
  BY <1>1, <1>2 DEF Inv, TypeOK, Flush
<1>4. /\ buffer' = <<>> /\ buffer' \in Seq(Entries) /\ mutex' = Nobody
      /\ timer' = [timer EXCEPT ![t] = "stopped"]
      /\ UNCHANGED <<gameVars, session, overwritten, profile, count, dropped>>
  BY DEF Flush
<1>5. TypeOK'
  BY <1>3, <1>4 DEF Inv, TypeOK, gameVars
<1>6. \A u \in Timers : timer'[u] \notin {"writing", "flushing"}
  BY <1>1, <1>4 DEF Inv, TypeOK
<1>7. LockInv'
  BY <1>1, <1>4, <1>6, Apart DEF Inv, TypeOK, LockInv, gameVars
<1>8. FileInv'
  BY <1>1, <1>2, <1>3, <1>4 DEF Inv, FileInv, gameVars
<1> QED BY <1>1, <1>4, <1>5, <1>6, <1>7, <1>8 DEF Inv, CallInv, BufferInv, gameVars

LEMMA NextInv == Inv /\ [Next]_vars => Inv'
<1> SUFFICES ASSUME Inv, [Next]_vars PROVE Inv'
  OBVIOUS
<1>1. ASSUME NEW p \in Paths, BeginSession(p) PROVE Inv'
  BY <1>1, BeginSessionInv
<1>2. ASSUME NEW t \in Timers, StartTimer(t) \/ Stop(t) \/ Destroy(t) PROVE Inv'
  BY <1>2, OutsideTheLockInv
<1>3. ASSUME NEW t \in Timers, WriteProfile(t) \/ Output(t) \/ Flush(t) PROVE Inv'
  BY <1>3, WriteProfileInv, OutputInv, FlushInv
<1>4. CASE UNCHANGED vars
  BY <1>4 DEF Inv, TypeOK, LockInv, CallInv, BufferInv, FileInv, vars, gameVars, diskVars, timerVars
<1> QED BY <1>1, <1>2, <1>3, <1>4, EndSessionInv, WriteFooterInv, CloseFileInv, OpenFileInv,
           OpenFailsInv, WriteHeaderInv, FlushHeaderInv, ExitInv, KillInv DEF Next

\* The session, the stream, the files and the timers keep their types, for any
\* number of timers and files (instrumentor.h:30-135).
THEOREM TypeCorrect == Spec => []TypeOK
<1>1. Inv => TypeOK
  BY DEF Inv
<1> QED BY InitInv, NextInv, <1>1, PTL DEF Spec

\* Every results file but the one of the open session can be read, whatever the
\* threads and the game do, and after a kill too (instrumentor.h:34-115).
THEOREM FilesAreReadable == Spec => []FilesWellFormed
<1>1. Inv => FilesWellFormed
  BY Apart DEF Inv, TypeOK, CallInv, FileInv, FilesWellFormed
<1> QED BY InitInv, NextInv, <1>1, PTL DEF Spec

------------------------------------------------------------------------------
(* Where each profile is. *)

\* F, the files, has n at place i of file p.
Has(F, p, i, n) == p \in Paths /\ i \in DOMAIN F[p] /\ F[p][i] = n

Flying(t) == t \in Timers /\ timer[t] \in {"measured", "writing", "flushing"}

Lost == dropped \cup overwritten

\* A profile is in one place of a file, with one timer, or lost.
AccountInv ==
  /\ \A n \in Profiles : \A p, q, i, j : Has(file, p, i, n) /\ Has(file, q, j, n) => p = q /\ i = j
  /\ \A n \in Profiles : \A p, i : Has(file, p, i, n) => n <= count /\ n \notin Lost
  /\ \A n \in Profiles : \A p, i, t : Has(file, p, i, n) /\ Flying(t) => profile[t] # n
  /\ \A t : Flying(t) => profile[t] <= count /\ profile[t] \notin Lost
  /\ \A t, u : Flying(t) /\ Flying(u) /\ profile[t] = profile[u] => t = u
  /\ \A n \in Lost : n <= count
  /\ \A n \in 1 .. count :
       n \in Lost \/ (\E t : Flying(t) /\ profile[t] = n) \/ \E p, i : Has(file, p, i, n)

LEMMA AccountKept ==
  ASSUME AccountInv, UNCHANGED <<file, dropped, overwritten, profile, count>>,
         \A t \in Timers : Flying(t)' <=> Flying(t)
  PROVE  AccountInv'
<1>1. \A t : Flying(t)' <=> Flying(t)
  BY DEF Flying
<1> QED BY <1>1 DEF AccountInv, Lost, Has

\* A flush adds what was in the buffer, at the end of the open file.
LEMMA FlushAdds ==
  ASSUME TypeOK, session \in Paths, NEW e \in Entries, buffer = <<e>>,
         file' = [file EXCEPT ![session] = @ \o buffer]
  PROVE  /\ \A p, i, n : Has(file', p, i, n) <=>
                Has(file, p, i, n) \/ (p = session /\ i = Len(file[session]) + 1 /\ n = e)
         /\ \A n : ~ Has(file, session, Len(file[session]) + 1, n)
<1> DEFINE f == file[session]
<1>1. f \in Seq(Entries) /\ Len(f) \in Nat /\ DOMAIN f = 1 .. Len(f)
  BY DEF TypeOK
<1>2. /\ f \o <<e>> \in Seq(Entries) /\ Len(f \o <<e>>) = Len(f) + 1
      /\ (f \o <<e>>)[Len(f) + 1] = e /\ \A i \in 1 .. Len(f) : (f \o <<e>>)[i] = f[i]
  BY <1>1, FlushedEntry
<1>3. DOMAIN (f \o <<e>>) = 1 .. Len(f) + 1
  BY <1>2
<1>4. \A p \in Paths : file'[p] = IF p = session THEN f \o <<e>> ELSE file[p]
  BY DEF TypeOK
<1> HIDE DEF f
<1>5. ASSUME NEW i, NEW n
      PROVE  Has(file', session, i, n) <=> Has(file, session, i, n) \/ (i = Len(f) + 1 /\ n = e)
  <2>1. Has(file', session, i, n) <=> i \in 1 .. Len(f) + 1 /\ (f \o <<e>>)[i] = n
    BY <1>3, <1>4 DEF Has
  <2>2. Has(file, session, i, n) <=> i \in 1 .. Len(f) /\ f[i] = n
    BY <1>1 DEF Has, f
  <2> QED BY <1>1, <1>2, <2>1, <2>2
<1>6. \A n : ~ Has(file, session, Len(f) + 1, n)
  BY <1>1 DEF Has, f
<1>7. ASSUME NEW p, NEW i, NEW n, p # session
      PROVE  Has(file', p, i, n) <=> Has(file, p, i, n)
  BY <1>4, <1>7 DEF Has
<1> QED BY <1>5, <1>6, <1>7 DEF f

\* The header and the footer are no profiles.
LEMMA FrameAccount ==
  ASSUME TypeOK, AccountInv, session \in Paths, NEW e \in Entries \ Profiles, buffer = <<e>>,
         file' = [file EXCEPT ![session] = @ \o buffer],
         UNCHANGED <<dropped, overwritten, profile, count, timer>>
  PROVE  AccountInv'
<1>1. \A p, i : \A n \in Profiles : Has(file', p, i, n) <=> Has(file, p, i, n)
  BY FlushAdds
<1>2. \A t : Flying(t)' <=> Flying(t)
  BY DEF Flying
<1>3. 1 .. count \subseteq Profiles
  BY InstrumentorAssumption DEF TypeOK, Profiles
<1>4. Lost' = Lost
  BY DEF Lost
<1>5. \A n \in 1 .. count' :
        n \in Lost' \/ (\E t : Flying(t)' /\ profile'[t] = n) \/ \E p, i : Has(file', p, i, n)
  BY <1>1, <1>2, <1>3, <1>4 DEF AccountInv
<1>6. \A n \in Profiles : \A p, q, i, j : Has(file', p, i, n) /\ Has(file', q, j, n) => p = q /\ i = j
  BY <1>1 DEF AccountInv
<1>7. \A n \in Profiles : \A p, i : Has(file', p, i, n) =>
        n <= count' /\ n \notin Lost' /\ \A t : Flying(t)' => profile'[t] # n
  BY <1>1, <1>2, <1>4 DEF AccountInv
<1>8. /\ \A t : Flying(t)' => profile'[t] <= count' /\ profile'[t] \notin Lost'
      /\ \A t, u : Flying(t)' /\ Flying(u)' /\ profile'[t] = profile'[u] => t = u
      /\ \A n \in Lost' : n <= count'
  BY <1>2, <1>4 DEF AccountInv
<1> QED BY <1>5, <1>6, <1>7, <1>8 DEF AccountInv

LEMMA OpenFileAccount ==
  ASSUME Inv, AccountInv, OpenFile
  PROVE  AccountInv'
<1>1. next \in Paths /\ count' = count /\ profile' = profile /\ dropped' = dropped /\ timer' = timer
  BY DEF Inv, TypeOK, CallInv, OpenFile, timerVars
<1>2. \A p, i, n : Has(file', p, i, n) <=> Has(file, p, i, n) /\ p # next
  BY <1>1 DEF Inv, TypeOK, OpenFile, Has
<1>3. \A n : n \in Lost' <=> n \in Lost \/ (n \in Profiles /\ \E i : Has(file, next, i, n))
  BY <1>1 DEF OpenFile, Lost, EntriesOf, Has
<1>4. \A t : Flying(t)' <=> Flying(t)
  BY <1>1 DEF Flying
<1>5. 1 .. count \subseteq Profiles /\ \A t : Flying(t) => profile[t] \in Profiles
  BY InstrumentorAssumption DEF Inv, TypeOK, LockInv, Profiles, Flying
<1> QED BY <1>1, <1>2, <1>3, <1>4, <1>5 DEF AccountInv

\* A stop makes a number nobody has.
LEMMA StopAccount ==
  ASSUME Inv, AccountInv, NEW t \in Timers, Stop(t)
  PROVE  AccountInv'
<1>1. /\ count \in Nat /\ count' = count + 1 /\ ~ Flying(t)
      /\ Lost' = Lost /\ file' = file /\ count + 1 \in Profiles
  BY InstrumentorAssumption DEF Inv, TypeOK, Stop, diskVars, Lost, Flying, Profiles
<1>2. /\ \A u : Flying(u)' <=> Flying(u) \/ u = t
      /\ profile'[t] = count + 1 /\ \A u \in Timers \ {t} : profile'[u] = profile[u]
  BY DEF Inv, TypeOK, Stop, Flying
<1>3. \A u : Flying(u) => u \in Timers \ {t} /\ profile[u] \in Profiles /\ profile[u] <= count
  BY <1>1 DEF Inv, LockInv, AccountInv, Flying
<1>4. \A n \in Profiles \cup Lost : n \in Int
  BY DEF Inv, TypeOK, Profiles, Lost
<1>5. \A n \in Lost : n <= count
  BY DEF AccountInv
<1>6. \A n \in Profiles : \A p, i : Has(file, p, i, n) => n <= count
  BY DEF AccountInv
<1>7. \A n \in 1 .. count' : n \in 1 .. count \/ n = count + 1
  BY <1>1
<1>8. \A u, v : Flying(u)' /\ Flying(v)' /\ profile'[u] = profile'[v] => u = v
  BY <1>1, <1>2, <1>3, <1>4 DEF AccountInv
<1>9. \A u : Flying(u)' => profile'[u] <= count' /\ profile'[u] \notin Lost'
  BY <1>1, <1>2, <1>3, <1>4, <1>5 DEF AccountInv
<1>10. \A n \in Profiles : \A p, i, u : Has(file', p, i, n) /\ Flying(u)' => profile'[u] # n
  BY <1>1, <1>2, <1>3, <1>4, <1>6 DEF AccountInv
<1>11. \A n \in Profiles : \A p, i : Has(file', p, i, n) => n <= count' /\ n \notin Lost'
  BY <1>1, <1>4 DEF AccountInv
<1>12. \A n \in Lost' : n <= count'
  BY <1>1, <1>4, <1>5
<1>13. \A n \in 1 .. count' :
         n \in Lost' \/ (\E u : Flying(u)' /\ profile'[u] = n) \/ \E p, i : Has(file', p, i, n)
  BY <1>1, <1>2, <1>3, <1>7 DEF AccountInv
<1> QED BY <1>1, <1>8, <1>9, <1>10, <1>11, <1>12, <1>13 DEF AccountInv

\* A profile goes from the timer to the dropped ones, or to the disk.
LEMMA WriteProfileAccount ==
  ASSUME Inv, AccountInv, NEW t \in Timers, WriteProfile(t)
  PROVE  AccountInv'
<1>1. UNCHANGED <<file, overwritten, profile, count>> /\ Flying(t) /\ TypeOK
  BY DEF Inv, TypeOK, WriteProfile, diskVars, Flying
<1>2. CASE session # NoPath
  <2>1. timer' = [timer EXCEPT ![t] = "writing"] /\ dropped' = dropped
    BY <1>2 DEF WriteProfile
  <2>2. \A u \in Timers : Flying(u)' <=> Flying(u)
    BY <1>1, <2>1 DEF Flying, TypeOK
  <2> QED BY <1>1, <2>1, <2>2, AccountKept
<1>3. CASE session = NoPath
  <2>1. timer' = [timer EXCEPT ![t] = "stopped"] /\ Lost' = Lost \cup {profile[t]}
    BY <1>1, <1>3 DEF WriteProfile, Lost
  <2>2. \A u : Flying(u)' <=> Flying(u) /\ u # t
    BY <1>1, <2>1 DEF Flying, TypeOK
  <2>3. \A p, i, n : Has(file', p, i, n) <=> Has(file, p, i, n)
    BY <1>1
  <2> QED BY <1>1, <2>1, <2>2, <2>3 DEF AccountInv
<1> QED BY <1>2, <1>3

LEMMA FlushAccount ==
  ASSUME Inv, AccountInv, NEW t \in Timers, Flush(t)
  PROVE  AccountInv'
<1>1. /\ Flying(t) /\ profile[t] \in Profiles /\ buffer = <<profile[t]>> /\ session \in Paths
      /\ UNCHANGED <<overwritten, profile, count, dropped>> /\ TypeOK
  BY DEF Inv, TypeOK, LockInv, CallInv, BufferInv, Flush, Flying
<1> DEFINE k == Len(file[session]) + 1
<1>2. \A p, i, n : Has(file', p, i, n) <=> Has(file, p, i, n) \/ (p = session /\ i = k /\ n = profile[t])
  BY <1>1, Apart, FlushAdds DEF Flush
<1>3. \A u : Flying(u)' <=> Flying(u) /\ u # t
  BY <1>1 DEF TypeOK, Flush, Flying
<1>4. \A p, i : ~ Has(file, p, i, profile[t])
  BY <1>1 DEF AccountInv
<1>5. Lost' = Lost
  BY <1>1 DEF Lost
<1> HIDE DEF k
<1> QED BY <1>1, <1>2, <1>3, <1>4, <1>5 DEF AccountInv

LEMMA NextAccount == Inv /\ AccountInv /\ [Next]_vars => AccountInv'
<1> SUFFICES ASSUME Inv, AccountInv, [Next]_vars PROVE AccountInv'
  OBVIOUS
<1>1. ASSUME \/ \E p \in Paths : BeginSession(p)
             \/ EndSession \/ WriteFooter \/ OpenFails \/ WriteHeader \/ Exit \/ Kill \/ UNCHANGED vars
      PROVE  AccountInv'
  <2>1. UNCHANGED <<file, dropped, overwritten, profile, count, timer>>
    BY <1>1 DEF BeginSession, EndSession, WriteFooter, OpenFails, WriteHeader, Exit, Kill,
                vars, diskVars, timerVars
  <2>2. \A t \in Timers : Flying(t)' <=> Flying(t)
    BY <2>1 DEF Flying
  <2> QED BY <2>1, <2>2, AccountKept
<1>2. CASE CloseFile
  <2>1. session \in Paths /\ buffer = <<Footer>> /\ TypeOK
    BY <1>2 DEF Inv, TypeOK, CallInv, BufferInv, CloseFile
  <2> QED BY <1>2, <2>1, Apart, FrameAccount DEF CloseFile, timerVars
<1>3. CASE FlushHeader
  <2>1. session \in Paths /\ buffer = <<Header>> /\ TypeOK
    BY <1>3 DEF Inv, TypeOK, CallInv, BufferInv, FlushHeader
  <2> QED BY <1>3, <2>1, Apart, FrameAccount DEF FlushHeader, timerVars
<1>4. ASSUME NEW t \in Timers, StartTimer(t) \/ Output(t) \/ Destroy(t)
      PROVE  AccountInv'
  <2>1. UNCHANGED <<file, dropped, overwritten, profile, count>>
    BY <1>4 DEF StartTimer, Output, Destroy, diskVars
  <2>2. \A u \in Timers : Flying(u)' <=> Flying(u)
    BY <1>4 DEF Inv, TypeOK, StartTimer, Output, Destroy, Flying
  <2> QED BY <2>1, <2>2, AccountKept
<1>5. ASSUME NEW t \in Timers, Stop(t) \/ WriteProfile(t) \/ Flush(t)
      PROVE  AccountInv'
  BY <1>5, StopAccount, WriteProfileAccount, FlushAccount
<1> QED BY <1>1, <1>2, <1>3, <1>4, <1>5, OpenFileAccount DEF Next

LEMMA AccountMeans == Inv /\ AccountInv => ProfilesAccounted
<1> SUFFICES ASSUME Inv, AccountInv, NEW n \in 1 .. count
             PROVE  /\ \A a, b \in OnDisk(n) : a = b
                    /\ OnDisk(n) = {} => n \in InFlight \cup dropped \cup overwritten
                    /\ OnDisk(n) # {} => n \notin dropped \cup overwritten
  BY DEF ProfilesAccounted
<1>1. \A place : place \in OnDisk(n) <=> \E p, i : Has(file, p, i, n) /\ place = <<p, i>>
  BY DEF OnDisk, Has
<1>2. n \in Profiles
  BY InstrumentorAssumption DEF Inv, TypeOK, Profiles
<1>3. \A t : Flying(t) => profile[t] \in InFlight
  BY DEF Flying, InFlight
<1>4. \A p, q, i, j : Has(file, p, i, n) /\ Has(file, q, j, n) => p = q /\ i = j
  BY <1>2 DEF AccountInv
<1>5. \A a, b \in OnDisk(n) : a = b
  BY <1>1, <1>4
<1>6. ASSUME OnDisk(n) = {} PROVE n \in InFlight \cup Lost
  <2>1. ~ \E p, i : Has(file, p, i, n)
    BY <1>1, <1>6
  <2>2. n \in Lost \/ \E t : Flying(t) /\ profile[t] = n
    BY <2>1 DEF AccountInv
  <2> QED BY <1>3, <2>2
<1>7. ASSUME OnDisk(n) # {} PROVE n \notin Lost
  BY <1>1, <1>2, <1>7 DEF AccountInv
<1> QED BY <1>5, <1>6, <1>7 DEF Lost

\* Every profile whose Stop has returned is on the disk in one place, unless no
\* session was open or its file was opened again, and so it stays after a kill
\* (instrumentor.h:70-74, 130-138).
THEOREM NothingLostOrTwice == Spec => []ProfilesAccounted
<1>1. Init => AccountInv
  <2> SUFFICES ASSUME Init PROVE AccountInv
    OBVIOUS
  <2>1. \A p, i, n : ~ Has(file, p, i, n)
    BY DEF Init, Has
  <2> QED BY <2>1 DEF Init, AccountInv, Flying, Lost
<1>2. Init => Inv /\ AccountInv
  BY <1>1, InitInv
<1>3. (Inv /\ AccountInv) /\ [Next]_vars => (Inv /\ AccountInv)'
  BY NextInv, NextAccount
<1> QED BY <1>2, <1>3, AccountMeans, PTL DEF Spec
==============================================================================
