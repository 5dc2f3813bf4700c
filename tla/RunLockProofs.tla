--------------------------- MODULE RunLockProofs ---------------------------
(***************************************************************************)
(* Proofs about RunLock, and about LockedMonitor on top of it, for any set *)
(* of monitors, lease and bounds.                                          *)
(***************************************************************************)
EXTENDS LockedMonitor, TLAPS

(* While no takeover was rash, a monitor about to unlink is alone in that, *)
(* and the file at the path is still the one of a dead monitor.            *)
LoneTakeover ==
    /\ \A m \in Monitors : pc[m] = "unlink" => Orphaned
    /\ \A m, n \in Monitors : pc[m] = "unlink" /\ pc[n] = "unlink" => m = n

(* The inductive invariant: OwnersKeepTheFile alone is not inductive, for  *)
(* nothing in it says which file TakeOver removes.                         *)
IInv ==
    /\ TypeOK
    /\ OwnersKeepTheFile
    /\ ~rash => LoneTakeover

LEMMA TypeInit == Init => TypeOK
  <1> SUFFICES ASSUME Init PROVE TypeOK
    OBVIOUS
  <1>1. stolen \in [Monitors -> BOOLEAN] /\ rash \in BOOLEAN
    BY Zenon DEF Init
  <1> QED
    BY <1>1 DEF Init, TypeOK, PCs, Unwritten

LEMMA TypeStep == TypeOK /\ [Next]_vars => TypeOK'
  <1> SUFFICES ASSUME TypeOK, [Next]_vars PROVE TypeOK'
    OBVIOUS
  <1> USE DEF TypeOK, PCs, Goto
  <1>1. ASSUME NEW m \in Monitors, Begin(m) PROVE TypeOK'
    BY <1>1 DEF Begin
  <1>2. ASSUME NEW m \in Monitors, CreateFile(m) PROVE TypeOK'
    BY <1>2 DEF CreateFile, Unwritten
  <1>3. ASSUME NEW m \in Monitors, CreateExists(m) PROVE TypeOK'
    BY <1>3 DEF CreateExists, AfterExists
  <1>4. ASSUME NEW m \in Monitors, WriteInfo(m) PROVE TypeOK'
    BY <1>4, StaleMsAssumption DEF WriteInfo, Expiry
  <1>5. ASSUME NEW m \in Monitors,
               HolderLive(m) \/ HolderStale(m) \/ ReadError(m)
        PROVE TypeOK'
    <2>1. rash' \in BOOLEAN
      BY <1>5, Zenon DEF HolderLive, HolderStale, ReadError, JudgeStale
    <2> QED
      BY <1>5, <2>1 DEF HolderLive, HolderStale, ReadError, JudgeStale, Fault
  <1>6. ASSUME NEW m \in Monitors, TakeOver(m) \/ TakeOverGone(m)
        PROVE TypeOK'
    <2>1. stolen' \in [Monitors -> BOOLEAN]
      BY <1>6, Zenon DEF TakeOver, TakeOverGone
    <2> QED
      BY <1>6, <2>1 DEF TakeOver, TakeOverGone, RemoveFile, Unwritten
  <1>7. ASSUME NEW m \in Monitors, ReleaseRead(m) \/ ReleaseUnlink(m)
        PROVE TypeOK'
    BY <1>7 DEF ReleaseRead, ReleaseUnlink, RemoveFile, Unwritten
  <1>8. ASSUME NEW m \in Monitors,
               \/ ReleaseReadError(m) \/ IOError(m)
               \/ Crash(m) \/ Restart(m)
        PROVE TypeOK'
    BY <1>8 DEF ReleaseReadError, IOError, Crash, Restart, Fault
  <1>9. CASE Tick
    BY <1>9 DEF Tick
  <1>10. CASE UNCHANGED vars
    BY <1>10 DEF vars
  <1> QED
    BY <1>1, <1>2, <1>3, <1>4, <1>5, <1>6, <1>7, <1>8, <1>9, <1>10
       DEF Next, Step, Mishap

(* Every variable of RunLock has its type in every reachable state. *)
THEOREM TypeCorrect == Spec => []TypeOK
  BY TypeInit, TypeStep, PTL DEF Spec

(* The inductive step: no call of any monitor, crash or tick breaks IInv. *)
LEMMA LockStep == IInv /\ TypeOK' /\ [Next]_vars => IInv'
  <1> SUFFICES ASSUME IInv, TypeOK', [Next]_vars, ~rash'
               PROVE (\A m \in Owning : owner = m)' /\ LoneTakeover'
    BY DEF IInv, OwnersKeepTheFile
  <1>1. ~rash
    <2>1. ASSUME NEW m \in Monitors, Step(m) \/ Mishap(m)
          PROVE ~rash
      BY <2>1 DEF Step, Begin, CreateFile, CreateExists, WriteInfo, HolderLive,
         HolderStale, JudgeStale, TakeOver, TakeOverGone, ReleaseRead,
         ReleaseUnlink, Mishap, ReadError, ReleaseReadError, IOError, Crash,
         Restart
    <2>2. CASE Tick
      BY <2>2 DEF Tick
    <2>3. CASE UNCHANGED vars
      BY <2>3 DEF vars
    <2> QED
      BY <2>1, <2>2, <2>3 DEF Next
  <1>2. /\ TypeOK
        /\ \A m \in Owning : owner = m
        /\ LoneTakeover
    BY <1>1 DEF IInv, OwnersKeepTheFile
  <1> USE <1>2, MonitorsAssumption
      DEF TypeOK, PCs, Goto, Owning, Orphaned, LoneTakeover
  <1> DEFINE Goal == (\A m \in Owning : owner = m)' /\ LoneTakeover'
  <1>3. ASSUME NEW m \in Monitors, Begin(m) PROVE Goal
    BY <1>3 DEF Begin
  <1>4. ASSUME NEW m \in Monitors, CreateFile(m) PROVE Goal
    BY <1>4 DEF CreateFile, PathFree
  <1>5. ASSUME NEW m \in Monitors, CreateExists(m) PROVE Goal
    BY <1>5 DEF CreateExists, AfterExists
  <1>6. ASSUME NEW m \in Monitors, WriteInfo(m) PROVE Goal
    BY <1>6 DEF WriteInfo
  <1>7. ASSUME NEW m \in Monitors, HolderLive(m) PROVE Goal
    BY <1>7 DEF HolderLive
  <1>8. ASSUME NEW m \in Monitors, HolderStale(m) \/ ReadError(m)
        PROVE Goal
    (* here ~rash' says that the lock is orphaned and no other is at it *)
    BY <1>8 DEF HolderStale, ReadError, JudgeStale
  <1>9. ASSUME NEW m \in Monitors, TakeOver(m) PROVE Goal
    (* the file removed is an orphan, so nobody owned the path *)
    <2>1. Orphaned
      BY <1>9 DEF TakeOver
    <2>2. Owning = {}
      BY <2>1
    <2> QED
      BY <1>9, <2>2 DEF TakeOver, RemoveFile
  <1>10. ASSUME NEW m \in Monitors, TakeOverGone(m) PROVE Goal
    BY <1>10 DEF TakeOverGone
  <1>11. ASSUME NEW m \in Monitors, ReleaseRead(m) PROVE Goal
    BY <1>11 DEF ReleaseRead
  <1>12. ASSUME NEW m \in Monitors, ReleaseUnlink(m) PROVE Goal
    (* the file removed is m's own, and m was the only owner *)
    <2>1. owner = m /\ m \in Owning
      BY <1>12 DEF ReleaseUnlink
    <2> QED
      BY <1>12, <2>1 DEF ReleaseUnlink, RemoveFile
  <1>13. ASSUME NEW m \in Monitors, ReleaseReadError(m) \/ IOError(m)
         PROVE Goal
    BY <1>13 DEF ReleaseReadError, IOError
  <1>14. ASSUME NEW m \in Monitors, Crash(m) PROVE Goal
    BY <1>14 DEF Crash
  <1>15. ASSUME NEW m \in Monitors, Restart(m) PROVE Goal
    BY <1>15 DEF Restart
  <1>16. CASE Tick
    BY <1>16 DEF Tick
  <1>17. CASE UNCHANGED vars
    BY <1>17 DEF vars
  <1> QED
    BY <1>3, <1>4, <1>5, <1>6, <1>7, <1>8, <1>9, <1>10, <1>11, <1>12, <1>13,
       <1>14, <1>15, <1>16, <1>17 DEF Next, Step, Mishap

LEMMA LockInit == Init => IInv
  BY TypeInit DEF Init, IInv, OwnersKeepTheFile, Owning, LoneTakeover

LEMMA LockInvariant == Spec => []IInv
  <1>1. IInv => TypeOK
    BY DEF IInv
  <1> QED
    BY <1>1, LockInit, TypeStep, LockStep, PTL DEF Spec

(* Absent a rash takeover, a monitor that created its lock file owns the   *)
(* path until it removes the file itself.                                  *)
THEOREM Ownership == Spec => []OwnersKeepTheFile
  BY LockInvariant, PTL DEF IInv

(* Absent a rash takeover, at most one monitor holds the lock. *)
THEOREM Exclusion == Spec => []ExclusiveUnlessRash
  <1>1. IInv => ExclusiveUnlessRash
    BY DEF IInv, OwnersKeepTheFile, ExclusiveUnlessRash, MutualExclusion,
       Holders, Owning
  <1> QED
    BY <1>1, LockInvariant, PTL
----------------------------------------------------------------------------
(* The refinement: writing the lock's content is Acquire, the read that    *)
(* begins release() (or a crash) is Release, a rash decision is            *)
(* Compromise, and every other step is invisible.                          *)
LEMMA AcquireRefines ==
    ASSUME IInv, NEW m \in Monitors, WriteInfo(m) PROVE Promise!Acquire(m)
  <1> USE DEF IInv, TypeOK, PCs, Goto, Holders
  <1>1. rash \/ Holders = {}
    BY DEF WriteInfo, OwnersKeepTheFile, Owning
  <1>2. m \notin Holders /\ Holders' = Holders \cup {m} /\ rash' = rash
    BY DEF WriteInfo
  <1> QED
    BY <1>1, <1>2 DEF Promise!Acquire

LEMMA ReleaseRefines ==
    ASSUME IInv, NEW m \in Monitors, pc[m] = "held",
           ReleaseRead(m) \/ ReleaseReadError(m) \/ Crash(m)
    PROVE  Promise!Release(m)
  <1>1. m \in Holders /\ Holders' = Holders \ {m} /\ rash' = rash
    BY DEF ReleaseRead, ReleaseReadError, Crash, IInv, TypeOK, PCs, Goto,
       Holders
  <1> QED
    BY <1>1 DEF Promise!Release

LEMMA CompromiseRefines ==
    ASSUME IInv, NEW m \in Monitors, HolderStale(m) \/ ReadError(m)
    PROVE  Promise!Compromise \/ UNCHANGED <<Holders, rash>>
  <1>1. Holders' = Holders /\ (rash' = TRUE \/ rash' = rash)
    BY DEF HolderStale, ReadError, JudgeStale, IInv, TypeOK, PCs, Goto,
       Holders
  <1> QED
    BY <1>1 DEF Promise!Compromise

LEMMA OthersAreInvisible ==
    ASSUME IInv, NEW m \in Monitors,
           \/ Begin(m) \/ CreateFile(m) \/ CreateExists(m)
           \/ HolderLive(m) \/ TakeOver(m) \/ TakeOverGone(m)
           \/ ReleaseUnlink(m) \/ IOError(m) \/ Restart(m)
           \/ Crash(m) /\ pc[m] # "held"
    PROVE  UNCHANGED <<Holders, rash>>
  BY DEF IInv, TypeOK, PCs, Goto, Holders, Begin, CreateFile, CreateExists,
     AfterExists, HolderLive, TakeOver, TakeOverGone, ReleaseUnlink, IOError,
     Restart, Crash

LEMMA LockStepRefines ==
    IInv /\ [Next]_vars => [Promise!Next]_<<Holders, rash>>
  <1> SUFFICES ASSUME IInv, [Next]_vars
               PROVE Promise!Next \/ UNCHANGED <<Holders, rash>>
    OBVIOUS
  <1>1. ASSUME NEW m \in Monitors, Step(m) \/ Mishap(m)
        PROVE Promise!Next \/ UNCHANGED <<Holders, rash>>
    <2>1. CASE WriteInfo(m)
      BY <2>1, AcquireRefines DEF Promise!Next
    <2>2. CASE /\ ReleaseRead(m) \/ ReleaseReadError(m) \/ Crash(m)
               /\ pc[m] = "held"
      BY <2>2, ReleaseRefines DEF Promise!Next
    <2>3. CASE HolderStale(m) \/ ReadError(m)
      BY <2>3, CompromiseRefines DEF Promise!Next
    <2>4. ReleaseRead(m) \/ ReleaseReadError(m) => pc[m] = "held"
      BY DEF ReleaseRead, ReleaseReadError
    <2> QED
      BY <1>1, <2>1, <2>2, <2>3, <2>4, OthersAreInvisible DEF Step, Mishap
  <1>2. CASE Tick \/ UNCHANGED vars
    BY <1>2 DEF Tick, vars, Holders
  <1> QED
    BY <1>1, <1>2 DEF Next

(* The lock file keeps the promise of AdvisoryLock to its clients. *)
THEOREM Refinement == Spec => ImplementsAdvisoryLock
  <1>1. Init => Promise!Init
    BY DEF Init, Promise!Init, Holders
  <1>2. IInv /\ [Next]_vars => [Promise!Next]_Promise!vars
    BY LockStepRefines DEF Promise!vars
  <1> QED
    BY <1>1, <1>2, LockInvariant, PTL
       DEF Spec, ImplementsAdvisoryLock, Promise!Spec
----------------------------------------------------------------------------
(* How many calls the acquire() or release() that m is in may still make.  *)
CallsLeft(m) ==
    CASE pc[m] = "create"              -> IF stolen[m] THEN 2 ELSE 5
      [] pc[m] = "read"                -> 4
      [] pc[m] = "unlink"              -> 3
      [] pc[m] \in {"write", "remove"} -> 1
      [] OTHER                         -> 0

(* acquire() and release() are wait-free: each call brings them nearer to  *)
(* their end, and nothing that the other monitors do takes them back, so   *)
(* that no contention keeps a pass in them ("stale lock is taken over      *)
(* instead of blocking forever", run-lock.mjs:7-8).                        *)
CallsEnd ==
    [][\A m \in Monitors : pc[m] \notin {"idle", "held", "down"} =>
         \/ CallsLeft(m)' < CallsLeft(m)
         \/ pc'[m] = pc[m] /\ CallsLeft(m)' = CallsLeft(m)]_vars

(* No call of the lock is taken back by another monitor, whatever the      *)
(* interleaving: an acquire() is over after at most five calls.            *)
THEOREM WaitFree == Spec => CallsEnd
  <1> DEFINE A == \A m \in Monitors : pc[m] \notin {"idle", "held", "down"} =>
                     \/ CallsLeft(m)' < CallsLeft(m)
                     \/ pc'[m] = pc[m] /\ CallsLeft(m)' = CallsLeft(m)
  <1>1. TypeOK /\ [Next]_vars => A
    <2> SUFFICES ASSUME TypeOK, [Next]_vars, NEW m \in Monitors,
                        pc[m] \notin {"idle", "held", "down"}
                 PROVE  \/ CallsLeft(m)' < CallsLeft(m)
                        \/ pc'[m] = pc[m] /\ CallsLeft(m)' = CallsLeft(m)
      OBVIOUS
    <2> USE DEF TypeOK, PCs, Goto, CallsLeft
    <2>1. ASSUME NEW n \in Monitors, n # m, Step(n) \/ Mishap(n)
          PROVE  pc'[m] = pc[m] /\ stolen'[m] = stolen[m]
      BY <2>1 DEF Step, Begin, CreateFile, CreateExists, WriteInfo,
         HolderLive, HolderStale, JudgeStale, TakeOver, TakeOverGone,
         ReleaseRead, ReleaseUnlink, Mishap, ReadError, ReleaseReadError,
         IOError, Crash, Restart
    <2>2. CASE TakeOver(m)
      <3>1. stolen'[m] = TRUE /\ pc[m] = "unlink" /\ pc'[m] = "create"
        BY <2>2 DEF TakeOver
      <3> QED
        BY <3>1
    <2>3. CASE CreateExists(m)
      BY <2>3 DEF CreateExists, AfterExists
    <2>4. CASE \/ CreateFile(m) \/ WriteInfo(m) \/ HolderLive(m)
               \/ HolderStale(m) \/ ReadError(m) \/ TakeOverGone(m)
               \/ ReleaseUnlink(m) \/ IOError(m) \/ Crash(m)
      BY <2>4 DEF CreateFile, WriteInfo, HolderLive, HolderStale, ReadError,
         JudgeStale, TakeOverGone, ReleaseUnlink, IOError, Crash
    <2>5. CASE Begin(m) \/ ReleaseRead(m) \/ ReleaseReadError(m) \/ Restart(m)
      BY <2>5 DEF Begin, ReleaseRead, ReleaseReadError, Restart
    <2>6. CASE Tick \/ UNCHANGED vars
      BY <2>6 DEF Tick, vars
    <2> QED
      BY <2>1, <2>2, <2>3, <2>4, <2>5, <2>6 DEF Next, Step, Mishap
  <1>2. TypeOK /\ [Next]_vars => [A]_vars
    BY <1>1
  <1> QED
    BY <1>2, TypeCorrect, PTL DEF Spec, CallsEnd
----------------------------------------------------------------------------
(* LockedMonitor: the passes on top of the lock.  What the program         *)
(* counters of a monitor in its pass and in the lock have to do with each  *)
(* other.                                                                  *)
Coupled ==
    /\ step \in [Monitors -> Pass!PCs]
    /\ \A m \in Monitors :
        /\ pc[m] \in {"create", "write", "read", "unlink"}
               => step[m] = "observed"
        /\ pc[m] = "held"
               <=> step[m] \in {"load", "write", "append", "release"}
        /\ pc[m] = "down" <=> step[m] = "down"
        /\ pc[m] = "remove" => step[m] = "idle"

(* Seen from the lock, every step is one of its own or none. *)
LEMMA LockSide ==
    ASSUME [LockedNext]_<<vars, passVars>> PROVE [Next]_vars
  BY DEF LockedNext, ObserveRun, CallAcquire, GoOnAcquire, AcquireFails,
     AcquireReturns, ProcessRun, CallRelease, FinishRelease, CrashBoth,
     RestartBoth, Next, Step, Mishap

LEMMA CoupledInit == LockedInit => Coupled
  BY DEF LockedInit, Init, Pass!Init, Coupled, Pass!PCs

LEMMA CoupledStep ==
    TypeOK /\ Coupled /\ [LockedNext]_<<vars, passVars>> => Coupled'
  <1> SUFFICES ASSUME TypeOK, Coupled, [LockedNext]_<<vars, passVars>>
               PROVE Coupled'
    OBVIOUS
  <1> USE DEF TypeOK, PCs, Goto, Coupled, Pass!PCs, Pass!Goto
  <1>1. ASSUME NEW m \in Monitors, ObserveRun(m) PROVE Coupled'
    BY <1>1 DEF ObserveRun, Pass!Observe, Pass!ObserveError, vars
  <1>2. ASSUME NEW m \in Monitors, CallAcquire(m) PROVE Coupled'
    BY <1>2 DEF CallAcquire, Begin, passVars
  <1>3. ASSUME NEW m \in Monitors, GoOnAcquire(m) PROVE Coupled'
    BY <1>3 DEF GoOnAcquire, CreateFile, CreateExists, AfterExists,
       HolderStale, ReadError, JudgeStale, TakeOver, passVars
  <1>4. ASSUME NEW m \in Monitors, AcquireFails(m) PROVE Coupled'
    BY <1>4 DEF AcquireFails, CreateExists, AfterExists, HolderLive,
       TakeOverGone, IOError, Pass!Skip, Pass!Forget
  <1>5. ASSUME NEW m \in Monitors, AcquireReturns(m) PROVE Coupled'
    BY <1>5 DEF AcquireReturns, WriteInfo, Pass!Enter
  <1>6. ASSUME NEW m \in Monitors, ProcessRun(m) PROVE Coupled'
    BY <1>6 DEF ProcessRun, Pass!Load, Pass!LoadError, Pass!Decide,
       Pass!WriteStatus, Pass!WriteError, Pass!AppendEvent,
       Pass!AppendError, vars
  <1>7. ASSUME NEW m \in Monitors, CallRelease(m) PROVE Coupled'
    BY <1>7 DEF CallRelease, ReleaseRead, ReleaseReadError, Pass!Leave,
       Pass!Forget
  <1>8. ASSUME NEW m \in Monitors, FinishRelease(m) PROVE Coupled'
    BY <1>8 DEF FinishRelease, ReleaseUnlink, IOError, passVars
  <1>9. ASSUME NEW m \in Monitors, CrashBoth(m) PROVE Coupled'
    BY <1>9 DEF CrashBoth, Crash, Pass!Die, Pass!Forget
  <1>10. ASSUME NEW m \in Monitors, RestartBoth(m) PROVE Coupled'
    BY <1>10 DEF RestartBoth, Restart, Pass!Restart
  <1>11. CASE \/ Tick /\ UNCHANGED passVars
              \/ UNCHANGED vars /\ Pass!Evolve
              \/ UNCHANGED <<vars, passVars>>
    BY <1>11 DEF Tick, Pass!Evolve, vars, passVars
  <1> QED
    BY <1>1, <1>2, <1>3, <1>4, <1>5, <1>6, <1>7, <1>8, <1>9, <1>10, <1>11
       DEF LockedNext

(* Seen from the pass, the last call of an acquire() that gets the lock is *)
(* Acquire, the first one of release() is Release, and the calls between   *)
(* are invisible, but for a rash decision, which is Compromise.            *)
LEMMA PassSide ==
    IInv /\ Coupled /\ [LockedNext]_<<vars, passVars>>
        => [Pass!Next]_(Pass!vars)
  <1> SUFFICES ASSUME IInv, Coupled, [LockedNext]_<<vars, passVars>>
               PROVE Pass!Next \/ UNCHANGED Pass!vars
    OBVIOUS
  <1> USE DEF Pass!lockVars
  <1>1. ASSUME NEW m \in Monitors, ObserveRun(m) PROVE Pass!Next
    BY <1>1 DEF ObserveRun, Pass!Next, Pass!Work
  <1>2. ASSUME NEW m \in Monitors, CallAcquire(m) PROVE UNCHANGED Pass!vars
    BY <1>2, OthersAreInvisible DEF CallAcquire, Pass!vars, passVars
  <1>3. ASSUME NEW m \in Monitors, GoOnAcquire(m)
        PROVE Pass!Next \/ UNCHANGED Pass!vars
    <2>1. CASE UNCHANGED <<Holders, rash>>
      BY <1>3, <2>1 DEF GoOnAcquire, Pass!vars, passVars
    <2>2. CASE Promise!Compromise
      BY <1>3, <2>2 DEF GoOnAcquire, passVars, Promise!Compromise, Pass!Next,
         Pass!Compromise, Pass!Lock!Compromise, Pass!passVars,
         Pass!historyVars
    <2> QED
      BY <1>3, <2>1, <2>2, OthersAreInvisible, CompromiseRefines
         DEF GoOnAcquire
  <1>4. ASSUME NEW m \in Monitors, AcquireFails(m) PROVE Pass!Next
    BY <1>4 DEF AcquireFails, Pass!Next, Pass!Work
  <1>5. ASSUME NEW m \in Monitors, AcquireReturns(m) PROVE Pass!Next
    <2>1. Promise!Acquire(m)
      BY <1>5, AcquireRefines DEF AcquireReturns
    <2>2. Pass!Acquire(m)
      BY <1>5, <2>1 DEF AcquireReturns, Promise!Acquire, Pass!Acquire,
         Pass!Lock!Acquire
    <2> QED
      BY <2>2 DEF Pass!Next, Pass!Work
  <1>6. ASSUME NEW m \in Monitors, ProcessRun(m) PROVE Pass!Next
    BY <1>6 DEF ProcessRun, Pass!Next, Pass!Work
  <1>7. ASSUME NEW m \in Monitors, CallRelease(m) PROVE Pass!Next
    <2>1. Promise!Release(m)
      BY <1>7, ReleaseRefines DEF CallRelease, ReleaseRead, ReleaseReadError
    <2>2. Pass!Release(m)
      BY <1>7, <2>1 DEF CallRelease, Promise!Release, Pass!Release,
         Pass!Lock!Release
    <2> QED
      BY <2>2 DEF Pass!Next, Pass!Work
  <1>8. ASSUME NEW m \in Monitors, FinishRelease(m) PROVE UNCHANGED Pass!vars
    BY <1>8, OthersAreInvisible DEF FinishRelease, Pass!vars, passVars
  <1>9. ASSUME NEW m \in Monitors, CrashBoth(m) PROVE Pass!Next
    <2>1. IF m \in Holders THEN Pass!Lock!Release(m)
                           ELSE UNCHANGED <<Holders, rash>>
      <3>1. CASE pc[m] = "held"
        BY <1>9, <3>1, ReleaseRefines
           DEF CrashBoth, Promise!Release, Pass!Lock!Release, Holders
      <3>2. CASE pc[m] # "held"
        BY <1>9, <3>2, OthersAreInvisible DEF CrashBoth, Holders
      <3> QED
        BY <3>1, <3>2
    <2>2. Pass!Crash(m)
      BY <1>9, <2>1 DEF CrashBoth, Pass!Crash
    <2> QED
      BY <2>2 DEF Pass!Next
  <1>10. ASSUME NEW m \in Monitors, RestartBoth(m) PROVE Pass!Next
    BY <1>10 DEF RestartBoth, Pass!Next
  <1>11. CASE Tick /\ UNCHANGED passVars
    BY <1>11 DEF Tick, Pass!vars, passVars, Holders
  <1>12. CASE UNCHANGED vars /\ Pass!Evolve
    BY <1>12 DEF Pass!Next
  <1>13. CASE UNCHANGED <<vars, passVars>>
    BY <1>13 DEF vars, passVars, Pass!vars, Holders
  <1> QED
    BY <1>1, <1>2, <1>3, <1>4, <1>5, <1>6, <1>7, <1>8, <1>9, <1>10, <1>11,
       <1>12, <1>13 DEF LockedNext

LEMMA LockedInvariant == LockedSpec => [](IInv /\ Coupled)
  <1>1. LockedInit => IInv /\ Coupled
    BY LockInit, CoupledInit DEF LockedInit
  <1>2. IInv /\ Coupled /\ [LockedNext]_<<vars, passVars>>
            => (IInv /\ Coupled)'
    <2>1. IInv => TypeOK
      BY DEF IInv
    <2> QED
      BY <2>1, LockSide, TypeStep, LockStep, CoupledStep
  <1> QED
    BY <1>1, <1>2, PTL DEF LockedSpec

(* The lock below the passes does nothing that RunLock does not do. *)
THEOREM LockBelow == LockedSpec => ImplementsRunLock
  <1>1. LockedInit => Init
    BY DEF LockedInit
  <1>2. [LockedNext]_<<vars, passVars>> => [Next]_vars
    BY LockSide
  <1> QED
    BY <1>1, <1>2, PTL DEF LockedSpec, ImplementsRunLock

(* The passes over the lock file are passes over a lock as AdvisoryLock    *)
(* promises it, that a rash takeover compromises.                          *)
THEOREM PassesAbove == LockedSpec => ImplementsMonitorRun
  <1>1. LockedInit => Pass!Init
    BY DEF LockedInit
  <1>2. IInv /\ Coupled /\ [LockedNext]_<<vars, passVars>>
            => [Pass!Next]_(Pass!vars)
    BY PassSide
  <1> QED
    BY <1>1, <1>2, LockedInvariant, PTL DEF LockedSpec, ImplementsMonitorRun

----------------------------------------------------------------------------
(* What MonitorRunProofs proves of the passes, carried over: Passes is     *)
(* Pass with the theorems about it.                                        *)
Passes == INSTANCE MonitorRunProofs
            WITH pc <- step, faults <- passFaults, LockMayBreak <- TRUE,
                 holders <- Holders, compromised <- rash
(* The assumptions that MonitorRun makes on its own constants. *)
PassAssumptions ==
    /\ Nothing \notin Pass!RunStates \cup Sessions \cup Details
    /\ Shown \subseteq Pass!RunStates

LEMMA SameInit == Pass!Init => Passes!Init
  BY DEF Pass!Init, Passes!Init, Pass!NoSnapshot, Passes!NoSnapshot,
         Pass!NoEvent, Passes!NoEvent, Pass!Lock!Init, Passes!Lock!Init

LEMMA SameNext == [Pass!Next]_(Pass!vars) => [Passes!Next]_(Passes!vars)
  <1> USE DEF Pass!lockVars, Passes!lockVars, Pass!passVars, Passes!passVars,
              Pass!historyVars, Passes!historyVars, Pass!EventLost,
              Passes!EventLost,
              Pass!Goto, Passes!Goto, Pass!Fault, Passes!Fault,
              Pass!Forget, Passes!Forget,
              Pass!NoSnapshot, Passes!NoSnapshot, Pass!NoEvent, Passes!NoEvent,
              Pass!OpenStates, Passes!OpenStates
  <1>1. ASSUME NEW m \in Monitors, Pass!Work(m) PROVE Passes!Work(m)
    <2>1. Pass!Observe(m) => Passes!Observe(m)
      BY DEF Pass!Observe, Passes!Observe, Pass!Observed, Passes!Observed,
             Pass!Verdicts, Passes!Verdicts
    <2>2. Pass!Skip(m) => Passes!Skip(m)
      BY DEF Pass!Skip, Passes!Skip
    <2>3. Pass!Acquire(m) => Passes!Acquire(m)
      BY DEF Pass!Acquire, Passes!Acquire, Pass!Enter, Passes!Enter,
             Pass!Lock!Acquire, Passes!Lock!Acquire
    <2>4. Pass!Load(m) => Passes!Load(m)
      BY DEF Pass!Load, Passes!Load, Pass!Decide, Passes!Decide, Pass!Merge,
             Passes!Merge, Pass!Writes, Passes!Writes, Pass!EventFor,
             Passes!EventFor
    <2>5. Pass!WriteStatus(m) => Passes!WriteStatus(m)
      BY DEF Pass!WriteStatus, Passes!WriteStatus
    <2>6. Pass!AppendEvent(m) => Passes!AppendEvent(m)
      BY DEF Pass!AppendEvent, Passes!AppendEvent
    <2>7. Pass!Release(m) => Passes!Release(m)
      BY DEF Pass!Release, Passes!Release, Pass!Leave, Passes!Leave,
             Pass!Lock!Release, Passes!Lock!Release
    <2> QED
      BY <1>1, <2>1, <2>2, <2>3, <2>4, <2>5, <2>6, <2>7
         DEF Pass!Work, Passes!Work
  <1>2. ASSUME NEW m \in Monitors
        PROVE  /\ Pass!ObserveError(m) => Passes!ObserveError(m)
               /\ Pass!LoadError(m) => Passes!LoadError(m)
               /\ Pass!WriteError(m) => Passes!WriteError(m)
               /\ Pass!AppendError(m) => Passes!AppendError(m)
    <2>1. Pass!ObserveError(m) => Passes!ObserveError(m)
      BY DEF Pass!ObserveError, Passes!ObserveError, Pass!MistakenFor,
             Passes!MistakenFor, Pass!Verdicts, Passes!Verdicts
    <2>2. Pass!LoadError(m) => Passes!LoadError(m)
      BY DEF Pass!LoadError, Passes!LoadError, Pass!Decide, Passes!Decide,
             Pass!Merge, Passes!Merge, Pass!Writes, Passes!Writes,
             Pass!EventFor, Passes!EventFor
    <2>3. Pass!WriteError(m) => Passes!WriteError(m)
      BY DEF Pass!WriteError, Passes!WriteError
    <2>4. Pass!AppendError(m) => Passes!AppendError(m)
      BY DEF Pass!AppendError, Passes!AppendError
    <2> QED
      BY <2>1, <2>2, <2>3, <2>4
  <1>3. ASSUME NEW m \in Monitors
        PROVE  /\ Pass!Crash(m) => Passes!Crash(m)
               /\ Pass!Restart(m) => Passes!Restart(m)
    BY DEF Pass!Crash, Passes!Crash, Pass!Die, Passes!Die, Pass!Restart,
           Passes!Restart, Pass!Lock!Release, Passes!Lock!Release
  <1>4. Pass!Evolve => Passes!Evolve
    BY DEF Pass!Evolve, Passes!Evolve, Pass!Becomes, Passes!Becomes,
           Pass!Successors, Passes!Successors, Pass!RunStates,
           Passes!RunStates, Pass!TerminalStates, Passes!TerminalStates,
           Pass!Verdicts, Passes!Verdicts
  <1>5. Pass!Compromise => Passes!Compromise
    BY DEF Pass!Compromise, Passes!Compromise, Pass!Lock!Compromise,
           Passes!Lock!Compromise
  <1>6. UNCHANGED Pass!vars => UNCHANGED Passes!vars
    BY DEF Pass!vars, Passes!vars
  <1> QED
    BY <1>1, <1>2, <1>3, <1>4, <1>5, <1>6 DEF Pass!Next, Passes!Next

LEMMA PassInv == PassAssumptions => (LockedSpec => []Passes!IInv)
  <1> USE BoundsAssumption
      DEF PassAssumptions, Pass!RunStates, Passes!RunStates,
          Pass!OpenStates, Passes!OpenStates, Pass!TerminalStates,
          Passes!TerminalStates
  <1> SUFFICES ASSUME PassAssumptions PROVE LockedSpec => []Passes!IInv
    OBVIOUS
  <1>1. Passes!Init => Passes!IInv
    BY Passes!InitInv
  <1>2. Passes!IInv /\ [Passes!Next]_(Passes!vars) => Passes!IInv'
    BY Passes!InvStep
  <1> QED
    BY <1>1, <1>2, SameInit, SameNext, PassesAbove, PTL
       DEF ImplementsMonitorRun

LEMMA PassVerdicts == PassAssumptions => (LockedSpec => []Passes!VerdictInv)
  <1> USE BoundsAssumption
      DEF PassAssumptions, Pass!RunStates, Passes!RunStates,
          Pass!OpenStates, Passes!OpenStates, Pass!TerminalStates,
          Passes!TerminalStates
  <1> SUFFICES ASSUME PassAssumptions PROVE LockedSpec => []Passes!VerdictInv
    OBVIOUS
  <1>1. Passes!Init => Passes!VerdictInv
    BY Passes!VerdictInit
  <1>2. Passes!TypeInv /\ Passes!VerdictInv /\ [Passes!Next]_(Passes!vars)
            => Passes!VerdictInv'
    BY Passes!VerdictStep
  <1>3. Passes!IInv => Passes!TypeInv
    BY DEF Passes!IInv
  <1> QED
    BY <1>1, <1>2, <1>3, SameInit, SameNext, PassInv, PassesAbove, PTL
       DEF ImplementsMonitorRun

(* With the lock file under them, and for any number of monitors, leases,  *)
(* crashes and errors: as long as no takeover was rash, the history and    *)
(* the status agree between passes; and no verdict is ever invented.       *)
THEOREM LockedAgreement ==
    PassAssumptions => (LockedSpec => [](/\ Pass!HistoryAgrees
                                         /\ Pass!VerdictsAreTrue))
  <1> USE BoundsAssumption
      DEF PassAssumptions, Pass!RunStates, Passes!RunStates,
          Pass!OpenStates, Passes!OpenStates, Pass!TerminalStates,
          Passes!TerminalStates
  <1> SUFFICES ASSUME PassAssumptions
               PROVE LockedSpec => [](/\ Pass!HistoryAgrees
                                      /\ Pass!VerdictsAreTrue)
    OBVIOUS
  <1>1. Passes!IInv => Passes!HistoryAgrees
    BY Passes!InvAgrees
  <1>2. Passes!HistoryAgrees => Pass!HistoryAgrees
    BY DEF Pass!HistoryAgrees, Passes!HistoryAgrees
  <1>3. Passes!VerdictInv => Pass!VerdictsAreTrue
    BY DEF Passes!VerdictInv, Pass!VerdictsAreTrue, Passes!VerdictsAreTrue,
           Pass!Verdicts, Passes!Verdicts
  <1> QED
    BY <1>1, <1>2, <1>3, PassInv, PassVerdicts, PTL

(* ... each transition in the history starts where the one before ended,   *)
(* and no attributed session is forgotten.                                 *)
THEOREM LockedHistory ==
    PassAssumptions => (LockedSpec => /\ Pass!HistoryIsAPath
                                      /\ Pass!SessionIsSticky)
  <1> USE BoundsAssumption
      DEF PassAssumptions, Pass!RunStates, Passes!RunStates,
          Pass!OpenStates, Passes!OpenStates, Pass!TerminalStates,
          Passes!TerminalStates
  <1> SUFFICES ASSUME PassAssumptions
               PROVE LockedSpec => /\ Pass!HistoryIsAPath
                                   /\ Pass!SessionIsSticky
    OBVIOUS
  <1> DEFINE
        Path == recorded' # recorded =>
            \/ rash \/ lost
            \/ \E m \in Monitors : /\ step[m] = "append"
                                   /\ event[m].to = recorded'
                                   /\ event[m].from \in {recorded, Nothing}
        Sticky == status.session # Nothing /\ status'.session = Nothing =>
            \/ rash
            \/ \E m \in Monitors : /\ step[m] = "write"
                                   /\ event[m].from = Nothing
                                   /\ event[m] # Pass!NoEvent
  <1>1. Passes!IInv /\ [Passes!Next]_(Passes!vars) => Path
    BY Passes!PathStep
  <1>2. Passes!IInv /\ [Passes!Next]_(Passes!vars) => Sticky
    BY Passes!SessionStep DEF Pass!NoEvent, Passes!NoEvent
  <1> QED
    BY <1>1, <1>2, SameNext, PassInv, PassesAbove, PTL
       DEF ImplementsMonitorRun, Pass!HistoryIsAPath, Pass!SessionIsSticky

(* The lock file included, the status and the history of a run are a       *)
(* RunRecord for their readers; only a rash takeover breaks it.            *)
THEOREM LockedRecord ==
    PassAssumptions => (LockedSpec => Pass!ImplementsRecord)
  <1> USE BoundsAssumption
      DEF PassAssumptions, Pass!RunStates, Passes!RunStates,
          Pass!OpenStates, Passes!OpenStates, Pass!TerminalStates,
          Passes!TerminalStates
  <1> SUFFICES ASSUME PassAssumptions
               PROVE LockedSpec => Pass!ImplementsRecord
    OBVIOUS
  <1>1. Passes!Init => Passes!Record!Init
    BY Passes!RecordInit
  <1>2. Passes!IInv /\ Passes!VerdictInv /\ [Passes!Next]_(Passes!vars)
            => [Passes!Record!Next]_(Passes!Record!vars)
    BY Passes!RecordStep
  <1>3. Passes!Record!Init => Pass!Record!Init
    BY DEF Passes!Record!Init, Pass!Record!Init
  <1>4. [Passes!Record!Next]_(Passes!Record!vars)
            => [Pass!Record!Next]_(Pass!Record!vars)
    BY DEF Passes!Record!Next, Pass!Record!Next, Passes!Record!vars,
           Pass!Record!vars, Passes!Record!Evolve, Pass!Record!Evolve,
           Passes!Record!Show, Pass!Record!Show, Passes!Record!Tell,
           Pass!Record!Tell, Passes!Record!Lose, Pass!Record!Lose,
           Passes!Record!Break, Pass!Record!Break, Passes!Record!Race,
           Pass!Record!Race, Passes!Record!Successors,
           Pass!Record!Successors, Passes!Record!Verdicts,
           Pass!Record!Verdicts, Passes!Record!RunStates,
           Pass!Record!RunStates, Passes!Record!OpenStates,
           Pass!Record!OpenStates, Passes!Record!TerminalStates,
           Pass!Record!TerminalStates
  <1> QED
    BY <1>1, <1>2, <1>3, <1>4, SameInit, SameNext, PassInv, PassVerdicts,
       PassesAbove, PTL
       DEF ImplementsMonitorRun, Pass!ImplementsRecord, Pass!Record!Spec

----------------------------------------------------------------------------
(* A single monitor process: the lock is the lock of its own crashes.      *)
Lone == \A m, n \in Monitors : m = n

(* Its acquire() finds the file that it left itself when it died, for what *)
(* a release() did not remove is the only file there ever is.              *)
LoneInv ==
    /\ TypeOK
    /\ ~rash
    /\ \A m \in Monitors : pc[m] = "read" => owner = m

LEMMA LoneStep == Lone /\ LoneInv /\ [Next]_vars => LoneInv'
  <1> SUFFICES ASSUME Lone, LoneInv, [Next]_vars PROVE LoneInv'
    OBVIOUS
  <1>0. TypeOK'
    BY TypeStep DEF LoneInv
  <1> USE <1>0 DEF LoneInv, TypeOK, PCs, Goto, RemoveFile, Lone
  <1>1. ASSUME NEW m \in Monitors, HolderStale(m) \/ ReadError(m)
        PROVE LoneInv'
    <2> USE <1>1 DEF HolderStale, ReadError, JudgeStale
    <2>1. owner = m /\ pc[m] = "read"
      OBVIOUS
    <2>2. Orphaned /\ ~\E n \in Monitors : pc[n] = "unlink"
      BY <2>1 DEF Orphaned, Owning
    <2>3. rash' = FALSE
      BY <2>2
    <2>4. \A n \in Monitors : pc'[n] # "read"
      BY <2>1
    <2> QED
      BY <2>3, <2>4
  <1>2. ASSUME NEW m \in Monitors, CreateExists(m) PROVE LoneInv'
    <2>1. owner = m
      BY <1>2 DEF CreateExists, PathFree
    <2> QED
      BY <1>2, <2>1 DEF CreateExists
  <1>3. ASSUME NEW m \in Monitors,
               \/ Begin(m) \/ CreateFile(m) \/ WriteInfo(m) \/ HolderLive(m)
               \/ TakeOver(m) \/ TakeOverGone(m) \/ ReleaseRead(m)
               \/ ReleaseUnlink(m) \/ ReleaseReadError(m) \/ IOError(m)
               \/ Crash(m) \/ Restart(m)
        PROVE LoneInv'
    BY <1>3 DEF Begin, CreateFile, WriteInfo, HolderLive, TakeOver,
       TakeOverGone, ReleaseRead, ReleaseUnlink, ReleaseReadError, IOError,
       Crash, Restart
  <1>4. CASE Tick \/ UNCHANGED vars
    BY <1>4 DEF Tick, vars
  <1> QED
    BY <1>1, <1>2, <1>3, <1>4 DEF Next, Step, Mishap

(* The takeovers of a single process are never rash: it takes the lease of *)
(* its own dead predecessor, and never one under which a pass is at work.  *)
(* The finding of RunLockContention takes two processes.                   *)
THEOREM LoneLock == Lone => (Spec => []~rash)
  <1> SUFFICES ASSUME Lone PROVE Spec => []~rash
    OBVIOUS
  <1>1. Init => LoneInv
    BY TypeInit DEF Init, LoneInv
  <1>2. LoneInv /\ [Next]_vars => LoneInv'
    BY LoneStep
  <1>3. LoneInv => ~rash
    BY DEF LoneInv
  <1> QED
    BY <1>1, <1>2, <1>3, PTL DEF Spec

(* A single monitor over the lock file: whatever the crashes and leases,   *)
(* the history ends in the state that status.json shows, between passes    *)
(* and unless an append was lost.  No proviso on the lock is left.         *)
THEOREM LoneAgreement ==
    PassAssumptions /\ Lone =>
        (LockedSpec => [](~lost /\ (\A m \in Monitors : step[m] # "append")
                            => recorded = status.state))
  <1> SUFFICES ASSUME PassAssumptions, Lone
               PROVE LockedSpec =>
                    [](~lost /\ (\A m \in Monitors : step[m] # "append")
                            => recorded = status.state)
    OBVIOUS
  <1>1. Init => LoneInv
    BY TypeInit DEF Init, LoneInv
  <1>2. LoneInv /\ [Next]_vars => LoneInv'
    BY LoneStep
  <1>3. Pass!HistoryAgrees /\ LoneInv =>
            (~lost /\ (\A m \in Monitors : step[m] # "append")
                => recorded = status.state)
    BY DEF LoneInv, Pass!HistoryAgrees
  <1> QED
    BY <1>1, <1>2, <1>3, LockedAgreement, LockBelow, PTL
       DEF ImplementsRunLock
============================================================================
