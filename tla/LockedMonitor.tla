--------------------------- MODULE LockedMonitor ---------------------------
(***************************************************************************)
(* The passes of MonitorRun over the lock file of RunLock: what _processRun*)
(* of src/src/application/monitor-service.mjs does when the lock is the    *)
(* file that acquire() and release() of src/src/storage/run-lock.mjs make  *)
(* of it, and not the promise of AdvisoryLock.  pc[m] is the next call of  *)
(* m in the lock, step[m] the next one of its pass.  A pass that calls the *)
(* lock waits for it to return, and a process that dies dies in both.      *)
(***************************************************************************)
EXTENDS RunLock

CONSTANTS Nothing, Sessions, Details, Shown     \* as in MonitorRun

VARIABLES
    artifact, status, recorded, torn, mode, next, event, lost, \* MonitorRun
    step,           \* its pc
    passFaults      \* its faults: RunLock counts those of the lock

passVars == <<artifact, status, recorded, torn, step, mode, next, event,
              passFaults, lost>>

(* A rash takeover is what compromises the lock. *)
Pass == INSTANCE MonitorRun
            WITH pc <- step, faults <- passFaults, LockMayBreak <- TRUE,
                 holders <- Holders, compromised <- rash

LockedInit == Init /\ Pass!Init

(* discoverRuns(), once the pass before has returned from release() *)
ObserveRun(m) ==
    /\ pc[m] = "idle"
    /\ UNCHANGED vars
    /\ Pass!Observe(m) \/ Pass!ObserveError(m)

(* the call of acquireRunLock() *)
CallAcquire(m) ==
    /\ step[m] = "observed"
    /\ Begin(m)
    /\ UNCHANGED passVars

(* ... which goes on, *)
GoOnAcquire(m) ==
    /\ \/ CreateFile(m) \/ CreateExists(m)
       \/ HolderStale(m) \/ ReadError(m) \/ TakeOver(m)
    /\ pc'[m] # "idle"
    /\ UNCHANGED passVars

(* returns null or throws, so that the pass is over for this run, *)
AcquireFails(m) ==
    /\ step[m] = "observed"
    /\ CreateExists(m) \/ HolderLive(m) \/ TakeOverGone(m) \/ IOError(m)
    /\ pc'[m] = "idle"
    /\ Pass!Skip(m)

(* or returns a handle *)
AcquireReturns(m) == WriteInfo(m) /\ Pass!Enter(m)

(* the try block *)
ProcessRun(m) ==
    /\ UNCHANGED vars
    /\ \/ Pass!Load(m) \/ Pass!LoadError(m)
       \/ Pass!WriteStatus(m) \/ Pass!WriteError(m)
       \/ Pass!AppendEvent(m) \/ Pass!AppendError(m)

(* the finally block: release() reads the file, and may remove it *)
CallRelease(m) ==
    /\ ReleaseRead(m) \/ ReleaseReadError(m)
    /\ Pass!Leave(m)

FinishRelease(m) ==
    /\ pc[m] = "remove"
    /\ ReleaseUnlink(m) \/ IOError(m)
    /\ UNCHANGED passVars

CrashBoth(m) == Crash(m) /\ Pass!Die(m)
RestartBoth(m) == Restart(m) /\ Pass!Restart(m)

LockedNext ==
    \/ \E m \in Monitors :
        \/ ObserveRun(m) \/ CallAcquire(m) \/ GoOnAcquire(m)
        \/ AcquireFails(m) \/ AcquireReturns(m) \/ ProcessRun(m)
        \/ CallRelease(m) \/ FinishRelease(m)
        \/ CrashBoth(m) \/ RestartBoth(m)
    \/ Tick /\ UNCHANGED passVars
    \/ UNCHANGED vars /\ Pass!Evolve

LockedSpec == LockedInit /\ [][LockedNext]_<<vars, passVars>>

----------------------------------------------------------------------------
(* Properties *)

(* The lock goes through its own steps, and the passes through those that  *)
(* MonitorRun takes under a lock as AdvisoryLock promises it: so what is   *)
(* proved of either holds of the two together.                             *)
ImplementsRunLock == Init /\ [][Next]_vars
ImplementsMonitorRun == Pass!Init /\ [][Pass!Next]_(Pass!vars)
=============================================================================
