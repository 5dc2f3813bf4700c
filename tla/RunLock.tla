------------------------------ MODULE RunLock ------------------------------
(***************************************************************************)
(* The per-run lock file of src/src/storage/run-lock.mjs, one action per   *)
(* system call, so that every interleaving of the monitor processes        *)
(* between two calls is a behaviour.                                       *)
(*                                                                         *)
(* The file at the lock's path is the pair (owner, expiresAt).  A monitor  *)
(* draws a new token for every acquire (line 27), and the path holds a     *)
(* file of monitor m only if it is the last one m created: creating        *)
(* another needs the path to be free (O_EXCL), and nothing puts a removed  *)
(* file back.  So the name of the creator identifies the file, and         *)
(* "current.token === token" is owner = m for a monitor that has created   *)
(* its file in this acquire.                                               *)
(***************************************************************************)
EXTENDS Naturals

CONSTANTS
    Monitors,       \* the monitor processes: host plugin, CLI watch, ...
    NoOne,          \* owner of the path when there is no lock file
    StaleMs,        \* staleMs: how long a lock is valid
    MaxTime,        \* bound: the clock stops here
    MaxFaults       \* bound: crashes and unexpected I/O errors in all

ASSUME MonitorsAssumption == NoOne \notin Monitors
ASSUME StaleMsAssumption == StaleMs \in Nat \ {0}
ASSUME BoundsAssumption == MaxTime \in Nat /\ MaxFaults \in Nat

VARIABLES
    owner,          \* who created the file at the path, or NoOne
    expiresAt,      \* the expiry written in it, or Unwritten
    now,            \* clock.now(), one clock for all the processes
    pc,             \* pc[m]: the next call of m
    sampled,        \* sampled[m]: `now` as m read it when acquire() began
    stolen,         \* stolen[m]: m is past its own unlink, in the retry
    faults,         \* crashes and I/O errors so far
    rash            \* history: a takeover has been decided that was not
                    \* the only one of the lock of a dead monitor

vars == <<owner, expiresAt, now, pc, sampled, stolen, faults, rash>>

(* A lock file that was created and not written yet is empty: it does not  *)
(* parse, _read() returns null, and it counts as stale.  So does a path    *)
(* with no file at all.  No clock value is below 0, so an expiry of 0 is   *)
(* one that no comparison finds alive.                                     *)
Unwritten == 0

PCs == {"idle", "create", "write", "read", "unlink", "held", "remove", "down"}

(* The monitors that have created their file and not removed it yet. *)
Owning == {m \in Monitors : pc[m] \in {"write", "held", "remove"}}

(* The monitors that hold a handle: those at work on the run. *)
Holders == {m \in Monitors : pc[m] = "held"}

(* The lock file of a monitor that will never release it. *)
Orphaned == owner \in Monitors \ Owning

TypeOK ==
    /\ owner \in Monitors \cup {NoOne}
    /\ expiresAt \in Nat
    /\ now \in Nat
    /\ pc \in [Monitors -> PCs]
    /\ sampled \in [Monitors -> Nat]
    /\ stolen \in [Monitors -> BOOLEAN]
    /\ faults \in Nat
    /\ rash \in BOOLEAN

Init ==
    /\ owner = NoOne
    /\ expiresAt = Unwritten
    /\ now = 0
    /\ pc = [m \in Monitors |-> "idle"]
    /\ sampled = [m \in Monitors |-> 0]
    /\ stolen = [m \in Monitors |-> FALSE]
    /\ faults = 0
    /\ rash = FALSE

Goto(m, label) == pc' = [pc EXCEPT ![m] = label]
RemoveFile == owner' = NoOne /\ expiresAt' = Unwritten

----------------------------------------------------------------------------
(* The decisions of acquire().  The definitions whose names begin with Mut *)
(* are bugs these could have: each breaks a property below.                *)

(* O_EXCL: openSync(path, 'wx') succeeds only if there is no file *)
MutPathFree == TRUE
PathFree == owner = NoOne

(* EEXIST on the first attempt leads to a look at the holder, and on the   *)
(* retry after an unlink to giving up                                      *)
MutAfterExists(m) == IF stolen[m] THEN "held" ELSE "read"
AfterExists(m) == IF stolen[m] THEN "idle" ELSE "read"

(* the expiry a monitor writes counts from when its acquire() began *)
MutExpiry(m) == NoOne
Expiry(m) == sampled[m] + StaleMs

(* anything but a parsable holder that is not expired counts as stale:     *)
(* expired, empty, or gone since the EEXIST                                *)
MutLooksStale(m) == expiresAt # Unwritten /\ ~(expiresAt > sampled[m])
LooksStale(m) == ~(expiresAt > sampled[m])

----------------------------------------------------------------------------
(* acquire() *)

(* acquire() samples the clock once, for every use below *)
Begin(m) ==
    /\ pc[m] = "idle"
    /\ sampled' = [sampled EXCEPT ![m] = now]
    /\ stolen' = [stolen EXCEPT ![m] = FALSE]
    /\ Goto(m, "create")
    /\ UNCHANGED <<owner, expiresAt, now, faults, rash>>

(* openSync(path, 'wx') makes an empty file *)
CreateFile(m) ==
    /\ pc[m] = "create"
    /\ PathFree
    /\ owner' = m
    /\ expiresAt' = Unwritten
    /\ Goto(m, "write")
    /\ UNCHANGED <<now, sampled, stolen, faults, rash>>

(* EEXIST *)
CreateExists(m) ==
    /\ pc[m] = "create"
    /\ ~PathFree
    /\ Goto(m, AfterExists(m))
    /\ UNCHANGED <<owner, expiresAt, now, sampled, stolen, faults, rash>>

(* writeSync on the open descriptor: it reaches the path only if the path  *)
(* still is the file this monitor created                                  *)
WriteInfo(m) ==
    /\ pc[m] = "write"
    /\ expiresAt' = IF owner = m THEN Expiry(m) ELSE expiresAt
    /\ Goto(m, "held")
    /\ UNCHANGED <<owner, now, sampled, stolen, faults, rash>>

(* _read() finds a parsable holder that is not expired: acquire() is null *)
HolderLive(m) ==
    /\ pc[m] = "read"
    /\ ~LooksStale(m)
    /\ Goto(m, "idle")
    /\ UNCHANGED <<owner, expiresAt, now, sampled, stolen, faults, rash>>

(* The decision to take over is sound only for the lock of a dead monitor  *)
(* that no other monitor has decided to take over too.                     *)
JudgeStale(m) ==
    /\ pc[m] = "read"
    /\ Goto(m, "unlink")
    /\ rash' = (rash \/ ~Orphaned \/ \E n \in Monitors : pc[n] = "unlink")
    /\ UNCHANGED <<owner, expiresAt, now, sampled, stolen>>

HolderStale(m) ==
    /\ LooksStale(m)
    /\ JudgeStale(m)
    /\ UNCHANGED faults

(* unlinkSync(path) removes whatever file is there now; ENOENT: give up *)
TakeOver(m) ==
    /\ pc[m] = "unlink"
    /\ owner # NoOne
    /\ RemoveFile
    /\ stolen' = [stolen EXCEPT ![m] = TRUE]
    /\ Goto(m, "create")
    /\ UNCHANGED <<now, sampled, faults, rash>>

TakeOverGone(m) ==
    /\ pc[m] = "unlink"
    /\ owner = NoOne
    /\ Goto(m, "idle")
    /\ UNCHANGED <<owner, expiresAt, now, sampled, stolen, faults, rash>>

----------------------------------------------------------------------------
(* release() *)

(* release() reads the file and goes on only if the token is its own *)
ReleaseRead(m) ==
    /\ pc[m] = "held"
    /\ Goto(m, IF owner = m THEN "remove" ELSE "idle")
    /\ UNCHANGED <<owner, expiresAt, now, sampled, stolen, faults, rash>>

(* the unlink of release() also removes whatever file is there now *)
ReleaseUnlink(m) ==
    /\ pc[m] = "remove"
    /\ RemoveFile
    /\ Goto(m, "idle")
    /\ UNCHANGED <<now, sampled, stolen, faults, rash>>

----------------------------------------------------------------------------
(* The environment *)

Fault ==
    /\ faults < MaxFaults
    /\ faults' = faults + 1

(* _read() answers null to any error, not only to a missing file: the      *)
(* lock of a live monitor then looks as stale as an empty one, ...         *)
ReadError(m) == Fault /\ JudgeStale(m)

(* ... and release() takes its own lock for another's and leaves it        *)
ReleaseReadError(m) ==
    /\ pc[m] = "held"
    /\ Fault
    /\ Goto(m, "idle")
    /\ UNCHANGED <<owner, expiresAt, now, sampled, stolen, rash>>

(* openSync fails with anything but EEXIST, or unlinkSync fails (null);    *)
(* writeSync throws out of acquire() and leaves the empty file behind; or  *)
(* the unlink of release() fails and leaves the lock behind                *)
IOError(m) ==
    /\ pc[m] \in {"create", "write", "unlink", "remove"}
    /\ Fault
    /\ Goto(m, "idle")
    /\ UNCHANGED <<owner, expiresAt, now, sampled, stolen, rash>>

(* the process dies between two calls; its lock file stays *)
Crash(m) ==
    /\ pc[m] # "down"
    /\ Fault
    /\ Goto(m, "down")
    /\ UNCHANGED <<owner, expiresAt, now, sampled, stolen, rash>>

Restart(m) ==
    /\ pc[m] = "down"
    /\ Goto(m, "idle")
    /\ UNCHANGED <<owner, expiresAt, now, sampled, stolen, faults, rash>>

Tick ==
    /\ now < MaxTime
    /\ now' = now + 1
    /\ UNCHANGED <<owner, expiresAt, pc, sampled, stolen, faults, rash>>

(* One call of a monitor that is up. *)
Step(m) ==
    \/ Begin(m) \/ CreateFile(m) \/ CreateExists(m) \/ WriteInfo(m)
    \/ HolderLive(m) \/ HolderStale(m) \/ TakeOver(m) \/ TakeOverGone(m)
    \/ ReleaseRead(m) \/ ReleaseUnlink(m)

(* What happens to a monitor from outside. *)
Mishap(m) ==
    \/ ReadError(m) \/ ReleaseReadError(m) \/ IOError(m)
    \/ Crash(m) \/ Restart(m)

Next ==
    \/ \E m \in Monitors : Step(m) \/ Mishap(m)
    \/ Tick

(* acquire() and release() are synchronous calls that a running process    *)
(* finishes, and the cadences (or the user of the CLI) start them again.   *)
(* Nothing obliges a dead process to come back, or the clock to move.      *)
Fairness == \A m \in Monitors : WF_vars(Step(m))

Spec == Init /\ [][Next]_vars /\ Fairness

----------------------------------------------------------------------------
(* Properties *)

(* Unless somebody took over a lock rashly, a monitor that created its     *)
(* lock file still owns the path until it removes the file itself: no      *)
(* interleaving of create, write, read, unlink and release of the others,  *)
(* and no lone takeover from a dead monitor, can evict it.                 *)
OwnersKeepTheFile == ~rash => \A m \in Owning : owner = m

(* "two monitor processes ... never duplicate work or interleave           *)
(* status.json writes for the same run" (run-lock.mjs:4-6).                *)
MutualExclusion == \A m, n \in Holders : m = n

(* The same, for the behaviours in which it is true. *)
ExclusiveUnlessRash == ~rash => MutualExclusion

(* The lock keeps the promise AdvisoryLock makes to its clients. *)
Promise == INSTANCE AdvisoryLock
               WITH holders <- Holders, compromised <- rash
ImplementsAdvisoryLock == Promise!Spec

(* "a crashed monitor's stale lock is taken over instead of blocking       *)
(* forever" (run-lock.mjs:7-8): an expired or empty lock of a dead monitor *)
(* leaves the path if some other monitor stays up to find it.              *)
ExpiredOrphan(m) == owner = m /\ Orphaned /\ expiresAt <= now

OrphanLockTakenOver ==
    \A m, n \in Monitors :
        m # n => ((ExpiredOrphan(m) /\ [](pc[n] # "down"))
                      ~> ~ExpiredOrphan(m))
============================================================================
