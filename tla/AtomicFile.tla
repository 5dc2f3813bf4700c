----------------------------- MODULE AtomicFile -----------------------------
(***************************************************************************)
(* atomicWriteFileSync of src/src/storage/atomic-write.mjs: one file that  *)
(* several processes replace, each through a temporary file of its own,    *)
(* call by call.  A write begins in pc "create", and its caller goes on    *)
(* from "written" or "failed": ActiveCli is such a caller.  The directory  *)
(* is not modelled: mkdirSync is idempotent, and when it fails so does the *)
(* creation of the temporary file.  The definitions whose names begin with *)
(* Mut are bugs the next one could have.                                   *)
(***************************************************************************)
EXTENDS Naturals

CONSTANTS
    Processes,
    Contents,       \* what the file may hold
    Nothing,        \* no write is under way
    Retries,        \* opts.retries
    MaxFaults       \* bound: crashes and I/O errors in all

ASSUME NothingAssumption == Nothing \notin Contents
ASSUME BoundAssumption == Retries \in Nat /\ MaxFaults \in Nat

VARIABLES
    content,        \* what the file holds
    pc,             \* pc[p]: the next call of p
    data,           \* data[p]: what p writes, once it has begun to
    attempt,        \* attempt[p]: renames that were refused
    temp,           \* temp[p]: p's temporary file
    litter,         \* temporary files that nobody will remove
    faults          \* crashes and I/O errors so far

fileVars == <<content, pc, data, attempt, temp, litter, faults>>

FileTypeOK ==
    /\ content \in Contents
    /\ pc \in [Processes -> {"idle", "create", "fill", "rename", "unlink",
                             "written", "failed", "down"}]
    /\ data \in [Processes -> Contents \cup {Nothing}]
    /\ attempt \in [Processes -> 0 .. Retries]
    /\ temp \in [Processes -> {"none", "partial", "whole"}]
    /\ litter \in Nat
    /\ faults \in Nat

(* whatever was left in the state root: nothing, a selection, or garbage *)
FileInit ==
    /\ content \in Contents
    /\ pc = [p \in Processes |-> "idle"]
    /\ data = [p \in Processes |-> Nothing]
    /\ attempt = [p \in Processes |-> 0]
    /\ temp = [p \in Processes |-> "none"]
    /\ litter = 0
    /\ faults = 0

Goto(p, label) == pc' = [pc EXCEPT ![p] = label]
SetTemp(p, state) == temp' = [temp EXCEPT ![p] = state]

Fault ==
    /\ faults < MaxFaults
    /\ faults' = faults + 1

(* the file that p leaves behind if it does no more about it *)
Left(p) == IF temp[p] = "none" THEN 0 ELSE 1
Abandon(p) == SetTemp(p, "none") /\ litter' = litter + Left(p)

----------------------------------------------------------------------------
(* writeFileSync(tmp, data): open, then write *)

BeginWrite(p, v) ==
    /\ pc[p] = "idle"
    /\ data' = [data EXCEPT ![p] = v]
    /\ attempt' = [attempt EXCEPT ![p] = 0]
    /\ Goto(p, "create")
    /\ UNCHANGED <<content, temp, litter, faults>>

CreateTemp(p) ==
    /\ pc[p] = "create"
    /\ SetTemp(p, "partial")
    /\ Goto(p, "fill")
    /\ UNCHANGED <<content, data, attempt, litter, faults>>

(* does the write go to the temporary file only? *)
MutFilled(p) == data[p]
Filled(p) == content

FillTemp(p) ==
    /\ pc[p] = "fill"
    /\ SetTemp(p, "whole")
    /\ content' = Filled(p)
    /\ Goto(p, "rename")
    /\ UNCHANGED <<data, attempt, litter, faults>>

(* it throws, and nobody removes what there is of the temporary file *)
WriteError(p) ==
    /\ pc[p] \in {"create", "fill"}
    /\ Fault
    /\ Abandon(p)
    /\ Goto(p, "failed")
    /\ UNCHANGED <<content, data, attempt>>

----------------------------------------------------------------------------
(* the loop around renameSync(tmp, filePath) *)

Rename(p) ==
    /\ pc[p] = "rename"
    /\ content' = data[p]
    /\ SetTemp(p, "none")
    /\ Goto(p, "written")
    /\ UNCHANGED <<data, attempt, litter, faults>>

(* EPERM or EACCES: wait a little and try again *)
RenameBusy(p) ==
    /\ pc[p] = "rename"
    /\ attempt[p] < Retries
    /\ attempt' = [attempt EXCEPT ![p] = @ + 1]
    /\ UNCHANGED <<content, pc, data, temp, litter, faults>>

(* one refusal too many: the loop gives up *)
MutRenameRefused(p) ==
    /\ pc[p] = "rename"
    /\ attempt[p] = Retries
    /\ attempt' = [attempt EXCEPT ![p] = 0]
    /\ UNCHANGED <<content, pc, data, temp, litter, faults>>
RenameRefused(p) ==
    /\ pc[p] = "rename"
    /\ attempt[p] = Retries
    /\ Goto(p, "unlink")
    /\ UNCHANGED <<content, data, attempt, temp, litter, faults>>

(* any other error is not retried *)
RenameError(p) ==
    /\ pc[p] = "rename"
    /\ Fault
    /\ Goto(p, "unlink")
    /\ UNCHANGED <<content, data, attempt, temp, litter>>

(* the temporary file is removed, and the error thrown *)
MutRemoved(p) == temp[p]
Removed(p) == "none"

UnlinkTemp(p) ==
    /\ pc[p] = "unlink"
    /\ SetTemp(p, Removed(p))
    /\ Goto(p, "failed")
    /\ UNCHANGED <<content, data, attempt, litter, faults>>

(* best effort *)
UnlinkError(p) ==
    /\ pc[p] = "unlink"
    /\ Fault
    /\ Abandon(p)
    /\ Goto(p, "failed")
    /\ UNCHANGED <<content, data, attempt>>

----------------------------------------------------------------------------
(* the process dies, in a write or not, and starts again *)
Crash(p) ==
    /\ pc[p] # "down"
    /\ Fault
    /\ Abandon(p)
    /\ Goto(p, "down")
    /\ UNCHANGED <<content, data, attempt>>

Restart(p) ==
    /\ pc[p] = "down"
    /\ Goto(p, "idle")
    /\ UNCHANGED <<content, data, attempt, temp, litter, faults>>

(* a call of the write returns, well or not *)
WriteStep(p) ==
    \/ CreateTemp(p) \/ FillTemp(p) \/ WriteError(p)
    \/ Rename(p) \/ RenameBusy(p) \/ RenameRefused(p) \/ RenameError(p)
    \/ UnlinkTemp(p) \/ UnlinkError(p)

----------------------------------------------------------------------------
(* Properties *)

(* The file is an AtomicRegister: however the calls of several writers     *)
(* interleave, fail or end in a crash, a reader finds a whole value, each  *)
(* write is the rename or nothing, and a write that throws wrote nothing.  *)
Writing(p) == pc[p] \in {"create", "fill", "rename"}
Pending == [p \in Processes |-> IF Writing(p) THEN data[p] ELSE Nothing]
Outcome == [p \in Processes |-> IF pc[p] = "written" THEN "ok"
                                ELSE IF pc[p] \in {"unlink", "failed"}
                                THEN "failed" ELSE "none"]
Register == INSTANCE AtomicRegister
                WITH value <- content, pending <- Pending, outcome <- Outcome
ImplementsRegister == Register!Spec

(* Temporary files do not pile up: each one that is left behind took a     *)
(* crash or an I/O error of its own, however often a rename was refused,   *)
(* and a process that is not in a write has none.                          *)
LitterTakesFaults ==
    /\ litter <= faults
    /\ \A p \in Processes : ~Writing(p) /\ pc[p] # "unlink" => temp[p] = "none"
=============================================================================
