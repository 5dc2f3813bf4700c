------------------------------ MODULE EventLog ------------------------------
(***************************************************************************)
(* events.jsonl and events.1.jsonl of one run: appendEvents, _rotate and   *)
(* readEvents of src/src/storage/file-run-store.mjs.  The monitors append  *)
(* one event at a time, under the run's lock; readers take no lock.        *)
(*                                                                         *)
(* The n-th append of the run is called n.  A file is the set of the       *)
(* appends that a reader can parse in it: lines are only added at its end, *)
(* so the set in increasing order is the file.  The size cap is a number   *)
(* of lines.                                                               *)
(***************************************************************************)
EXTENDS Naturals, FiniteSets

CONSTANTS
    Writers,        \* the monitor processes that append
    Cap,            \* eventFileMaxBytes, in lines
    MaxAppends,     \* bound: appends in all
    MaxFaults       \* bound: crashes and failed calls in all

ASSUME CapAssumption == Cap \in Nat \ {0}
ASSUME BoundsAssumption == MaxAppends \in Nat /\ MaxFaults \in Nat

VARIABLES
    live,           \* the readable appends of events.jsonl
    prev,           \* the readable appends of events.1.jsonl
    lines,          \* the complete lines of events.jsonl, readable or not
    torn,           \* events.jsonl ends in the middle of a line
    last,           \* the number of appends that began to write
    intact,         \* history: the appends that made a readable line
    pc,             \* pc[w]: the next call of w
    overlap,        \* history: two writers were at work at once
    reader,         \* a reader is between its two reads
    older,          \* what it found in events.1.jsonl
    moved,          \* history: a rotation came between the two reads
    answer,         \* what the last reader returned
    faults          \* crashes and failed calls so far

fileVars == <<live, prev, lines, torn, last, intact>>
readVars == <<reader, older, moved, answer>>
vars == <<live, prev, lines, torn, last, intact, pc, overlap, reader, older,
          moved, answer, faults>>

TypeOK ==
    /\ live \in SUBSET Nat
    /\ prev \in SUBSET Nat
    /\ lines \in Nat
    /\ torn \in BOOLEAN
    /\ last \in Nat
    /\ intact \in SUBSET Nat
    /\ pc \in [Writers -> {"idle", "unlink", "rename", "append"}]
    /\ overlap \in BOOLEAN
    /\ reader \in BOOLEAN
    /\ older \in SUBSET Nat
    /\ moved \in BOOLEAN
    /\ answer \in [older : SUBSET Nat, newer : SUBSET Nat, split : BOOLEAN]
    /\ faults \in Nat

Init ==
    /\ live = {} /\ prev = {} /\ lines = 0 /\ torn = FALSE
    /\ last = 0 /\ intact = {}
    /\ pc = [w \in Writers |-> "idle"] /\ overlap = FALSE
    /\ reader = FALSE /\ older = {} /\ moved = FALSE
    /\ answer = [older |-> {}, newer |-> {}, split |-> FALSE]
    /\ faults = 0

Goto(w, label) == pc' = [pc EXCEPT ![w] = label]

Fault ==
    /\ faults < MaxFaults
    /\ faults' = faults + 1

----------------------------------------------------------------------------
(* appendEvents().  The definitions whose names begin with Mut are bugs    *)
(* the next one could have: each breaks a property below.                  *)

(* statSync(live).size >= eventFileMaxBytes *)
MutFull == lines > Cap
Full == lines >= Cap

(* the lock is held and the size was read *)
Begin(w) ==
    /\ last < MaxAppends
    /\ pc[w] = "idle"
    /\ Goto(w, IF Full THEN "unlink" ELSE "append")
    /\ overlap' = (overlap \/ \E v \in Writers : pc[v] # "idle")
    /\ UNCHANGED <<fileVars, readVars, faults>>

(* _rotate(): drop the previous generation, if there is one, ... *)
Unlink(w) ==
    /\ pc[w] = "unlink"
    /\ prev' = {}
    /\ Goto(w, "rename")
    /\ UNCHANGED <<live, lines, torn, last, intact, overlap, readVars, faults>>

(* ... and rename the live file; without one the rename throws, and the    *)
(* error is caught                                                         *)
MutRotated == /\ prev' = {}
              /\ live' = {}
Rotated == /\ prev' = live
           /\ live' = {}
(* ... after which the live file starts again from nothing *)
MutLinesLeft == lines - Cap
LinesLeft == 0

Rename(w) ==
    /\ pc[w] = "rename"
    /\ IF lines > 0 \/ torn
       THEN /\ Rotated
            /\ lines' = LinesLeft
            /\ torn' = FALSE
            /\ moved' = reader
       ELSE UNCHANGED <<prev, live, lines, torn, moved>>
    /\ Goto(w, "append")
    /\ UNCHANGED <<last, intact, overlap, reader, older, answer, faults>>

(* unlinkSync or renameSync fails: the append still proceeds *)
RotateError(w) ==
    /\ pc[w] \in {"unlink", "rename"}
    /\ Fault
    /\ Goto(w, "append")
    /\ UNCHANGED <<fileVars, overlap, readVars>>

(* the line that appendFileSync writes ends in a newline *)
MutEndsTorn == TRUE
EndsTorn == FALSE

(* appendFileSync of one line; after a torn tail the new line is glued to  *)
(* it, and no reader can parse the two                                     *)
AppendLine(w) ==
    /\ pc[w] = "append"
    /\ last' = last + 1
    /\ lines' = lines + 1
    /\ torn' = EndsTorn
    /\ live' = IF torn THEN live ELSE live \cup {last + 1}
    /\ intact' = IF torn THEN intact ELSE intact \cup {last + 1}
    /\ Goto(w, "idle")
    /\ UNCHANGED <<prev, overlap, readVars, faults>>

(* the write stops before its end, perhaps before its beginning: the disk  *)
(* is full, or the process dies                                            *)
AppendTorn(w) ==
    /\ pc[w] = "append"
    /\ Fault
    /\ last' = last + 1
    /\ torn' \in {TRUE, torn}
    /\ Goto(w, "idle")
    /\ UNCHANGED <<live, prev, lines, intact, overlap, readVars>>

(* the process dies between two calls *)
Crash(w) ==
    /\ pc[w] # "idle"
    /\ Fault
    /\ Goto(w, "idle")
    /\ UNCHANGED <<fileVars, overlap, readVars>>

----------------------------------------------------------------------------
(* readEvents(): events.1.jsonl first, then events.jsonl, without the      *)
(* lines that do not parse                                                 *)

ReadFirst ==
    /\ ~reader
    /\ reader' = TRUE
    /\ older' = prev
    /\ moved' = FALSE
    /\ UNCHANGED <<fileVars, pc, overlap, answer, faults>>

MutAnswerLast == [older |-> older, newer |-> live \cap {last}, split |-> moved]
MutAnswerSwapped == [older |-> live, newer |-> older, split |-> moved]
Answer == [older |-> older, newer |-> live, split |-> moved]
ReadSecond ==
    /\ reader
    /\ reader' = FALSE
    /\ answer' = Answer
    /\ UNCHANGED <<fileVars, pc, overlap, older, moved, faults>>

Next ==
    \/ \E w \in Writers : \/ Begin(w) \/ Unlink(w) \/ Rename(w)
                          \/ RotateError(w) \/ AppendLine(w) \/ AppendTorn(w)
                          \/ Crash(w)
    \/ ReadFirst \/ ReadSecond

Spec == Init /\ [][Next]_vars

----------------------------------------------------------------------------
(* Properties *)

(* As long as the lock kept the writers apart, rotation only discards old  *)
(* events: whatever crashes or fails on the way, the last Cap appends that *)
(* made a readable line are on disk.                                       *)
RecentEventsKept ==
    ~overlap => \A n \in intact : n + Cap > last => n \in prev \cup live

(* A reader never sees an event twice or out of order, although it holds   *)
(* no lock and the files rotate between its two reads.                     *)
ReadsAreOrdered ==
    \A a \in answer.older, b \in answer.newer : a < b

(* ... and unless they did, it misses no readable event between two that   *)
(* it returns.                                                             *)
ReadsHaveNoGap ==
    ~answer.split =>
        \A a \in answer.older, b \in answer.newer, n \in intact :
            a < n /\ n < b => n \in answer.older \cup answer.newer

(* "Implementations bound file growth" (ports.mjs:53): without overlapping *)
(* writers the live file exceeds the cap by one line per failed rotation.  *)
GrowthIsBounded == ~overlap => lines <= Cap + faults

(* A torn tail costs its own event and at most the one after it. *)
TornTailCostsTwo == Cardinality((1 .. last) \ intact) <= 2 * faults
=============================================================================
