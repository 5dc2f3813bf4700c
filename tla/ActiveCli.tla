------------------------------ MODULE ActiveCli ------------------------------
(***************************************************************************)
(* The selection of the CLI that is observed: ActiveCliService of          *)
(* src/src/application/active-cli.mjs, in several processes over one       *)
(* active-cli.json, which each replaces as AtomicFile does.  A content is  *)
(* the id the file names, or Unreadable: no file, no JSON, no id.  The     *)
(* processes may have different adapters and defaults, as versions and     *)
(* configurations differ.                                                  *)
(***************************************************************************)
EXTENDS AtomicFile, Sequences

CONSTANTS
    Unreadable,     \* a content that names no CLI
    Registry,       \* Registry[p]: the ids p has adapters for, in order
    DefaultCli      \* DefaultCli[p]: this.defaultCli

Ids == Contents \ {Unreadable}

ASSUME RegistryAssumption ==
    Registry \in [Processes -> Seq(Ids)] /\ DefaultCli \in [Processes -> Ids]

VARIABLES
    answer,         \* answer[p]: what get() returned last, or set()
    last            \* history: the process that replaced the file last

vars == <<fileVars, answer, last>>

TypeOK ==
    /\ FileTypeOK
    /\ answer \in [Processes -> Ids \cup {Nothing}]
    /\ last \in Processes \cup {Nothing}

Init ==
    /\ FileInit
    /\ answer = [p \in Processes |-> Nothing]
    /\ last = Nothing

(* registry.has() and registry.ids()[0] *)
Has(p, id) == \E i \in DOMAIN Registry[p] : Registry[p][i] = id
Fallback(p) ==
    IF Has(p, DefaultCli[p]) \/ Registry[p] = <<>>
    THEN DefaultCli[p] ELSE Registry[p][1]

(* get() once it has read the file *)
MutSelectedRaw(p, found) == found
MutSelectedId(p, found) == IF found # Unreadable THEN found ELSE Fallback(p)
MutSelectedDefault(p, found) == Fallback(p)
Selected(p, found) == IF Has(p, found) THEN found ELSE Fallback(p)

Answers(p, found) == answer' = [answer EXCEPT ![p] = Selected(p, found)]

(* get(), at the beginning of each pass of a monitor *)
Get(p) ==
    /\ pc[p] = "idle"
    /\ Answers(p, content)
    /\ UNCHANGED <<fileVars, last>>

(* ... when the file cannot be read just now: the catch finds no id *)
GetError(p) ==
    /\ pc[p] = "idle"
    /\ Fault
    /\ Answers(p, Unreadable)
    /\ UNCHANGED <<content, pc, data, attempt, temp, litter, last>>

(* set(id): an unknown id throws before anything is done *)
Set(p) ==
    /\ \E id \in Ids : Has(p, id) /\ BeginWrite(p, id)
    /\ UNCHANGED <<answer, last>>

Write(p) ==
    /\ WriteStep(p)
    /\ last' = IF pc'[p] = "written" THEN p ELSE last
    /\ UNCHANGED answer

(* what the get() at the end of set() reads *)
Return(p) ==
    /\ pc[p] = "written"
    /\ Answers(p, content)
    /\ Goto(p, "idle")
    /\ UNCHANGED <<content, data, attempt, temp, litter, faults, last>>

ReturnError(p) ==
    /\ pc[p] = "written"
    /\ Fault
    /\ Answers(p, Unreadable)
    /\ Goto(p, "idle")
    /\ UNCHANGED <<content, data, attempt, temp, litter, last>>

(* the write threw, and set() throws *)
Throw(p) ==
    /\ pc[p] = "failed"
    /\ Goto(p, "idle")
    /\ UNCHANGED <<content, data, attempt, temp, litter, faults, answer, last>>

(* a process that starts knows nothing *)
StartOrDie(p) ==
    /\ Crash(p) \/ Restart(p)
    /\ answer' = [answer EXCEPT ![p] = Nothing]
    /\ UNCHANGED last

Next ==
    \E p \in Processes :
        \/ Get(p) \/ GetError(p) \/ Set(p) \/ Write(p)
        \/ Return(p) \/ ReturnError(p) \/ Throw(p)
        \/ StartOrDie(p)

(* set() is synchronous, so a process that has begun a write goes on with  *)
(* it; the cadences call get() again and again, between the calls of set() *)
Fairness ==
    \A p \in Processes :
        /\ WF_vars(Write(p) \/ Return(p) \/ Throw(p))
        /\ SF_vars(Get(p))

Spec == Init /\ [][Next]_vars /\ Fairness

----------------------------------------------------------------------------
(* Properties *)

(* Whatever another process, version or accident left in the file, get()   *)
(* and set() return a CLI that the process has an adapter for, if it has   *)
(* one at all ("fail-safe, never throws", lines 33-34).                    *)
AnswersAreRegistered ==
    \A p \in Processes :
        Registry[p] # <<>> /\ answer[p] # Nothing => Has(p, answer[p])

(* What set() returns is what it was asked to select, unless the file      *)
(* could not be read or another process replaced it in between; in that    *)
(* case the return value is not the selection of the caller.               *)
SetReturnsItsOwn ==
    [][\A p \in Processes :
         pc[p] = "written" /\ pc'[p] = "idle" /\ last = p /\ faults' = faults
            => answer'[p] = data[p]]_vars

(* "one small durable document at the state root so the host plugin and    *)
(* the standalone CLI agree" (lines 5-7): once the selection changes no    *)
(* more, every process that stays up and has the adapter observes it,      *)
(* though renames of its own writes may be refused again and again ("a     *)
(* small bounded retry loop", atomic-write.mjs:6-7).                       *)
SelectionTakesEffect ==
    \A p \in Processes :
        (<>[](pc[p] # "down") /\ <>[][FALSE]_content)
            => <>[](Has(p, content) => answer[p] = content)
=============================================================================
