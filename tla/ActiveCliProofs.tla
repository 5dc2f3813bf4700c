--------------------------- MODULE ActiveCliProofs ---------------------------
(* Proofs about ActiveCli, and about the AtomicFile below it, for any      *)
(* processes, registries, defaults, retries and faults.                    *)
EXTENDS ActiveCli, TLAPS

(* a process in a set() writes an id it has an adapter for, and the file   *)
(* holds it as long as no other process replaces it                        *)
Chosen ==
    \A p \in Processes :
        /\ pc[p] \notin {"idle", "down"} => Has(p, data[p]) /\ data[p] \in Ids
        /\ pc[p] = "written" /\ last = p => content = data[p]

IInv == TypeOK /\ LitterTakesFaults /\ Chosen /\ AnswersAreRegistered

----------------------------------------------------------------------------
(* The pure part of get() *)

LEMMA HasIds == ASSUME NEW p \in Processes, NEW id, Has(p, id) PROVE id \in Ids
  BY RegistryAssumption DEF Has

LEMMA SelectedType ==
    ASSUME NEW p \in Processes, NEW found PROVE Selected(p, found) \in Ids
  <1>1. CASE Has(p, found)
    BY <1>1, HasIds DEF Selected
  <1>2. CASE ~Has(p, found)
    <2>1. Registry[p] # <<>> => Registry[p][1] \in Ids
      BY RegistryAssumption
    <2> QED
      BY <1>2, <2>1, RegistryAssumption DEF Selected, Fallback
  <1> QED
    BY <1>1, <1>2

LEMMA SelectedHas ==
    ASSUME NEW p \in Processes, NEW found, Registry[p] # <<>>
    PROVE  Has(p, Selected(p, found))
  <1>1. 1 \in DOMAIN Registry[p]
    BY RegistryAssumption
  <1>2. Has(p, Registry[p][1])
    BY <1>1 DEF Has
  <1> QED
    BY <1>2 DEF Selected, Fallback

(* get() keeps what is known of the answers *)
LEMMA AnswersKept ==
    ASSUME IInv, NEW p \in Processes, NEW found, Answers(p, found)
    PROVE  /\ answer' \in [Processes -> Ids \cup {Nothing}]
           /\ AnswersAreRegistered'
  BY SelectedType, SelectedHas
     DEF Answers, IInv, TypeOK, AnswersAreRegistered, Has

----------------------------------------------------------------------------
(* The steps of the file *)

LEMMA AbandonFacts ==
    ASSUME TypeOK, LitterTakesFaults, NEW p \in Processes, Fault, Abandon(p)
    PROVE  /\ temp' = [temp EXCEPT ![p] = "none"]
           /\ temp' \in [Processes -> {"none", "partial", "whole"}]
           /\ litter' \in Nat /\ faults' \in Nat /\ litter' <= faults'
  BY BoundAssumption
     DEF Abandon, Left, SetTemp, Fault, TypeOK, FileTypeOK, LitterTakesFaults

(* a step of a write keeps the file's type and the account of its litter *)
LEMMA WriteKeepsFile ==
    ASSUME TypeOK, LitterTakesFaults, Chosen, NEW p \in Processes, WriteStep(p)
    PROVE  FileTypeOK' /\ LitterTakesFaults'
  <1> USE DEF TypeOK, FileTypeOK, LitterTakesFaults, Writing, Goto
  <1>1. CASE CreateTemp(p)
    BY <1>1 DEF CreateTemp, SetTemp
  <1>2. CASE FillTemp(p)
    BY <1>2 DEF FillTemp, Filled, SetTemp
  <1>3. CASE WriteError(p)
    BY <1>3, AbandonFacts DEF WriteError
  <1>4. CASE Rename(p)
    BY <1>4 DEF Rename, SetTemp, Chosen, Ids
  <1>5. CASE RenameBusy(p)
    BY <1>5, BoundAssumption DEF RenameBusy
  <1>6. CASE RenameRefused(p)
    BY <1>6 DEF RenameRefused
  <1>7. CASE RenameError(p)
    BY <1>7 DEF RenameError, Fault
  <1>8. CASE UnlinkTemp(p)
    BY <1>8 DEF UnlinkTemp, Removed, SetTemp
  <1>9. CASE UnlinkError(p)
    BY <1>9, AbandonFacts DEF UnlinkError
  <1> QED
    BY <1>1, <1>2, <1>3, <1>4, <1>5, <1>6, <1>7, <1>8, <1>9 DEF WriteStep

(* a step of a write touches its own process only, and goes on with it *)
LEMMA WriteGoesOn ==
    ASSUME TypeOK, NEW p \in Processes, WriteStep(p)
    PROVE  /\ data' = data /\ pc[p] \notin {"idle", "down", "written"}
           /\ pc'[p] \notin {"idle", "down"}
           /\ \A q \in Processes \ {p} : pc'[q] = pc[q]
           /\ pc'[p] = "written" => content' = data[p]
           /\ pc'[p] # "written" => content' = content
  BY DEF WriteStep, CreateTemp, FillTemp, Filled, WriteError, Rename,
     RenameBusy, RenameRefused, RenameError, UnlinkTemp, UnlinkError, Goto,
     TypeOK, FileTypeOK

----------------------------------------------------------------------------
(* The inductive invariant *)

LEMMA InitInv == Init => IInv
  BY BoundAssumption
     DEF Init, FileInit, IInv, TypeOK, FileTypeOK, LitterTakesFaults, Writing,
         Chosen, AnswersAreRegistered

LEMMA Step == IInv /\ [Next]_vars => IInv'
  <1> SUFFICES ASSUME IInv, [Next]_vars PROVE IInv'
    OBVIOUS
  <1>1. ASSUME NEW p \in Processes, Get(p) PROVE IInv'
    BY <1>1, AnswersKept DEF Get, fileVars, IInv, TypeOK, FileTypeOK,
       LitterTakesFaults, Writing, Chosen, Has
  <1>2. ASSUME NEW p \in Processes, GetError(p) PROVE IInv'
    BY <1>2, AnswersKept DEF GetError, Fault, IInv, TypeOK, FileTypeOK,
       LitterTakesFaults, Writing, Chosen, Has
  <1>3. ASSUME NEW p \in Processes, Set(p) PROVE IInv'
    <2> PICK id \in Ids : Has(p, id) /\ BeginWrite(p, id)
      BY <1>3 DEF Set
    <2>1. TypeOK' /\ LitterTakesFaults'
      BY <1>3, BoundAssumption DEF Set, BeginWrite, Goto, IInv, TypeOK,
         FileTypeOK, LitterTakesFaults, Writing, Ids
    <2>2. Chosen' /\ AnswersAreRegistered'
      BY <1>3 DEF Set, BeginWrite, Goto, IInv, TypeOK, FileTypeOK, Chosen, Has,
         AnswersAreRegistered
    <2> QED
      BY <2>1, <2>2 DEF IInv
  <1>4. ASSUME NEW p \in Processes, Write(p) PROVE IInv'
    <2>1. FileTypeOK' /\ LitterTakesFaults'
      BY <1>4, WriteKeepsFile DEF Write, IInv
    <2>2. TypeOK' /\ AnswersAreRegistered'
      BY <1>4, <2>1 DEF Write, IInv, TypeOK, AnswersAreRegistered, Has
    <2>3. Chosen'
      BY <1>4, WriteGoesOn DEF Write, IInv, Chosen, Has
    <2> QED
      BY <2>1, <2>2, <2>3 DEF IInv
  <1>5. ASSUME NEW p \in Processes, Return(p) \/ ReturnError(p) PROVE IInv'
    BY <1>5, AnswersKept DEF Return, ReturnError, Fault, Goto, IInv, TypeOK,
       FileTypeOK, LitterTakesFaults, Writing, Chosen, Has
  <1>6. ASSUME NEW p \in Processes, Throw(p) PROVE IInv'
    BY <1>6 DEF Throw, Goto, IInv, TypeOK, FileTypeOK, LitterTakesFaults,
       Writing, Chosen, Has, AnswersAreRegistered
  <1>7. ASSUME NEW p \in Processes, StartOrDie(p) PROVE IInv'
    <2>1. /\ answer' \in [Processes -> Ids \cup {Nothing}]
          /\ AnswersAreRegistered'
      BY <1>7 DEF StartOrDie, IInv, TypeOK, AnswersAreRegistered, Has
    <2>2. CASE Crash(p)
      BY <1>7, <2>1, <2>2, AbandonFacts DEF StartOrDie, Crash, Goto, IInv,
         TypeOK, FileTypeOK, LitterTakesFaults, Writing, Chosen, Has
    <2>3. CASE Restart(p)
      BY <1>7, <2>1, <2>3 DEF StartOrDie, Restart, Goto, IInv, TypeOK,
         FileTypeOK, LitterTakesFaults, Writing, Chosen, Has
    <2> QED
      BY <1>7, <2>2, <2>3 DEF StartOrDie
  <1>8. CASE UNCHANGED vars
    BY <1>8 DEF vars, fileVars, IInv, TypeOK, FileTypeOK, LitterTakesFaults,
       Writing, Chosen, AnswersAreRegistered, Has
  <1> QED
    BY <1>1, <1>2, <1>3, <1>4, <1>5, <1>6, <1>7, <1>8 DEF Next

LEMMA Invariant == Spec => []IInv
  BY InitInv, Step, PTL DEF Spec

(* Every variable of ActiveCli and of its file has its type. *)
THEOREM TypeCorrect == Spec => []TypeOK
  BY Invariant, PTL DEF IInv

(* A temporary file is left behind by a crash or an I/O error only. *)
THEOREM LitterBounded == Spec => []LitterTakesFaults
  BY Invariant, PTL DEF IInv

(* Every answer is a CLI the process has an adapter for. *)
THEOREM RegisteredAnswers == Spec => []AnswersAreRegistered
  BY Invariant, PTL DEF IInv

(* set() returns what it selected, unless it was overtaken or read nothing *)
THEOREM SetAnswers == Spec => SetReturnsItsOwn
  <1> DEFINE A == \A p \in Processes :
        pc[p] = "written" /\ pc'[p] = "idle" /\ last = p /\ faults' = faults
            => answer'[p] = data[p]
  <1>1. IInv /\ [Next]_vars => A
    <2> SUFFICES ASSUME IInv, [Next]_vars, NEW p \in Processes,
                        pc[p] = "written", pc'[p] = "idle", last = p,
                        faults' = faults
                 PROVE answer'[p] = data[p]
      OBVIOUS
    <2>1. content = data[p] /\ Has(p, data[p])
      BY DEF IInv, Chosen
    <2>2. ASSUME NEW q \in Processes, Return(q) PROVE answer'[p] = data[p]
      <3>1. q = p
        BY <2>2 DEF Return, Goto, IInv, TypeOK, FileTypeOK
      <3> QED
        BY <2>1, <2>2, <3>1 DEF Return, Answers, Selected, IInv, TypeOK
    <2>3. ASSUME NEW q \in Processes, ReturnError(q) \/ GetError(q) PROVE FALSE
      BY <2>3 DEF ReturnError, GetError, Fault, IInv, TypeOK, FileTypeOK
    <2>4. ASSUME NEW q \in Processes, Write(q) PROVE FALSE
      BY <2>4, WriteGoesOn DEF Write, IInv
    <2>5. ASSUME NEW q \in Processes,
                 Get(q) \/ Set(q) \/ Throw(q) \/ StartOrDie(q)
          PROVE FALSE
      BY <2>5 DEF Get, Set, BeginWrite, Throw, StartOrDie, Crash, Restart,
         Goto, fileVars, IInv, TypeOK, FileTypeOK
    <2>6. CASE UNCHANGED vars
      BY <2>6 DEF vars, fileVars
    <2> QED
      BY <2>2, <2>3, <2>4, <2>5, <2>6 DEF Next
  <1>2. IInv /\ [Next]_vars => [A]_vars
    BY <1>1
  <1> QED
    BY <1>2, Invariant, PTL DEF Spec, SetReturnsItsOwn

(* How many steps the set() that p is in may still take. *)
StepsLeft(p) ==
    CASE pc[p] = "create"               -> Retries - attempt[p] + 5
      [] pc[p] = "fill"                 -> Retries - attempt[p] + 4
      [] pc[p] = "rename"               -> Retries - attempt[p] + 3
      [] pc[p] = "unlink"               -> 2
      [] pc[p] \in {"written", "failed"} -> 1
      [] OTHER                          -> 0

(* Every step of a set() brings it nearer to its end, however often its    *)
(* rename is refused ("a small bounded retry loop", atomic-write.mjs:6-7), *)
(* and no other process takes it back.                                     *)
SetEnds ==
    [][\A p \in Processes : pc[p] \notin {"idle", "down"} =>
         \/ StepsLeft(p)' < StepsLeft(p)
         \/ pc'[p] = pc[p] /\ StepsLeft(p)' = StepsLeft(p)]_vars

(* a step of one process leaves the others where they were *)
LEMMA OthersWait ==
    ASSUME TypeOK, NEW q \in Processes, NEW p \in Processes, p # q,
           \/ Get(q) \/ GetError(q) \/ Set(q) \/ Write(q)
           \/ Return(q) \/ ReturnError(q) \/ Throw(q) \/ StartOrDie(q)
    PROVE  pc'[p] = pc[p] /\ attempt'[p] = attempt[p]
  <1> USE DEF TypeOK, FileTypeOK, Goto
  <1>1. CASE Write(q)
    BY <1>1 DEF Write, WriteStep, CreateTemp, FillTemp, WriteError, Rename,
       RenameBusy, RenameRefused, RenameError, UnlinkTemp, UnlinkError
  <1> QED
    BY <1>1 DEF Get, GetError, Set, BeginWrite, Return, ReturnError, Throw,
       StartOrDie, Crash, Restart, fileVars

(* set() takes at most Retries + 5 steps, whatever the others do. *)
THEOREM SetIsWaitFree == Spec => SetEnds
  <1> DEFINE A == \A p \in Processes : pc[p] \notin {"idle", "down"} =>
                     \/ StepsLeft(p)' < StepsLeft(p)
                     \/ pc'[p] = pc[p] /\ StepsLeft(p)' = StepsLeft(p)
  <1>1. TypeOK /\ [Next]_vars => A
    <2> SUFFICES ASSUME TypeOK, [Next]_vars, NEW p \in Processes,
                        pc[p] \notin {"idle", "down"}
                 PROVE  \/ StepsLeft(p)' < StepsLeft(p)
                        \/ pc'[p] = pc[p] /\ StepsLeft(p)' = StepsLeft(p)
      OBVIOUS
    <2> USE BoundAssumption DEF TypeOK, FileTypeOK, Goto, StepsLeft
    <2>1. CASE pc'[p] = pc[p] /\ attempt'[p] = attempt[p]
      BY <2>1
    <2>2. CASE CreateTemp(p) \/ FillTemp(p)
      BY <2>2 DEF CreateTemp, FillTemp
    <2>3. CASE WriteError(p) \/ Rename(p) \/ RenameRefused(p) \/ RenameError(p)
      BY <2>3 DEF WriteError, Rename, RenameRefused, RenameError
    <2>4. CASE RenameBusy(p)
      BY <2>4 DEF RenameBusy
    <2>5. CASE UnlinkTemp(p) \/ UnlinkError(p)
      BY <2>5 DEF UnlinkTemp, UnlinkError
    <2>6. CASE Return(p) \/ ReturnError(p) \/ Throw(p) \/ StartOrDie(p)
      BY <2>6 DEF Return, ReturnError, Throw, StartOrDie, Crash, Restart
    <2>7. CASE Get(p) \/ GetError(p) \/ Set(p)
      BY <2>7 DEF Get, GetError, Set, BeginWrite
    <2>8. CASE UNCHANGED vars
      BY <2>1, <2>8 DEF vars, fileVars
    <2>9. ASSUME NEW q \in Processes, q # p,
                 \/ Get(q) \/ GetError(q) \/ Set(q) \/ Write(q)
                 \/ Return(q) \/ ReturnError(q) \/ Throw(q) \/ StartOrDie(q)
          PROVE  pc'[p] = pc[p] /\ attempt'[p] = attempt[p]
      BY <2>9, OthersWait
    <2> QED
      BY <2>1, <2>2, <2>3, <2>4, <2>5, <2>6, <2>7, <2>8, <2>9
         DEF Next, Write, WriteStep
  <1>2. TypeOK /\ [Next]_vars => [A]_vars
    BY <1>1
  <1> QED
    BY <1>2, TypeCorrect, PTL DEF Spec, SetEnds

----------------------------------------------------------------------------
(* The file implements AtomicRegister *)

(* how the pending write and the outcome of p follow from p's next call *)
LEMMA MappingFacts ==
    ASSUME NEW p \in Processes,
           \A q \in Processes \ {p} : pc'[q] = pc[q] /\ data'[q] = data[q]
    PROVE  /\ Pending' = [Pending EXCEPT ![p] =
                            IF Writing(p)' THEN data'[p] ELSE Nothing]
           /\ Outcome' = [Outcome EXCEPT ![p] =
                            IF pc'[p] = "written" THEN "ok"
                            ELSE IF pc'[p] \in {"unlink", "failed"}
                            THEN "failed" ELSE "none"]
  BY DEF Pending, Outcome, Writing

LEMMA InitRefines == Init => Register!Init
  BY DEF Init, FileInit, Register!Init, Pending, Outcome, Writing

LEMMA StepRefines == IInv /\ [Next]_vars => [Register!Next]_(Register!vars)
  <1> SUFFICES ASSUME IInv, [Next]_vars
               PROVE  Register!Next \/ UNCHANGED Register!vars
    OBVIOUS
  (* a step that changes none of what the mapping reads is a stutter *)
  <1>1. ASSUME UNCHANGED <<content, pc, data>> PROVE UNCHANGED Register!vars
    BY <1>1 DEF Register!vars, Pending, Outcome, Writing
  <1>2. ASSUME NEW p \in Processes, Get(p) \/ GetError(p)
        PROVE  UNCHANGED Register!vars
    BY <1>1, <1>2 DEF Get, GetError, fileVars
  <1>3. ASSUME NEW p \in Processes, Set(p) PROVE Register!Begin(p)
    <2>1. PICK id \in Ids : BeginWrite(p, id)
      BY <1>3 DEF Set
    <2>2. /\ pc[p] = "idle" /\ pc'[p] = "create" /\ data'[p] = id
          /\ \A q \in Processes \ {p} : pc'[q] = pc[q] /\ data'[q] = data[q]
          /\ content' = content
      BY <2>1 DEF BeginWrite, Goto, IInv, TypeOK, FileTypeOK
    <2> QED
      BY <2>2, MappingFacts DEF Register!Begin, Pending, Writing, Ids
  (* the steps of a write, one process at a time *)
  <1>4. ASSUME NEW p \in Processes, WriteStep(p)
        PROVE  \/ Register!Commit(p) \/ Register!Abort(p)
               \/ UNCHANGED Register!vars
    <2> DEFINE Others == \A q \in Processes \ {p} :
                            pc'[q] = pc[q] /\ data'[q] = data[q]
    <2>1. Others
      BY <1>4, WriteGoesOn DEF IInv
    <2>2. Writing(p) => Pending[p] = data[p] /\ data[p] # Nothing
      BY NothingAssumption DEF Pending, IInv, Chosen, Writing, Ids
    <2>3. CASE CreateTemp(p) \/ FillTemp(p)
      <3>1. /\ Writing(p) /\ Writing(p)' /\ pc'[p] \notin {"written", "unlink", "failed"}
            /\ pc[p] \notin {"written", "unlink", "failed"}
            /\ data' = data /\ content' = content
        BY <2>3 DEF CreateTemp, FillTemp, Filled, Goto, Writing, IInv, TypeOK,
           FileTypeOK
      <3> QED
        BY <2>1, <3>1, MappingFacts DEF Register!vars, Pending, Outcome
    <2>4. CASE Rename(p)
      <3>1. /\ Writing(p) /\ pc'[p] = "written" /\ ~Writing(p)'
            /\ content' = data[p]
        BY <2>4 DEF Rename, Goto, Writing, IInv, TypeOK, FileTypeOK
      <3> QED
        BY <2>1, <2>2, <3>1, MappingFacts DEF Register!Commit
    <2>5. CASE WriteError(p) \/ RenameRefused(p) \/ RenameError(p)
      <3>1. /\ Writing(p) /\ pc'[p] \in {"unlink", "failed"} /\ ~Writing(p)'
            /\ content' = content
        BY <2>5 DEF WriteError, RenameRefused, RenameError, Goto, Writing,
           IInv, TypeOK, FileTypeOK
      <3> QED
        BY <2>1, <2>2, <3>1, MappingFacts DEF Register!Abort
    <2>6. CASE RenameBusy(p)
      BY <1>1, <2>6 DEF RenameBusy
    <2>7. CASE UnlinkTemp(p) \/ UnlinkError(p)
      <3>1. /\ pc[p] = "unlink" /\ pc'[p] = "failed"
            /\ data' = data /\ content' = content
        BY <2>7 DEF UnlinkTemp, UnlinkError, Goto, IInv, TypeOK, FileTypeOK
      <3> QED
        BY <2>1, <3>1, MappingFacts DEF Register!vars, Pending, Outcome, Writing
    <2> QED
      BY <1>4, <2>3, <2>4, <2>5, <2>6, <2>7 DEF WriteStep
  (* the caller goes on, or the process dies or starts *)
  <1>5. ASSUME NEW p \in Processes,
               \/ Return(p) \/ ReturnError(p) \/ Throw(p) \/ StartOrDie(p)
        PROVE  \/ Register!GoOn(p) \/ Register!Abort(p)
    <2>1. /\ pc'[p] \in {"idle", "down"} /\ content' = content /\ data' = data
          /\ \A q \in Processes \ {p} : pc'[q] = pc[q] /\ data'[q] = data[q]
      BY <1>5 DEF Return, ReturnError, Throw, StartOrDie, Crash, Restart, Goto,
         IInv, TypeOK, FileTypeOK
    <2>2. CASE Writing(p)
      <3>1. Pending[p] = data[p] /\ data[p] # Nothing
        BY <2>2, NothingAssumption DEF Pending, IInv, Chosen, Writing, Ids
      <3> QED
        BY <2>1, <3>1, MappingFacts DEF Register!Abort, Writing
    <2>3. CASE ~Writing(p)
      <3>1. Pending' = Pending
        BY <2>1, <2>3 DEF Pending, Writing
      <3> QED
        BY <2>1, <3>1, MappingFacts DEF Register!GoOn, Writing
    <2> QED
      BY <2>2, <2>3
  <1>6. CASE UNCHANGED vars
    BY <1>1, <1>6 DEF vars, fileVars
  <1> QED
    BY <1>2, <1>3, <1>4, <1>5, <1>6 DEF Next, Write, Register!Next

(* The replaced file is an atomic register: each write is its rename or    *)
(* nothing, whatever fails or crashes, and a write that throws is nothing. *)
THEOREM Refinement == Spec => ImplementsRegister
  BY InitRefines, StepRefines, Invariant, PTL
     DEF Spec, ImplementsRegister, Register!Spec
=============================================================================
