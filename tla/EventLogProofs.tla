---------------------------- MODULE EventLogProofs ----------------------------
(* Proofs about EventLog, for any set of writers, any cap, and any number  *)
(* of appends and faults.                                                  *)
EXTENDS EventLog, FiniteSetTheorems, TLAPS

(* Both files hold appends in the order of writing, and what is on disk is *)
(* a suffix of what was readable when it was written.                      *)
Files ==
    /\ prev \cup live \cup intact \subseteq 1 .. last
    /\ \A a \in prev, b \in live : a < b
    /\ \A b \in live, n \in intact : b < n => n \in live
    /\ \A a \in prev, n \in intact : a < n => n \in prev \cup live

(* The live file started at least as many appends ago as it has lines. *)
Lines ==
    /\ lines <= last
    /\ \A n \in intact : n + lines > last => n \in live

(* A writer that the lock keeps alone rotates a full file only, and        *)
(* appends to one that has room, or that a fault kept from rotating.       *)
Alone ==
    ~overlap =>
        /\ \A v, w \in Writers : pc[v] # "idle" /\ pc[w] # "idle" => v = w
        /\ \A w \in Writers :
            /\ pc[w] \in {"unlink", "rename"} => lines >= Cap
            /\ pc[w] = "append" => lines < Cap + faults

(* What a reader holds between its two reads, and what one returned. *)
Reading ==
    /\ older \subseteq 1 .. last
    /\ answer.newer \subseteq 1 .. last
    /\ reader => \A a \in older, b \in live : a < b
    /\ reader /\ ~moved =>
        \A a \in older, n \in intact : a < n => n \in older \cup live

IInv ==
    /\ TypeOK /\ Files /\ Lines /\ Alone /\ Reading
    /\ RecentEventsKept
    /\ ReadsAreOrdered /\ ReadsHaveNoGap
    /\ GrowthIsBounded

LEMMA InitInv == Init => IInv
  <1> SUFFICES ASSUME Init PROVE IInv
    OBVIOUS
  <1>1. TypeOK
    BY DEF Init, TypeOK
  <1>2. Files /\ Lines /\ Reading
    BY DEF Init, Files, Lines, Reading
  <1>3. Alone /\ GrowthIsBounded
    BY CapAssumption DEF Init, Alone, GrowthIsBounded
  <1>4. RecentEventsKept /\ ReadsAreOrdered /\ ReadsHaveNoGap
    BY DEF Init, RecentEventsKept, ReadsAreOrdered, ReadsHaveNoGap
  <1> QED
    BY <1>1, <1>2, <1>3, <1>4 DEF IInv

(* The flags apart, for they ask for another prover than the rest. *)
Flags ==
    torn \in BOOLEAN /\ overlap \in BOOLEAN /\ reader \in BOOLEAN
    /\ moved \in BOOLEAN

LEMMA FlagStep == Flags /\ [Next]_vars => Flags'
  <1> SUFFICES ASSUME Flags, [Next]_vars PROVE Flags'
    OBVIOUS
  <1> USE DEF Flags, fileVars, readVars
  <1>1. ASSUME NEW w \in Writers, Begin(w) PROVE Flags'
    BY <1>1, Zenon DEF Begin
  <1>2. ASSUME NEW w \in Writers, Unlink(w) PROVE Flags'
    BY <1>2, Zenon DEF Unlink
  <1>3. ASSUME NEW w \in Writers, Rename(w) PROVE Flags'
    BY <1>3, Zenon DEF Rename
  <1>4. ASSUME NEW w \in Writers, RotateError(w) PROVE Flags'
    BY <1>4, Zenon DEF RotateError
  <1>5. ASSUME NEW w \in Writers, AppendLine(w) PROVE Flags'
    BY <1>5, Zenon DEF AppendLine, EndsTorn
  <1>6. ASSUME NEW w \in Writers, AppendTorn(w) PROVE Flags'
    BY <1>6, Zenon DEF AppendTorn
  <1>7. ASSUME NEW w \in Writers, Crash(w) PROVE Flags'
    BY <1>7, Zenon DEF Crash
  <1>8. CASE ReadFirst
    BY <1>8, Zenon DEF ReadFirst
  <1>9. CASE ReadSecond
    BY <1>9, Zenon DEF ReadSecond
  <1>10. CASE UNCHANGED vars
    BY <1>10, Zenon DEF vars
  <1> QED
    BY <1>1, <1>2, <1>3, <1>4, <1>5, <1>6, <1>7, <1>8, <1>9, <1>10 DEF Next

LEMMA TypeStep == TypeOK /\ [Next]_vars => TypeOK'
  <1> SUFFICES ASSUME TypeOK, [Next]_vars PROVE TypeOK'
    OBVIOUS
  <1> DEFINE Data ==
        /\ live \in SUBSET Nat /\ prev \in SUBSET Nat
        /\ lines \in Nat /\ last \in Nat /\ intact \in SUBSET Nat
        /\ pc \in [Writers -> {"idle", "unlink", "rename", "append"}]
        /\ older \in SUBSET Nat
        /\ answer \in [older : SUBSET Nat, newer : SUBSET Nat,
                       split : BOOLEAN]
        /\ faults \in Nat
  <1>0. Data /\ Flags /\ Flags'
    BY FlagStep DEF TypeOK, Flags
  <1> SUFFICES Data'
    BY <1>0 DEF TypeOK, Flags
  <1>1. Data
    BY <1>0
  <1>2. moved \in BOOLEAN
    BY <1>0 DEF Flags
  <1> USE <1>1 DEF fileVars, readVars, Goto, Fault
  <1>3. ASSUME NEW w \in Writers, Begin(w) PROVE Data'
    BY <1>3 DEF Begin
  <1>4. ASSUME NEW w \in Writers, Unlink(w) PROVE Data'
    BY <1>4 DEF Unlink
  <1>5. ASSUME NEW w \in Writers, Rename(w) PROVE Data'
    <2>1. /\ prev' \in {prev, live} /\ live' \in {live, {}}
          /\ lines' \in {lines, 0}
          /\ UNCHANGED <<last, intact, older, answer, faults>>
          /\ Goto(w, "append")
      BY <1>5, Zenon DEF Rename, Rotated, LinesLeft
    <2> QED
      BY <2>1
  <1>6. ASSUME NEW w \in Writers, RotateError(w) PROVE Data'
    BY <1>6 DEF RotateError
  <1>7. ASSUME NEW w \in Writers, AppendLine(w) PROVE Data'
    BY <1>7 DEF AppendLine
  <1>8. ASSUME NEW w \in Writers, AppendTorn(w) PROVE Data'
    BY <1>8 DEF AppendTorn
  <1>9. ASSUME NEW w \in Writers, Crash(w) PROVE Data'
    BY <1>9 DEF Crash
  <1>10. CASE ReadFirst
    BY <1>10 DEF ReadFirst
  <1>11. CASE ReadSecond
    BY <1>11, <1>2 DEF ReadSecond, Answer
  <1>12. CASE UNCHANGED vars
    BY <1>12 DEF vars
  <1> QED
    BY <1>3, <1>4, <1>5, <1>6, <1>7, <1>8, <1>9, <1>10, <1>11, <1>12
       DEF Next

LEMMA Step == IInv /\ [Next]_vars => IInv'
  <1> SUFFICES ASSUME IInv, [Next]_vars PROVE IInv'
    OBVIOUS
  <1> USE CapAssumption
  <1>0. TypeOK /\ TypeOK'
    BY TypeStep DEF IInv
  <1> DEFINE Logs == Files /\ Lines /\ RecentEventsKept
             Reads == Reading /\ ReadsAreOrdered /\ ReadsHaveNoGap
             Writing == Alone /\ GrowthIsBounded
  <1> SUFFICES Logs' /\ Reads' /\ Writing'
    BY <1>0 DEF IInv
  <1> USE DEF IInv, TypeOK, fileVars, readVars, Goto, Fault
  <1>1. ASSUME NEW w \in Writers, Begin(w) PROVE Logs' /\ Reads' /\ Writing'
    <2>1. Logs' /\ Reads'
      BY <1>1 DEF Begin, Files, Lines, RecentEventsKept, Reading,
         ReadsAreOrdered, ReadsHaveNoGap
    <2>2. ~overlap' => ~overlap /\ \A v \in Writers : pc[v] = "idle"
      BY <1>1, Zenon DEF Begin
    <2>3. /\ pc' = [pc EXCEPT ![w] = IF Full THEN "unlink" ELSE "append"]
          /\ lines' = lines /\ faults' = faults
      BY <1>1 DEF Begin
    <2>4. GrowthIsBounded'
      BY <2>2, <2>3 DEF GrowthIsBounded
    <2>5. ASSUME ~overlap' PROVE \A v \in Writers : pc'[v] # "idle" => v = w
      BY <2>2, <2>3, <2>5
    <2>6. /\ pc'[w] \in {"unlink", "append"}
          /\ pc'[w] = "unlink" => lines >= Cap
          /\ pc'[w] = "append" => lines < Cap
      BY <2>3 DEF Full
    <2>7. Alone'
      BY <2>3, <2>5, <2>6 DEF Alone
    <2> QED
      BY <2>1, <2>4, <2>7
  <1>2. ASSUME NEW w \in Writers, Unlink(w) PROVE Logs' /\ Reads' /\ Writing'
    <2>1. ~overlap => lines >= Cap
      BY <1>2 DEF Unlink, Alone
    <2>2. Files' /\ Lines' /\ RecentEventsKept'
      (* the live file alone holds the last Cap readable appends *)
      BY <1>2, <2>1 DEF Unlink, Files, Lines, RecentEventsKept
    <2>3. Reads'
      BY <1>2 DEF Unlink, Reading, ReadsAreOrdered, ReadsHaveNoGap
    <2>4. Writing'
      BY <1>2 DEF Unlink, Alone, GrowthIsBounded
    <2> QED
      BY <2>2, <2>3, <2>4
  <1>3. ASSUME NEW w \in Writers, Rename(w) PROVE Logs' /\ Reads' /\ Writing'
    <2>1. ~overlap => lines >= Cap
      BY <1>3 DEF Rename, Alone
    <2>2. CASE lines > 0 \/ torn
      <3>0. /\ prev' = live /\ live' = {} /\ lines' = 0
            /\ UNCHANGED <<last, intact, faults>> /\ (~overlap' => ~overlap)
        BY <1>3, <2>2, Zenon DEF Rename, Rotated, LinesLeft
      <3>1. Files' /\ Lines' /\ RecentEventsKept'
        BY <2>1, <3>0 DEF Files, Lines, RecentEventsKept
      <3>2. Reads'
        <4>1. /\ moved' = reader
              /\ UNCHANGED <<older, answer, reader>>
          BY <1>3, <2>2, Zenon DEF Rename
        <4> QED
          BY <3>0, <4>1 DEF Reading, ReadsAreOrdered, ReadsHaveNoGap
      <3>3. pc[w] = "rename" /\ pc' = [pc EXCEPT ![w] = "append"]
        BY <1>3 DEF Rename
      <3>4. Writing'
        BY <3>0, <3>3 DEF Alone, GrowthIsBounded
      <3> QED
        BY <3>1, <3>2, <3>4
    <2>3. CASE ~(lines > 0 \/ torn)
      (* the file has no line: the writer cannot be alone *)
      <3>1. overlap
        BY <2>1, <2>3
      <3>2. Logs' /\ Reads'
        <4>1. /\ UNCHANGED <<prev, live, lines, last, intact, faults>>
              /\ UNCHANGED <<moved, older, answer, reader, overlap>>
          BY <1>3, <2>3, Zenon DEF Rename
        <4> QED
          BY <4>1 DEF Files, Lines, RecentEventsKept, Reading,
             ReadsAreOrdered, ReadsHaveNoGap
      <3>3. Writing'
        BY <1>3, <3>1 DEF Rename, Alone, GrowthIsBounded
      <3> QED
        BY <3>2, <3>3
    <2> QED
      BY <2>2, <2>3
  <1>4. ASSUME NEW w \in Writers, RotateError(w)
        PROVE Logs' /\ Reads' /\ Writing'
    <2>1. Logs' /\ Reads'
      BY <1>4 DEF RotateError, Files, Lines, RecentEventsKept, Reading,
         ReadsAreOrdered, ReadsHaveNoGap
    <2>2. Writing'
      BY <1>4 DEF RotateError, Alone, GrowthIsBounded
    <2> QED
      BY <2>1, <2>2
  <1>5. ASSUME NEW w \in Writers, AppendLine(w)
        PROVE Logs' /\ Reads' /\ Writing'
    <2>1. Files' /\ Lines' /\ RecentEventsKept'
      BY <1>5 DEF AppendLine, Files, Lines, RecentEventsKept
    <2>2. Reading'
      BY <1>5 DEF AppendLine, Files, Reading
    <2>3. ReadsAreOrdered' /\ ReadsHaveNoGap'
      BY <1>5 DEF AppendLine, Files, Reading, ReadsAreOrdered,
         ReadsHaveNoGap
    <2>4. Writing'
      BY <1>5 DEF AppendLine, Alone, GrowthIsBounded
    <2> QED
      BY <2>1, <2>2, <2>3, <2>4
  <1>6. ASSUME NEW w \in Writers, AppendTorn(w)
        PROVE Logs' /\ Reads' /\ Writing'
    <2>1. Files' /\ Lines' /\ RecentEventsKept'
      BY <1>6 DEF AppendTorn, Files, Lines, RecentEventsKept
    <2>2. Reads'
      BY <1>6 DEF AppendTorn, Reading, ReadsAreOrdered, ReadsHaveNoGap
    <2>3. Writing'
      BY <1>6 DEF AppendTorn, Alone, GrowthIsBounded
    <2> QED
      BY <2>1, <2>2, <2>3
  <1>7. ASSUME NEW w \in Writers, Crash(w) PROVE Logs' /\ Reads' /\ Writing'
    <2>1. Logs' /\ Reads'
      BY <1>7 DEF Crash, Files, Lines, RecentEventsKept, Reading,
         ReadsAreOrdered, ReadsHaveNoGap
    <2>2. Writing'
      BY <1>7 DEF Crash, Alone, GrowthIsBounded
    <2> QED
      BY <2>1, <2>2
  <1>8. CASE ReadFirst
    <2>1. Logs' /\ Writing'
      BY <1>8 DEF ReadFirst, Files, Lines, RecentEventsKept, Alone,
         GrowthIsBounded
    <2>2. Reads'
      BY <1>8 DEF ReadFirst, Files, Reading, ReadsAreOrdered, ReadsHaveNoGap
    <2> QED
      BY <2>1, <2>2
  <1>9. CASE ReadSecond
    <2>1. Logs' /\ Writing'
      BY <1>9 DEF ReadSecond, Files, Lines, RecentEventsKept, Alone,
         GrowthIsBounded
    <2>2. answer' = [older |-> older, newer |-> live, split |-> moved]
      BY <1>9 DEF ReadSecond, Answer
    <2>3. Reads'
      BY <1>9, <2>2 DEF ReadSecond, Files, Reading, ReadsAreOrdered,
         ReadsHaveNoGap
    <2> QED
      BY <2>1, <2>3
  <1>10. CASE UNCHANGED vars
    BY <1>10 DEF vars, Files, Lines, RecentEventsKept, Alone,
       GrowthIsBounded, Reading, ReadsAreOrdered, ReadsHaveNoGap
  <1> QED
    BY <1>1, <1>2, <1>3, <1>4, <1>5, <1>6, <1>7, <1>8, <1>9, <1>10 DEF Next

LEMMA Invariant == Spec => []IInv
  BY InitInv, Step, PTL DEF Spec

(* Every variable of EventLog has its type. *)
THEOREM TypeCorrect == Spec => []TypeOK
  BY Invariant, PTL DEF IInv

(* Under the lock, _rotate never discards one of the last Cap readable     *)
(* events, whatever crashes, fails or is torn on the way.                  *)
THEOREM RecentKept == Spec => []RecentEventsKept
  BY Invariant, PTL DEF IInv

(* readEvents returns the events in order, and each of them once. *)
THEOREM OrderedReads == Spec => []ReadsAreOrdered
  BY Invariant, PTL DEF IInv

(* readEvents skips no readable event, unless a rotation came in between. *)
THEOREM CompleteReads == Spec => []ReadsHaveNoGap
  BY Invariant, PTL DEF IInv

(* The live file outgrows eventFileMaxBytes only by failed rotations. *)
THEOREM BoundedGrowth == Spec => []GrowthIsBounded
  BY Invariant, PTL DEF IInv

----------------------------------------------------------------------------
(* The cost of a torn tail *)

Lost == (1 .. last) \ intact

(* A tail that is still torn has not cost its second event yet. *)
Debt == IF torn THEN 1 ELSE 0

Cost ==
    /\ IsFiniteSet(Lost)
    /\ Cardinality(Lost) + Debt <= 2 * faults

LEMMA CostStep == IInv /\ IInv' /\ Cost /\ [Next]_vars => Cost'
  <1> SUFFICES ASSUME IInv, IInv', Cost, [Next]_vars PROVE Cost'
    OBVIOUS
  <1>0. /\ last \in Nat /\ faults \in Nat
        /\ Debt \in {0, 1} /\ Debt' \in {0, 1}
        /\ intact \subseteq 1 .. last
        /\ IsFiniteSet(Lost) /\ Cardinality(Lost) \in Nat
        /\ Cardinality(Lost) + Debt <= 2 * faults
    BY FS_CardinalityType DEF IInv, TypeOK, Files, Cost, Debt
  <1>1. ASSUME Lost' = Lost, faults' \in {faults, faults + 1}, Debt' <= Debt
        PROVE  Cost'
    <2>1. /\ IsFiniteSet(Lost')
          /\ Cardinality(Lost') + Debt' <= 2 * faults'
      BY <1>0, <1>1
    <2> QED
      BY <2>1 DEF Cost
  <1>2. ASSUME last' = last + 1, intact' = intact,
               \/ faults' = faults /\ Debt = 1 /\ Debt' = 0
               \/ faults' = faults + 1
        PROVE  Cost'
    <2>1. Lost' = Lost \cup {last + 1} /\ last + 1 \notin Lost
      BY <1>0, <1>2 DEF Lost
    <2>2. /\ IsFiniteSet(Lost')
          /\ Cardinality(Lost') = Cardinality(Lost) + 1
      BY <1>0, <2>1, FS_AddElement
    <2>3. Cardinality(Lost') + Debt' <= 2 * faults'
      BY <1>0, <1>2, <2>2
    <2> QED
      BY <2>2, <2>3 DEF Cost
  <1>3. ASSUME NEW w \in Writers, AppendLine(w) PROVE Cost'
    <2>1. last' = last + 1 /\ faults' = faults
      BY <1>3 DEF AppendLine
    <2>2. Debt' = 0
      BY <1>3, Zenon DEF AppendLine, EndsTorn, Debt
    <2>3. CASE torn
      BY <1>2, <1>3, <2>1, <2>2, <2>3 DEF AppendLine, Debt
    <2>4. CASE ~torn
      <3>1. Lost' = Lost
        BY <1>0, <1>3, <2>4 DEF AppendLine, Lost
      <3> QED
        BY <1>0, <1>1, <2>1, <2>2, <3>1
    <2> QED
      BY <2>3, <2>4
  <1>4. ASSUME NEW w \in Writers, AppendTorn(w) PROVE Cost'
    BY <1>2, <1>4 DEF AppendTorn, Fault
  <1>5. ASSUME UNCHANGED <<last, intact, torn>>,
               faults' \in {faults, faults + 1}
        PROVE  Cost'
    <2>1. Lost' = Lost /\ Debt' = Debt
      BY <1>5, Zenon DEF Lost, Debt
    <2> QED
      BY <1>0, <1>1, <1>5, <2>1
  <1>6. ASSUME NEW w \in Writers,
               Begin(w) \/ Unlink(w) \/ RotateError(w) \/ Crash(w)
        PROVE Cost'
    BY <1>5, <1>6 DEF Begin, Unlink, RotateError, Crash, Fault, fileVars
  <1>7. ASSUME NEW w \in Writers, Rename(w) PROVE Cost'
    <2>1. Debt' \in {Debt, 0}
      BY <1>7, Zenon DEF Rename, Debt
    <2>2. UNCHANGED <<last, intact, faults>>
      BY <1>7 DEF Rename
    <2> QED
      BY <1>0, <1>1, <2>1, <2>2 DEF Lost
  <1>8. CASE ReadFirst \/ ReadSecond \/ UNCHANGED vars
    BY <1>5, <1>8 DEF ReadFirst, ReadSecond, fileVars, vars
  <1> QED
    BY <1>3, <1>4, <1>6, <1>7, <1>8 DEF Next

(* A torn tail costs readEvents its own event and at most the next one. *)
THEOREM TornTails == Spec => []TornTailCostsTwo
  <1>1. Init => Cost
    <2> SUFFICES ASSUME Init PROVE Cost
      OBVIOUS
    <2>1. Lost = {} /\ faults = 0 /\ Debt = 0
      BY DEF Init, Lost, Debt
    <2> QED
      BY <2>1, FS_EmptySet DEF Cost
  <1>2. TypeOK /\ Cost => TornTailCostsTwo
    <2> SUFFICES ASSUME TypeOK, Cost PROVE TornTailCostsTwo
      OBVIOUS
    <2>1. /\ Cardinality(Lost) \in Nat /\ faults \in Nat /\ Debt \in {0, 1}
          /\ Cardinality(Lost) + Debt <= 2 * faults
      BY FS_CardinalityType DEF TypeOK, Cost, Debt
    <2>2. Cardinality(Lost) <= 2 * faults
      BY <2>1
    <2> QED
      BY <2>2 DEF Lost, TornTailCostsTwo
  <1> QED
    BY <1>1, <1>2, TypeCorrect, CostStep, Invariant, PTL DEF Spec
=============================================================================
