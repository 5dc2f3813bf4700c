-------------------------- MODULE RolloutScanProofs --------------------------
(***************************************************************************)
(* Proofs about RolloutScan, for any number of sessions, any bounds and    *)
(* any growth of the files.  The first part shows what the sum of the      *)
(* community modules is: its recursion is over the subsets of a finite     *)
(* set, and each induction over them takes a minimal counterexample.       *)
(***************************************************************************)
EXTENDS RolloutScan, FiniteSetTheorems, WellFoundedInduction, TLAPS

(* A set of subsets of a finite set has a minimal element. *)
LEMMA MinimalSet ==
    ASSUME NEW S, IsFiniteSet(S), NEW B, B \subseteq SUBSET S, B # {}
    PROVE  \E X \in B : \A Y \in B : Y \subseteq X => Y = X
  <1>1. IsWellFoundedOn(StrictSubsetOrdering(S), SUBSET S)
    BY FS_StrictSubsetOrderingWellFounded, FS_FiniteSubsetsOfFinite
  <1>2. PICK X \in B : \A Y \in B : ~ (<<Y, X>> \in StrictSubsetOrdering(S))
    BY <1>1, WFMin
  <1> QED
    BY <1>2 DEF StrictSubsetOrdering

(* the recursion of MapThenSumSet *)
Pick(T) == CHOOSE x \in T : TRUE
Body(f, S, F) ==
    [T \in SUBSET S |-> IF T = {} THEN 0 ELSE f[Pick(T)] + F[T \ {Pick(T)}]]
Sums(f, S) == CHOOSE F : F = Body(f, S, F)

LEMMA SumIs == ASSUME NEW f, NEW S PROVE SumOver(f, S) = Sums(f, S)[S]
  BY Zenon DEF SumOver, MapThenSumSet, MapThenFoldSet, Sums, Body, Pick

LEMMA Picked == ASSUME NEW T, T # {} PROVE Pick(T) \in T
  BY DEF Pick

LEMMA BodyAt ==
    ASSUME NEW f, NEW S, NEW F, F = Body(f, S, F), NEW T \in SUBSET S
    PROVE  F[T] = IF T = {} THEN 0 ELSE f[Pick(T)] + F[T \ {Pick(T)}]
  <1>1. Body(f, S, F)[T] = IF T = {} THEN 0 ELSE f[Pick(T)] + F[T \ {Pick(T)}]
    BY DEF Body
  <1> QED
    BY <1>1

(* two functions of the recursion agree where both are defined *)
LEMMA Unique ==
    ASSUME NEW f, NEW S, NEW T, NEW F, NEW G, F = Body(f, S, F),
           G = Body(f, T, G), NEW R, IsFiniteSet(R), R \subseteq S, R \subseteq T
    PROVE  F[R] = G[R]
  <1> DEFINE B == {X \in SUBSET R : F[X] # G[X]}
  <1> SUFFICES ASSUME B # {} PROVE FALSE
    OBVIOUS
  <1>0. B \subseteq SUBSET R
    OBVIOUS
  <1>1. PICK X \in B : \A Y \in B : Y \subseteq X => Y = X
    <2> HIDE DEF B
    <2> QED
      BY <1>0, MinimalSet
  <1>2. X \in SUBSET R /\ F[X] # G[X]
    OBVIOUS
  <1>3. X # {}
    BY <1>2, BodyAt
  <1>4. Pick(X) \in X
    BY <1>3, Picked
  <1>5. F[X \ {Pick(X)}] = G[X \ {Pick(X)}]
    BY <1>1, <1>2, <1>4
  <1>6. F[X] = f[Pick(X)] + F[X \ {Pick(X)}]
    <2>1. X \in SUBSET S
      BY <1>2
    <2> HIDE DEF B
    <2> QED
      BY <1>3, <2>1, BodyAt
  <1>7. G[X] = f[Pick(X)] + G[X \ {Pick(X)}]
    <2>1. X \in SUBSET T
      BY <1>2
    <2> HIDE DEF B
    <2> QED
      BY <1>3, <2>1, BodyAt
  <1> QED
    BY <1>2, <1>5, <1>6, <1>7

(* ... and there is one *)
LEMMA SumsExist ==
    ASSUME NEW f, NEW S, IsFiniteSet(S)
    PROVE  Sums(f, S) = Body(f, S, Sums(f, S))
  <1> DEFINE B == {X \in SUBSET S : Sums(f, X) # Body(f, X, Sums(f, X))}
  <1> SUFFICES ASSUME B # {} PROVE FALSE
    OBVIOUS
  <1>0. B \subseteq SUBSET S
    OBVIOUS
  <1>1. PICK X \in B : \A Y \in B : Y \subseteq X => Y = X
    <2> HIDE DEF B
    <2> QED
      BY <1>0, MinimalSet
  <1>2. X \in SUBSET S /\ Sums(f, X) # Body(f, X, Sums(f, X))
    OBVIOUS
  <1>3. ASSUME NEW Y \in SUBSET X, Y # X
        PROVE  Sums(f, Y) = Body(f, Y, Sums(f, Y)) /\ IsFiniteSet(Y)
    <2>1. Y \in SUBSET S
      BY <1>2
    <2> QED
      BY <1>1, <1>3, <2>1, FS_Subset
  <1> DEFINE rest(T) == T \ {Pick(T)}
             F == [T \in SUBSET X |->
                      IF T = X THEN IF X = {} THEN 0
                                    ELSE f[Pick(X)] + Sums(f, rest(X))[rest(X)]
                      ELSE Sums(f, T)[T]]
  <1>4. ASSUME NEW T \in SUBSET X
        PROVE  F[T] = IF T = {} THEN 0 ELSE f[Pick(T)] + F[rest(T)]
    <2>1. CASE T = {}
      <3>1. CASE X = {}
        BY <2>1, <3>1
      <3>2. CASE X # {}
        <4>1. Sums(f, T)[T] = 0
          BY <2>1, <3>2, <1>3, BodyAt
        <4> QED
          BY <2>1, <3>2, <4>1
      <3> QED
        BY <3>1, <3>2
    <2>2. CASE T # {}
      <3>1. Pick(T) \in T
        BY <2>2, Picked
      <3>2. rest(T) \in SUBSET X /\ rest(T) # X /\ rest(T) \in SUBSET T
        BY <3>1
      <3>3. F[rest(T)] = Sums(f, rest(T))[rest(T)]
        BY <3>2
      <3>4. CASE T = X
        BY <2>2, <3>3, <3>4
      <3>5. CASE T # X
        <4>1. Sums(f, T)[T] = f[Pick(T)] + Sums(f, T)[rest(T)]
          BY <2>2, <3>5, <1>3, BodyAt
        <4>2. Sums(f, T)[rest(T)] = Sums(f, rest(T))[rest(T)]
          BY <3>2, <3>5, <1>3, Unique
        <4> QED
          BY <2>2, <3>3, <3>5, <4>1, <4>2
      <3> QED
        BY <3>4, <3>5
    <2> QED
      BY <2>1, <2>2
  <1>5. F = Body(f, X, F)
    BY <1>4 DEF Body
  <1>6. \E G : G = Body(f, X, G)
    BY <1>5
  <1>7. Sums(f, X) = Body(f, X, Sums(f, X))
    BY <1>6, Zenon DEF Sums
  <1> QED
    BY <1>2, <1>7

(* The sum of nothing is 0, and any other is some element and the rest. *)
LEMMA SumStep ==
    ASSUME NEW f, NEW S, IsFiniteSet(S)
    PROVE  /\ SumOver(f, {}) = 0
           /\ S # {} => /\ Pick(S) \in S /\ IsFiniteSet(S \ {Pick(S)})
                        /\ SumOver(f, S) = f[Pick(S)] + SumOver(f, S \ {Pick(S)})
  <1>1. SumOver(f, {}) = 0
    <2>1. Sums(f, {}) = Body(f, {}, Sums(f, {}))
      BY SumsExist, FS_EmptySet
    <2> QED
      BY <2>1, BodyAt, SumIs
  <1>2. ASSUME S # {}
        PROVE  /\ Pick(S) \in S /\ IsFiniteSet(S \ {Pick(S)})
               /\ SumOver(f, S) = f[Pick(S)] + SumOver(f, S \ {Pick(S)})
    <2> DEFINE T == S \ {Pick(S)}
    <2>1. Pick(S) \in S /\ IsFiniteSet(T)
      BY <1>2, Picked, FS_RemoveElement
    <2>2. /\ Sums(f, S) = Body(f, S, Sums(f, S))
          /\ Sums(f, T) = Body(f, T, Sums(f, T))
      BY <2>1, SumsExist
    <2>3. Sums(f, S)[S] = f[Pick(S)] + Sums(f, S)[T]
      BY <1>2, <2>2, BodyAt
    <2>4. Sums(f, S)[T] = Sums(f, T)[T]
      BY <2>1, <2>2, Unique
    <2> QED
      BY <2>1, <2>3, <2>4, SumIs
  <1> QED
    BY <1>1, <1>2

LEMMA SumType ==
    ASSUME NEW f, NEW S, IsFiniteSet(S), \A s \in S : f[s] \in Nat
    PROVE  SumOver(f, S) \in Nat
  <1> DEFINE B == {X \in SUBSET S : SumOver(f, X) \notin Nat}
  <1> SUFFICES ASSUME B # {} PROVE FALSE
    OBVIOUS
  <1>0. B \subseteq SUBSET S
    OBVIOUS
  <1>1. PICK X \in B : \A Y \in B : Y \subseteq X => Y = X
    <2> HIDE DEF B
    <2> QED
      BY <1>0, MinimalSet
  <1>2. X \in SUBSET S /\ SumOver(f, X) \notin Nat
    OBVIOUS
  <1>3. IsFiniteSet(X)
    BY <1>2, FS_Subset
  <1>4. X # {}
    <2>1. SumOver(f, {}) = 0
      BY <1>3, SumStep
    <2> QED
      BY <1>2, <2>1
  <1>5. /\ Pick(X) \in X
        /\ SumOver(f, X) = f[Pick(X)] + SumOver(f, X \ {Pick(X)})
    BY <1>3, <1>4, SumStep
  <1>6. SumOver(f, X \ {Pick(X)}) \in Nat
    BY <1>1, <1>2, <1>5
  <1> QED
    BY <1>2, <1>5, <1>6

(* The choice of the element does not matter. *)
LEMMA SumRemove ==
    ASSUME NEW f, NEW S, IsFiniteSet(S), \A s \in S : f[s] \in Nat, NEW y \in S
    PROVE  SumOver(f, S) = f[y] + SumOver(f, S \ {y})
  <1> DEFINE Ok(X) == \A x \in X : SumOver(f, X) = f[x] + SumOver(f, X \ {x})
             B == {X \in SUBSET S : ~ Ok(X)}
  <1> SUFFICES ASSUME B # {} PROVE FALSE
    OBVIOUS
  <1>0. B \subseteq SUBSET S
    OBVIOUS
  <1>1. PICK X \in B : \A Y \in B : Y \subseteq X => Y = X
    <2> HIDE DEF B
    <2> QED
      BY <1>0, MinimalSet
  <1>2. X \in SUBSET S
    OBVIOUS
  <1>3. PICK x \in X : SumOver(f, X) # f[x] + SumOver(f, X \ {x})
    OBVIOUS
  <1> DEFINE p == Pick(X)
  <1>4. p \in X /\ SumOver(f, X) = f[p] + SumOver(f, X \ {p})
    <2>1. IsFiniteSet(X) /\ X # {}
      BY <1>2, <1>3, FS_Subset
    <2> QED
      BY <2>1, SumStep
  <1>5. x # p
    BY <1>3, <1>4
  <1>6. ASSUME NEW Y \in SUBSET X, Y # X PROVE Ok(Y)
    BY <1>1, <1>2, <1>6
  <1>7. SumOver(f, X \ {p}) = f[x] + SumOver(f, (X \ {p}) \ {x})
    BY <1>4, <1>5, <1>6
  <1>8. SumOver(f, X \ {x}) = f[p] + SumOver(f, (X \ {x}) \ {p})
    BY <1>4, <1>5, <1>6
  <1>9. (X \ {x}) \ {p} = (X \ {p}) \ {x}
    OBVIOUS
  <1>10. f[p] \in Nat /\ f[x] \in Nat /\ SumOver(f, (X \ {p}) \ {x}) \in Nat
    <2>1. (X \ {p}) \ {x} \in SUBSET S
      BY <1>2
    <2>2. IsFiniteSet((X \ {p}) \ {x})
      BY <2>1, FS_Subset
    <2>3. \A s \in (X \ {p}) \ {x} : f[s] \in Nat
      BY <2>1
    <2> QED
      BY <1>2, <1>4, <2>2, <2>3, SumType
  <1>11. SumOver(f, X) = f[x] + SumOver(f, X \ {x})
    <2> DEFINE rest == SumOver(f, (X \ {p}) \ {x})
               a == f[p]
               b == f[x]
    <2>1. rest \in Nat /\ a \in Nat /\ b \in Nat
      BY <1>10
    <2>2. SumOver(f, X \ {x}) = a + rest
      BY <1>8, <1>9
    <2>3. SumOver(f, X) = a + (b + rest)
      BY <1>4, <1>7
    <2>4. a + (b + rest) = b + (a + rest)
      <3> HIDE DEF a, b, rest
      <3> QED
        BY <2>1
    <2> QED
      BY <2>2, <2>3, <2>4, Zenon
  <1> QED
    BY <1>3, <1>11

LEMMA SumOfOne ==
    ASSUME NEW f, NEW x, f[x] \in Nat
    PROVE  SumOver(f, {x}) = f[x]
  <1>1. IsFiniteSet({x}) /\ {x} \ {x} = {}
    BY FS_Singleton
  <1>2. SumOver(f, {x}) = f[x] + SumOver(f, {x} \ {x})
    BY <1>1, SumRemove
  <1>3. SumOver(f, {}) = 0
    BY <1>1, SumStep
  <1> QED
    BY <1>1, <1>2, <1>3

LEMMA SumOfMore ==
    ASSUME NEW f, NEW S, IsFiniteSet(S), \A s \in S : f[s] \in Nat,
           NEW T, T \subseteq S
    PROVE  SumOver(f, T) <= SumOver(f, S)
  <1> DEFINE B == {X \in SUBSET S : T \subseteq X /\ ~ (SumOver(f, T) <= SumOver(f, X))}
  <1> SUFFICES ASSUME B # {} PROVE FALSE
    OBVIOUS
  <1>0. B \subseteq SUBSET S
    OBVIOUS
  <1>1. PICK X \in B : \A Y \in B : Y \subseteq X => Y = X
    <2> HIDE DEF B
    <2> QED
      BY <1>0, MinimalSet
  <1>2. X \in SUBSET S /\ T \subseteq X /\ ~ (SumOver(f, T) <= SumOver(f, X))
    OBVIOUS
  <1>3. ASSUME NEW Y \in SUBSET S
        PROVE  IsFiniteSet(Y) /\ SumOver(f, Y) \in Nat
    <2>1. IsFiniteSet(Y)
      BY FS_Subset
    <2>2. \A s \in Y : f[s] \in Nat
      OBVIOUS
    <2> HIDE DEF B
    <2> QED
      BY <2>1, <2>2, SumType
  <1>4. X # T
    BY <1>2, <1>3
  <1>5. PICK x \in X : x \notin T
    BY <1>2, <1>4
  <1>6. SumOver(f, T) <= SumOver(f, X \ {x})
    BY <1>1, <1>2, <1>5
  <1>7. SumOver(f, X) = f[x] + SumOver(f, X \ {x})
    BY <1>2, <1>3, SumRemove
  <1>8. /\ X \ {x} \in SUBSET S /\ T \in SUBSET S
        /\ f[x] \in Nat
    BY <1>2
  <1>9. SumOver(f, X \ {x}) \in Nat /\ SumOver(f, T) \in Nat
    BY <1>3, <1>8
  <1> QED
    BY <1>2, <1>6, <1>7, <1>8, <1>9

LEMMA SumOfLarger ==
    ASSUME NEW f, NEW g, NEW S, IsFiniteSet(S),
           \A s \in S : f[s] \in Nat /\ g[s] \in Nat /\ f[s] <= g[s]
    PROVE  SumOver(f, S) <= SumOver(g, S)
  <1> DEFINE B == {X \in SUBSET S : ~ (SumOver(f, X) <= SumOver(g, X))}
  <1> SUFFICES ASSUME B # {} PROVE FALSE
    OBVIOUS
  <1>0. B \subseteq SUBSET S
    OBVIOUS
  <1>1. PICK X \in B : \A Y \in B : Y \subseteq X => Y = X
    <2> HIDE DEF B
    <2> QED
      BY <1>0, MinimalSet
  <1>2. X \in SUBSET S /\ ~ (SumOver(f, X) <= SumOver(g, X))
    OBVIOUS
  <1>3. IsFiniteSet(X)
    BY <1>2, FS_Subset
  <1>4. SumOver(f, {}) = 0 /\ SumOver(g, {}) = 0
    BY <1>3, SumStep
  <1>5. X # {}
    BY <1>2, <1>4
  <1>6. /\ Pick(X) \in X
        /\ SumOver(f, X) = f[Pick(X)] + SumOver(f, X \ {Pick(X)})
        /\ SumOver(g, X) = g[Pick(X)] + SumOver(g, X \ {Pick(X)})
    BY <1>3, <1>5, SumStep
  <1>7. SumOver(f, X \ {Pick(X)}) <= SumOver(g, X \ {Pick(X)})
    BY <1>1, <1>2, <1>6
  <1>8. /\ SumOver(f, X \ {Pick(X)}) \in Nat /\ SumOver(g, X \ {Pick(X)}) \in Nat
    <2>1. /\ IsFiniteSet(X \ {Pick(X)})
          /\ \A s \in X \ {Pick(X)} : f[s] \in Nat /\ g[s] \in Nat
      BY <1>2, <1>3, FS_RemoveElement
    <2> QED
      BY <2>1, SumType
  <1>9. f[Pick(X)] \in Nat /\ g[Pick(X)] \in Nat /\ f[Pick(X)] <= g[Pick(X)]
    BY <1>2, <1>6
  <1> QED
    BY <1>2, <1>6, <1>7, <1>8, <1>9

----------------------------------------------------------------------------
(* The invariant of the scan.                                              *)

(* what is counted so far is in the files the scanner has looked at *)
CountedSoFar ==
    /\ scan.requests <= SumOver(InWindow, 1..(file - 1))
    /\ scan.responses <= SumOver(Answered, 1..(file - 1)) + scan.empty

(* what was there when the scan began is counted or still to come *)
Listed == [s \in Files |-> IF s \in names THEN InWindow[s] ELSE 0]
NothingMissed ==
    ~ scan.short =>
        /\ before.requests <= scan.requests + SumOver(Listed, file..Sessions)
        /\ before.active \subseteq names
        /\ \A s \in before.active :
               s < file => \/ s \in scan.sessions
                           \/ Cardinality(scan.sessions) >= SessionsPerScan
StillActive == before.active \subseteq Active

Phases ==
    /\ pc = "idle" => file = 1 /\ scan = NoScan /\ before = NothingBefore
    /\ pc = "read" => file \in names
    /\ pc \in {"log", "done"} => file = Sessions + 1

Concluded ==
    pc = "done" =>
        /\ scan.nonEmpty <= SumOver(Answered, Files)
        /\ scan.session # NoSession => /\ scan.sessions = {scan.session}
                                       /\ scan.calls <= calls[scan.session]

ScanInv ==
    TypeOK /\ CountedSoFar /\ NothingMissed /\ StillActive /\ Phases /\ Concluded

LEMMA FilesFinite == Sessions \in Nat /\ IsFiniteSet(Files)
  BY ScanAssumption, FS_Interval DEF Files

(* the sums over the files before and after the i-th *)
LEMMA SumsOfRanges ==
    ASSUME NEW f \in [Files -> Nat], NEW i \in 1..(Sessions + 1)
    PROVE  /\ SumOver(f, Files) \in Nat
           /\ SumOver(f, 1..(i - 1)) \in Nat /\ SumOver(f, i..Sessions) \in Nat
           /\ SumOver(f, 1..(i - 1)) <= SumOver(f, Files)
  <1>1. IsFiniteSet(Files) /\ \A s \in Files : f[s] \in Nat
    BY FilesFinite
  <1>2. 1..(i - 1) \subseteq Files /\ i..Sessions \subseteq Files
    BY FilesFinite DEF Files
  <1>3. /\ IsFiniteSet(1..(i - 1)) /\ \A s \in 1..(i - 1) : f[s] \in Nat
        /\ IsFiniteSet(i..Sessions) /\ \A s \in i..Sessions : f[s] \in Nat
    BY <1>1, <1>2, FS_Subset
  <1>4. /\ SumOver(f, Files) \in Nat
        /\ SumOver(f, 1..(i - 1)) \in Nat /\ SumOver(f, i..Sessions) \in Nat
    BY <1>1, <1>3, SumType
  <1>5. SumOver(f, 1..(i - 1)) <= SumOver(f, Files)
    BY <1>1, <1>2, SumOfMore
  <1> QED
    BY <1>4, <1>5

LEMMA SumsAtFile ==
    ASSUME NEW f \in [Files -> Nat], NEW i \in Files
    PROVE  /\ SumOver(f, 1..i) = f[i] + SumOver(f, 1..(i - 1))
           /\ SumOver(f, i..Sessions) = f[i] + SumOver(f, (i + 1)..Sessions)
  <1>1. 1..i \subseteq Files /\ i..Sessions \subseteq Files
    BY FilesFinite DEF Files
  <1>2. IsFiniteSet(1..i) /\ IsFiniteSet(i..Sessions)
    BY <1>1, FilesFinite, FS_Subset
  <1>3. /\ IsFiniteSet(1..i) /\ \A s \in 1..i : f[s] \in Nat
        /\ IsFiniteSet(i..Sessions) /\ \A s \in i..Sessions : f[s] \in Nat
    BY <1>1, <1>2
  <1>4. /\ i \in 1..i /\ (1..i) \ {i} = 1..(i - 1)
        /\ i \in i..Sessions /\ (i..Sessions) \ {i} = (i + 1)..Sessions
    BY FilesFinite DEF Files
  <1>5. SumOver(f, 1..i) = f[i] + SumOver(f, (1..i) \ {i})
    BY <1>3, <1>4, SumRemove
  <1>6. SumOver(f, i..Sessions) = f[i] + SumOver(f, (i..Sessions) \ {i})
    <2> DEFINE S == i..Sessions
    <2>1. IsFiniteSet(S) /\ (\A s \in S : f[s] \in Nat) /\ i \in S
      BY <1>3, <1>4
    <2> HIDE DEF S
    <2>2. SumOver(f, S) = f[i] + SumOver(f, S \ {i})
      BY <2>1, SumRemove
    <2> QED
      BY <2>2 DEF S
  <1> QED
    BY <1>4, <1>5, <1>6, Zenon

LEMMA SumsAtEnds ==
    ASSUME NEW f
    PROVE  /\ SumOver(f, 1..(1 - 1)) = 0
           /\ SumOver(f, (Sessions + 1)..Sessions) = 0
           /\ SumOver(f, 1..(Sessions + 1 - 1)) = SumOver(f, Files)
           /\ SumOver(f, 1..Sessions) = SumOver(f, Files)
  <1>1. /\ 1..(1 - 1) = {} /\ (Sessions + 1)..Sessions = {}
        /\ 1..(Sessions + 1 - 1) = Files /\ 1..Sessions = Files
    BY FilesFinite DEF Files
  <1>2. SumOver(f, {}) = 0
    BY FS_EmptySet, SumStep
  <1> QED
    BY <1>1, <1>2

(* the counts of the files, of which an append takes nothing away *)
LEMMA WindowTypes ==
    ASSUME TypeOK
    PROVE  /\ InWindow \in [Files -> Nat] /\ Answered \in [Files -> Nat]
           /\ Listed \in [Files -> Nat] /\ names \subseteq Files
           /\ \A s \in Files : /\ lines[s]["answered"] \in Nat
                               /\ lines[s]["empty"] \in Nat
                               /\ lines[s]["none"] \in Nat
                               /\ lines[s]["old"] \in Nat
  <1>1. \A s \in Files : /\ lines[s]["answered"] \in Nat
                         /\ lines[s]["empty"] \in Nat
                         /\ lines[s]["none"] \in Nat
                         /\ lines[s]["old"] \in Nat
    BY DEF TypeOK, Kinds
  <1>2. InWindow \in [Files -> Nat] /\ Answered \in [Files -> Nat]
    BY <1>1 DEF InWindow, Answered
  <1>3. Listed \in [Files -> Nat] /\ names \subseteq Files
    BY <1>2 DEF Listed, TypeOK
  <1> QED
    BY <1>1, <1>2, <1>3

LEMMA SumsGrow ==
    ASSUME NEW f \in [Files -> Nat], NEW g \in [Files -> Nat],
           \A s \in Files : f[s] <= g[s], NEW i \in 1..(Sessions + 1)
    PROVE  /\ SumOver(f, Files) <= SumOver(g, Files)
           /\ SumOver(f, 1..(i - 1)) <= SumOver(g, 1..(i - 1))
           /\ SumOver(f, i..Sessions) <= SumOver(g, i..Sessions)
  <1>1. ASSUME NEW S, S \subseteq Files PROVE SumOver(f, S) <= SumOver(g, S)
    <2>1. IsFiniteSet(S)
      BY <1>1, FilesFinite, FS_Subset
    <2>2. \A s \in S : f[s] \in Nat /\ g[s] \in Nat /\ f[s] <= g[s]
      BY <1>1
    <2> QED
      BY <2>1, <2>2, SumOfLarger
  <1>2. 1..(i - 1) \subseteq Files /\ i..Sessions \subseteq Files
    BY FilesFinite DEF Files
  <1> QED
    BY <1>1, <1>2

----------------------------------------------------------------------------
LEMMA InitInv == Init => ScanInv
  <1> SUFFICES ASSUME Init PROVE ScanInv
    OBVIOUS
  <1>1. TypeOK
    BY FilesFinite DEF Init, TypeOK, NoScan, NothingBefore, NoSession, Kinds, Files
  <1>2. SumOver(InWindow, 1..(file - 1)) = 0 /\ SumOver(Answered, 1..(file - 1)) = 0
    BY SumsAtEnds DEF Init
  <1>3. CountedSoFar
    BY <1>2 DEF Init, CountedSoFar, NoScan
  <1>4. NothingMissed
    <2>1. SumOver(Listed, file..Sessions) \in Nat
      BY <1>1, WindowTypes, SumsOfRanges DEF TypeOK
    <2> QED
      BY <2>1 DEF Init, NothingMissed, NoScan, NothingBefore
  <1>5. StillActive /\ Phases /\ Concluded
    BY DEF Init, StillActive, Phases, Concluded, NothingBefore
  <1> QED
    BY <1>1, <1>3, <1>4, <1>5 DEF ScanInv

LEMMA AppendKeeps == ScanInv /\ Append => ScanInv'
  <1> SUFFICES ASSUME ScanInv, Append PROVE ScanInv'
    OBVIOUS
  <1>1. UNCHANGED <<calls, pc, names, file, scan, before, faults>>
    BY DEF Append
  <1>2. PICK t \in Files, k \in Kinds :
            lines' = [lines EXCEPT ![t][k] = @ + 1]
    BY DEF Append
  <1>3. TypeOK
    BY DEF ScanInv
  <1>4. TypeOK'
    <2>1. lines' \in [Files -> [Kinds -> Nat]]
      BY <1>2, <1>3 DEF TypeOK
    <2> QED
      BY <1>1, <1>3, <2>1 DEF TypeOK
  <1>5. /\ InWindow \in [Files -> Nat] /\ InWindow' \in [Files -> Nat]
        /\ Answered \in [Files -> Nat] /\ Answered' \in [Files -> Nat]
        /\ Listed \in [Files -> Nat] /\ Listed' \in [Files -> Nat]
    <2>1. \A s \in Files : \A j \in Kinds : lines'[s][j] \in Nat
      BY <1>4 DEF TypeOK
    <2>2. InWindow' \in [Files -> Nat] /\ Answered' \in [Files -> Nat]
      BY <2>1 DEF InWindow, Answered, Kinds
    <2>3. Listed' \in [Files -> Nat]
      BY <2>2 DEF Listed
    <2> QED
      BY <1>3, <2>2, <2>3, WindowTypes
  <1>6. \A s \in Files : \A j \in Kinds :
            lines[s][j] \in Nat /\ lines'[s][j] \in Nat /\ lines[s][j] <= lines'[s][j]
    BY <1>2, <1>3, <1>4 DEF TypeOK
  <1>7. \A s \in Files : InWindow[s] <= InWindow'[s] /\ Answered[s] <= Answered'[s]
    BY <1>6 DEF InWindow, Answered, Kinds
  <1>7a. \A s \in Files : Listed[s] <= Listed'[s]
    BY <1>1, <1>5, <1>7 DEF Listed
  <1>8. file \in 1..(Sessions + 1)
    BY <1>3 DEF TypeOK
  <1> DEFINE f == InWindow
             g == InWindow'
             a == Answered
             b == Answered'
             l == Listed
             m == Listed'
  <1>9. /\ SumOver(f, Files) <= SumOver(g, Files)
        /\ SumOver(f, 1..(file - 1)) <= SumOver(g, 1..(file - 1))
        /\ SumOver(l, file..Sessions) <= SumOver(m, file..Sessions)
        /\ SumOver(a, Files) <= SumOver(b, Files)
        /\ SumOver(a, 1..(file - 1)) <= SumOver(b, 1..(file - 1))
    BY <1>5, <1>7, <1>7a, <1>8, SumsGrow
  <1>10. /\ SumOver(f, Files) \in Nat /\ SumOver(g, Files) \in Nat
         /\ SumOver(f, 1..(file - 1)) \in Nat /\ SumOver(g, 1..(file - 1)) \in Nat
         /\ SumOver(l, file..Sessions) \in Nat /\ SumOver(m, file..Sessions) \in Nat
         /\ SumOver(a, Files) \in Nat /\ SumOver(b, Files) \in Nat
         /\ SumOver(a, 1..(file - 1)) \in Nat /\ SumOver(b, 1..(file - 1)) \in Nat
    BY <1>5, <1>8, SumsOfRanges
  <1>11. /\ scan.requests \in Nat /\ scan.responses \in Nat /\ scan.empty \in Nat
         /\ before.requests \in Nat /\ scan.nonEmpty \in Nat
    BY <1>3 DEF TypeOK
  <1>12. CountedSoFar'
    <2>1. /\ scan.requests <= SumOver(f, 1..(file - 1))
          /\ scan.responses <= SumOver(a, 1..(file - 1)) + scan.empty
      BY DEF ScanInv, CountedSoFar
    <2>2. /\ scan.requests <= SumOver(g, 1..(file - 1))
          /\ scan.responses <= SumOver(b, 1..(file - 1)) + scan.empty
      <3> DEFINE p == SumOver(f, 1..(file - 1))
                 q == SumOver(g, 1..(file - 1))
                 u == SumOver(a, 1..(file - 1))
                 v == SumOver(b, 1..(file - 1))
      <3>1. /\ scan.requests <= p /\ scan.responses <= u + scan.empty
            /\ p <= q /\ u <= v
            /\ p \in Nat /\ q \in Nat /\ u \in Nat /\ v \in Nat
        BY <1>9, <1>10, <2>1, Zenon
      <3> HIDE DEF p, q, u, v
      <3>2. scan.requests <= q /\ scan.responses <= v + scan.empty
        BY <1>11, <3>1
      <3> QED
        BY <3>2, Zenon DEF q, v
    <2> QED
      BY <1>1, <2>2 DEF CountedSoFar
  <1>13. NothingMissed'
    BY <1>1, <1>9, <1>10, <1>11 DEF ScanInv, NothingMissed
  <1>14. StillActive'
    BY <1>1, <1>5, <1>7 DEF ScanInv, StillActive, Active
  <1>15. Phases' /\ Concluded'
    BY <1>1, <1>9, <1>10, <1>11 DEF ScanInv, Phases, Concluded
  <1> QED
    BY <1>4, <1>12, <1>13, <1>14, <1>15 DEF ScanInv

LEMMA CallKeeps == ScanInv /\ Call => ScanInv'
  <1> SUFFICES ASSUME ScanInv, Call PROVE ScanInv'
    OBVIOUS
  <1>1. UNCHANGED <<lines, pc, names, file, scan, before, faults>>
    BY DEF Call
  <1>2. PICK t \in Files : calls' = [calls EXCEPT ![t] = @ + 1]
    BY DEF Call
  <1>3. TypeOK /\ TypeOK'
    BY <1>1, <1>2 DEF ScanInv, TypeOK
  <1>4. InWindow' = InWindow /\ Answered' = Answered
    BY <1>1 DEF InWindow, Answered
  <1>5. \A s \in Files : calls[s] \in Nat /\ calls'[s] \in Nat /\ calls[s] <= calls'[s]
    BY <1>2, <1>3 DEF TypeOK
  <1>6. CountedSoFar' /\ NothingMissed' /\ StillActive' /\ Phases'
    BY <1>1, <1>4
    DEF ScanInv, CountedSoFar, NothingMissed, Listed, StillActive, Phases,
        Active
  <1>7. scan.calls \in Nat /\ scan.session \in Files \cup {NoSession}
    BY <1>3 DEF TypeOK
  <1>8. Concluded'
    BY <1>1, <1>4, <1>5, <1>7 DEF ScanInv, Concluded
  <1> QED
    BY <1>3, <1>6, <1>8 DEF ScanInv

LEMMA BeginKeeps == ScanInv /\ (Begin \/ BeginError) => ScanInv'
  <1> SUFFICES ASSUME ScanInv, Begin \/ BeginError PROVE ScanInv'
    OBVIOUS
  <1>1. /\ pc = "idle" /\ pc' = "rollout"
        /\ before' = [requests |-> SumOver(InWindow, Files), active |-> Active]
        /\ UNCHANGED <<lines, calls, file>>
    BY DEF Begin, BeginError, StartWith, worldVars
  <1>2. TypeOK /\ file = 1 /\ scan = NoScan
    BY <1>1 DEF ScanInv, Phases
  <1>2a. scan' = scan \/ scan' = [scan EXCEPT !.short = TRUE]
    BY DEF Begin, BeginError
  <1>2b. /\ scan'.requests = 0 /\ scan'.responses = 0 /\ scan'.empty = 0
    BY <1>2, <1>2a DEF NoScan
  <1>3. InWindow' = InWindow /\ Answered' = Answered
    BY <1>1 DEF InWindow, Answered
  <1>4. /\ SumOver(InWindow, Files) \in Nat
        /\ SumOver(InWindow, file..Sessions) = SumOver(InWindow, Files)
    BY <1>2, WindowTypes, SumsOfRanges, SumsAtEnds DEF TypeOK, Files
  <1>5. TypeOK'
    <2>1. before' \in [requests : Nat, active : SUBSET Files]
      BY <1>1, <1>4 DEF Active
    <2>2. names' \subseteq Files /\ faults' \in Nat
      BY <1>2 DEF Begin, BeginError, StartWith, Fault, TypeOK
    <2>3. scan' \in [files : Nat, requests : Nat, responses : Nat, empty : Nat,
                     sessions : SUBSET Files, short : BOOLEAN,
                     session : Files \cup {NoSession}, nonEmpty : Nat, calls : Nat]
      BY <1>2, <1>2a, Zenon DEF TypeOK
    <2> QED
      BY <1>1, <1>2, <2>1, <2>2, <2>3 DEF TypeOK
  <1>6. CountedSoFar'
    BY <1>1, <1>2, <1>2b, <1>3 DEF ScanInv, CountedSoFar, NoScan
  <1>7. NothingMissed'
    <2> SUFFICES ASSUME ~ scan'.short PROVE NothingMissed'
      BY DEF NothingMissed
    <2>1. Begin
      BY <1>2 DEF BeginError, TypeOK
    <2>2. before'.requests = SumOver(InWindow, Files) /\ scan'.requests = 0 /\ file' = 1
      BY <1>1, <1>2, <1>2b
    <2>3. \A s \in before'.active : ~ (s < file')
      BY <1>1, <1>2 DEF Active, Files
    <2>4. \A s \in Files : InWindow[s] \in Nat /\ lines[s]["old"] \in Nat
      BY <1>2, WindowTypes
    <2>5. \A s \in Files : InWindow[s] > 0 => s \in names'
      BY <2>1, <2>4 DEF Begin, StartWith, Size, Written
    <2>6. before'.active \subseteq names'
      BY <1>1, <2>5 DEF Active
    <2>7. Listed' = InWindow
      <3>1. \A s \in Files : Listed'[s] = InWindow[s]
        BY <1>3, <2>4, <2>5 DEF Listed
      <3> QED
        BY <3>1 DEF Listed, InWindow
    <2> QED
      BY <1>1, <1>4, <2>2, <2>3, <2>6, <2>7 DEF NothingMissed
  <1>8. StillActive' /\ Phases' /\ Concluded'
    BY <1>1, <1>3 DEF StillActive, Active, Phases, Concluded
  <1> QED
    BY <1>5, <1>6, <1>7, <1>8 DEF ScanInv

(* what the scanner knows at a file, and how the sums move past it *)
LEMMA AtFileFacts ==
    ASSUME ScanInv, file \in Files
    PROVE  /\ TypeOK /\ file + 1 \in 1..(Sessions + 1)
           /\ InWindow[file] \in Nat /\ Answered[file] \in Nat
           /\ SumOver(InWindow, 1..file) = InWindow[file] + SumOver(InWindow, 1..(file - 1))
           /\ SumOver(Listed, file..Sessions)
                = Listed[file] + SumOver(Listed, (file + 1)..Sessions)
           /\ Listed[file] = IF file \in names THEN InWindow[file] ELSE 0
           /\ SumOver(Answered, 1..file) = Answered[file] + SumOver(Answered, 1..(file - 1))
           /\ SumOver(InWindow, 1..(file - 1)) \in Nat
           /\ SumOver(Answered, 1..(file - 1)) \in Nat
           /\ SumOver(Listed, (file + 1)..Sessions) \in Nat
           /\ (file + 1) - 1 = file
  <1>1. TypeOK
    BY DEF ScanInv
  <1>2. /\ file \in Files /\ file + 1 \in 1..(Sessions + 1)
        /\ (file + 1) - 1 = file
    BY FilesFinite DEF Files
  <1>3. /\ InWindow \in [Files -> Nat] /\ Answered \in [Files -> Nat]
        /\ Listed \in [Files -> Nat]
    BY <1>1, WindowTypes
  <1>4. /\ SumOver(InWindow, 1..file) = InWindow[file] + SumOver(InWindow, 1..(file - 1))
        /\ SumOver(Listed, file..Sessions)
             = Listed[file] + SumOver(Listed, (file + 1)..Sessions)
        /\ SumOver(Answered, 1..file) = Answered[file] + SumOver(Answered, 1..(file - 1))
    BY <1>2, <1>3, SumsAtFile
  <1>5. /\ SumOver(InWindow, 1..(file - 1)) \in Nat
        /\ SumOver(Answered, 1..(file - 1)) \in Nat
        /\ SumOver(Listed, (file + 1)..Sessions) \in Nat
    <2>1. file \in 1..(Sessions + 1)
      BY FilesFinite DEF Files
    <2>2. /\ SumOver(InWindow, 1..(file - 1)) \in Nat
          /\ SumOver(Answered, 1..(file - 1)) \in Nat
      BY <1>3, <2>1, SumsOfRanges
    <2>3. SumOver(Listed, (file + 1)..Sessions) \in Nat
      BY <1>2, <1>3, SumsOfRanges
    <2> QED
      BY <2>2, <2>3
  <1> QED
    BY <1>1, <1>2, <1>3, <1>4, <1>5 DEF Listed

(* ... when nothing of the file is counted *)
LEMMA UnreadKeeps ==
    ASSUME ScanInv, file \in Files, NEW found, NextFile(found),
           \/ found = scan /\ (file \in names => InWindow[file] = 0)
           \/ found = [scan EXCEPT !.files = @ + 1, !.short = TRUE]
           \/ found = [scan EXCEPT !.short = TRUE],
           faults' \in Nat
    PROVE  ScanInv'
  <1>1. /\ scan' = found /\ file' = file + 1 /\ pc' = "rollout"
        /\ UNCHANGED <<lines, calls, names, before>>
    BY DEF NextFile, worldVars
  <1>2. TypeOK
    BY AtFileFacts
  <1>3. InWindow' = InWindow /\ Answered' = Answered
    BY <1>1 DEF InWindow, Answered
  <1>4. TypeOK'
    <2>1. scan' \in [files : Nat, requests : Nat, responses : Nat, empty : Nat,
                     sessions : SUBSET Files, short : BOOLEAN,
                     session : Files \cup {NoSession}, nonEmpty : Nat, calls : Nat]
      <3>1. CASE found = scan
        BY <1>1, <1>2, <3>1 DEF TypeOK
      <3>2. CASE found = [scan EXCEPT !.files = @ + 1, !.short = TRUE]
        <4>1. scan.files + 1 \in Nat /\ TRUE \in BOOLEAN
          BY <1>2 DEF TypeOK
        <4> QED
          BY <1>1, <1>2, <3>2, <4>1, Zenon DEF TypeOK
      <3>3. CASE found = [scan EXCEPT !.short = TRUE]
        BY <1>1, <1>2, <3>3, Zenon DEF TypeOK
      <3> QED
        BY <3>1, <3>2, <3>3
    <2>2. file' \in 1..(Sessions + 1)
      BY <1>1, AtFileFacts
    <2> QED
      BY <1>1, <1>2, <2>1, <2>2 DEF TypeOK
  <1>5. /\ scan'.requests = scan.requests /\ scan'.responses = scan.responses
        /\ scan'.empty = scan.empty /\ scan'.sessions = scan.sessions
    BY <1>1, <1>2 DEF TypeOK
  <1>6. /\ scan.requests \in Nat /\ scan.responses \in Nat /\ scan.empty \in Nat
        /\ before.requests \in Nat
    BY <1>2 DEF TypeOK
  <1>7. file' - 1 = file
    BY <1>1, AtFileFacts
  <1>8. CountedSoFar'
    <2>1. /\ scan.requests <= SumOver(InWindow, 1..(file - 1))
          /\ scan.responses <= SumOver(Answered, 1..(file - 1)) + scan.empty
      BY DEF ScanInv, CountedSoFar
    <2> DEFINE w == SumOver(InWindow, 1..(file - 1))
               a == SumOver(Answered, 1..(file - 1))
               x == SumOver(InWindow, 1..file)
               y == SumOver(Answered, 1..file)
    <2>2. /\ w \in Nat /\ a \in Nat /\ InWindow[file] \in Nat /\ Answered[file] \in Nat
          /\ x = InWindow[file] + w /\ y = Answered[file] + a
      BY AtFileFacts
    <2>3. w <= x /\ a <= y /\ w \in Nat /\ a \in Nat /\ x \in Nat /\ y \in Nat
      <3> HIDE DEF w, a, x, y
      <3> QED
        BY <2>2
    <2>4. /\ scan.requests <= SumOver(InWindow, 1..file)
          /\ scan.responses <= SumOver(Answered, 1..file) + scan.empty
      BY <1>6, <2>1, <2>3
    <2> QED
      BY <1>3, <1>5, <1>7, <2>4 DEF CountedSoFar
  <1>9. NothingMissed'
    <2> SUFFICES ASSUME ~ scan'.short PROVE NothingMissed'
      BY DEF NothingMissed
    <2>1. scan' = scan /\ (file \in names => InWindow[file] = 0)
      BY <1>1, <1>2 DEF TypeOK
    <2>2. /\ before.requests <= scan.requests + SumOver(Listed, file..Sessions)
          /\ before.active \subseteq names
          /\ \A s \in before.active :
                 s < file => \/ s \in scan.sessions
                             \/ Cardinality(scan.sessions) >= SessionsPerScan
      BY <2>1 DEF ScanInv, NothingMissed
    <2>3. before.requests <= scan.requests + SumOver(Listed, (file + 1)..Sessions)
      <3>1. SumOver(Listed, file..Sessions) = SumOver(Listed, (file + 1)..Sessions)
        <4> DEFINE x == SumOver(Listed, (file + 1)..Sessions)
        <4>1. /\ x \in Nat /\ Listed[file] = 0
              /\ SumOver(Listed, file..Sessions) = Listed[file] + x
          BY <2>1, AtFileFacts
        <4> HIDE DEF x
        <4>2. SumOver(Listed, file..Sessions) = x
          BY <4>1
        <4> QED
          BY <4>2 DEF x
      <3> QED
        BY <2>2, <3>1, Zenon
    <2>4. ASSUME NEW s \in before.active, s < file + 1 PROVE s < file
      <3>1. InWindow[s] > 0 /\ s \in Files /\ s \in names
        BY <2>2 DEF ScanInv, StillActive, Active
      <3> QED
        BY <2>1, <2>4, <3>1, AtFileFacts DEF Files
    <2>5. Listed' = Listed
      BY <1>1, <1>3 DEF Listed
    <2> QED
      BY <1>1, <2>1, <2>2, <2>3, <2>4, <2>5 DEF NothingMissed
  <1>10. StillActive' /\ Phases' /\ Concluded'
    BY <1>1, <1>2, <1>3 DEF ScanInv, StillActive, Active, Phases, Concluded
  <1> QED
    BY <1>4, <1>8, <1>9, <1>10 DEF ScanInv

LEMMA NamedFiles == TypeOK /\ file \in names => file \in Files
  BY DEF TypeOK

LEMMA PassOverKeeps == ScanInv /\ (PassOver \/ Unlisted) => ScanInv'
  <1> SUFFICES ASSUME ScanInv, PassOver \/ Unlisted PROVE ScanInv'
    OBVIOUS
  <1>1. TypeOK /\ faults' \in Nat /\ NextFile(scan)
    BY DEF PassOver, Unlisted, ScanInv, TypeOK
  <1>2. file \in Files
    BY <1>1, NamedFiles, FilesFinite DEF PassOver, AtFile, Unlisted, TypeOK, Files
  <1>3. file \in names => InWindow[file] = 0
    BY <1>1, <1>2, WindowTypes DEF PassOver, Unlisted, Fresh, Written
  <1> QED
    BY <1>1, <1>2, <1>3, UnreadKeeps

LEMMA UnparsedKeeps ==
    ScanInv /\ (StatError \/ SkipLarge \/ ReadError) => ScanInv'
  <1> SUFFICES ASSUME ScanInv, StatError \/ SkipLarge \/ ReadError PROVE ScanInv'
    OBVIOUS
  <1>1. TypeOK /\ faults' \in Nat
    BY DEF StatError, SkipLarge, ReadError, Fault, ScanInv, TypeOK
  <1>2. file \in Files
    BY <1>1, NamedFiles
    DEF StatError, SkipLarge, ReadError, AtFile, ScanInv, Phases
  <1>3. \/ NextFile([scan EXCEPT !.files = @ + 1, !.short = TRUE])
        \/ NextFile([scan EXCEPT !.short = TRUE])
    BY DEF StatError, SkipLarge, ReadError, Unparsed
  <1> QED
    BY <1>1, <1>2, <1>3, UnreadKeeps

LEMMA StatKeeps == ScanInv /\ Stat => ScanInv'
  <1> SUFFICES ASSUME ScanInv, Stat PROVE ScanInv'
    OBVIOUS
  <1>1. /\ pc' = "read" /\ file \in names
        /\ UNCHANGED <<lines, calls, names, file, scan, before, faults>>
    BY DEF Stat, AtFile, worldVars
  <1>2. InWindow' = InWindow /\ Answered' = Answered
    BY <1>1 DEF InWindow, Answered
  <1>3. TypeOK'
    BY <1>1 DEF ScanInv, TypeOK
  <1>4. CountedSoFar' /\ NothingMissed' /\ StillActive'
    BY <1>1, <1>2
    DEF ScanInv, CountedSoFar, NothingMissed, Listed, StillActive, Active
  <1>5. Phases' /\ Concluded'
    BY <1>1 DEF Phases, Concluded
  <1> QED
    BY <1>3, <1>4, <1>5 DEF ScanInv

LEMMA ReadFileKeeps == ScanInv /\ ReadFile => ScanInv'
  <1> SUFFICES ASSUME ScanInv, ReadFile PROVE ScanInv'
    OBVIOUS
  <1> DEFINE c == Counted(lines[file])
             sessions == IF Cardinality(scan.sessions) < SessionsPerScan
                         THEN scan.sessions \cup {file} ELSE scan.sessions
  <1>0. file \in names /\ file \in Files
    BY NamedFiles DEF ReadFile, ScanInv, Phases
  <1>1. /\ pc' = "rollout"
        /\ scan' = [scan EXCEPT !.files = @ + 1, !.requests = @ + c.requests,
                                !.responses = @ + c.responses,
                                !.empty = @ + c.empty, !.sessions = sessions]
        /\ file' = file + 1
        /\ UNCHANGED <<lines, calls, names, before, faults>>
    BY DEF ReadFile, NextFile, worldVars
  <1>2. TypeOK /\ file \in Files
    BY <1>0, AtFileFacts
  <1>3. InWindow' = InWindow /\ Answered' = Answered /\ Listed' = Listed
    BY <1>1 DEF InWindow, Answered, Listed
  <1>4. /\ c.requests = InWindow[file] /\ c.responses = Answered[file] + lines[file]["empty"]
        /\ c.empty = lines[file]["empty"] + lines[file]["none"]
        /\ lines[file]["empty"] \in Nat /\ lines[file]["none"] \in Nat
        /\ Answered[file] \in Nat /\ InWindow[file] \in Nat
    <2>1. /\ lines[file]["answered"] \in Nat /\ lines[file]["empty"] \in Nat
          /\ lines[file]["none"] \in Nat
      BY <1>2, WindowTypes
    <2> QED
      BY <1>2, <2>1 DEF Counted, InWindow, Answered
  <1>5. c.requests \in Nat /\ c.responses \in Nat /\ c.empty \in Nat
    BY <1>4
  <1>6. /\ scan.files \in Nat /\ scan.requests \in Nat /\ scan.responses \in Nat
        /\ scan.empty \in Nat /\ scan.sessions \in SUBSET Files
        /\ before.requests \in Nat
    BY <1>2 DEF TypeOK
  <1>7. sessions \in SUBSET Files
    BY <1>2, <1>6
  <1> HIDE DEF c, sessions
  <1>8. /\ scan'.requests = scan.requests + c.requests
        /\ scan'.responses = scan.responses + c.responses
        /\ scan'.empty = scan.empty + c.empty
        /\ scan'.sessions = sessions /\ scan'.short = scan.short
    BY <1>1, <1>2, Zenon DEF TypeOK
  <1>9. TypeOK'
    <2>1. scan' \in [files : Nat, requests : Nat, responses : Nat, empty : Nat,
                     sessions : SUBSET Files, short : BOOLEAN,
                     session : Files \cup {NoSession}, nonEmpty : Nat, calls : Nat]
      <3>1. /\ scan.files + 1 \in Nat /\ scan.requests + c.requests \in Nat
            /\ scan.responses + c.responses \in Nat /\ scan.empty + c.empty \in Nat
        BY <1>5, <1>6
      <3> QED
        BY <1>1, <1>2, <1>7, <3>1, Zenon DEF TypeOK
    <2>2. file' \in 1..(Sessions + 1)
      BY <1>1, <1>2, AtFileFacts
    <2> QED
      BY <1>1, <1>2, <2>1, <2>2 DEF TypeOK
  <1>10. file' - 1 = file
    BY <1>1, <1>2, AtFileFacts
  <1>11. CountedSoFar'
    <2> DEFINE w == SumOver(InWindow, 1..(file - 1))
               a == SumOver(Answered, 1..(file - 1))
               x == SumOver(InWindow, 1..file)
               y == SumOver(Answered, 1..file)
    <2>1. scan.requests <= w /\ scan.responses <= a + scan.empty
      BY DEF ScanInv, CountedSoFar
    <2>2. w \in Nat /\ a \in Nat /\ x = InWindow[file] + w /\ y = Answered[file] + a
      BY <1>1, <1>2, AtFileFacts
    <2>3. /\ scan.requests + c.requests <= x
          /\ scan.responses + c.responses <= y + (scan.empty + c.empty)
      <3> HIDE DEF w, a, x, y
      <3> QED
        BY <1>4, <1>6, <2>1, <2>2
    <2> QED
      BY <1>3, <1>8, <1>10, <2>3 DEF CountedSoFar
  <1>12. NothingMissed'
    <2> SUFFICES ASSUME ~ scan.short PROVE NothingMissed'
      BY <1>8 DEF NothingMissed
    <2> DEFINE w == SumOver(Listed, file..Sessions)
               x == SumOver(Listed, (file + 1)..Sessions)
    <2>1. before.requests <= scan.requests + w
      BY DEF ScanInv, NothingMissed
    <2>2. x \in Nat /\ w = InWindow[file] + x
      BY <1>0, AtFileFacts
    <2>3. before.requests <= (scan.requests + c.requests) + x
      <3> HIDE DEF w, x
      <3> QED
        BY <1>4, <1>6, <2>1, <2>2
    <2>4. ASSUME NEW s \in before.active, s < file + 1
          PROVE  s \in sessions \/ Cardinality(sessions) >= SessionsPerScan
      <3>1. s \in Files
        BY DEF ScanInv, StillActive, Active
      <3>2. Cardinality(scan.sessions) \in Nat /\ SessionsPerScan \in Nat
        BY <1>6, FilesFinite, FS_Subset, FS_CardinalityType, ScanAssumption
      <3>3. CASE s = file
        BY <3>2, <3>3 DEF sessions
      <3>4. CASE s # file
        <4>1. s < file
          BY <1>2, <2>4, <3>1, <3>4, FilesFinite DEF Files
        <4>2. s \in scan.sessions \/ Cardinality(scan.sessions) >= SessionsPerScan
          BY <4>1 DEF ScanInv, NothingMissed
        <4> QED
          BY <3>2, <4>2 DEF sessions
      <3> QED
        BY <3>3, <3>4
    <2>5. before.active \subseteq names
      BY DEF ScanInv, NothingMissed
    <2> QED
      BY <1>1, <1>3, <1>8, <2>3, <2>4, <2>5 DEF NothingMissed
  <1>13. StillActive' /\ Phases' /\ Concluded'
    BY <1>1, <1>2, <1>3 DEF ScanInv, StillActive, Active, Phases, Concluded
  <1> QED
    BY <1>9, <1>11, <1>12, <1>13 DEF ScanInv

LEMMA TruncateKeeps == ScanInv /\ Truncate => ScanInv'
  <1> SUFFICES ASSUME ScanInv, Truncate PROVE ScanInv'
    OBVIOUS
  <1>1. /\ pc = "rollout" /\ scan' = [scan EXCEPT !.short = TRUE]
        /\ file' = Sessions + 1
        /\ UNCHANGED <<lines, calls, pc, names, before, faults>>
    BY DEF Truncate, worldVars
  <1>2. TypeOK /\ file \in 1..(Sessions + 1)
    BY DEF ScanInv, TypeOK
  <1>3. InWindow' = InWindow /\ Answered' = Answered
    BY <1>1 DEF InWindow, Answered
  <1>4. /\ scan'.requests = scan.requests /\ scan'.responses = scan.responses
        /\ scan'.empty = scan.empty /\ scan'.short
    BY <1>1, <1>2, Zenon DEF TypeOK
  <1>5. TypeOK'
    <2>1. scan' \in [files : Nat, requests : Nat, responses : Nat, empty : Nat,
                     sessions : SUBSET Files, short : BOOLEAN,
                     session : Files \cup {NoSession}, nonEmpty : Nat, calls : Nat]
      BY <1>1, <1>2, Zenon DEF TypeOK
    <2>2. file' \in 1..(Sessions + 1)
      BY <1>1, FilesFinite
    <2> QED
      BY <1>1, <1>2, <2>1, <2>2 DEF TypeOK
  <1>6. CountedSoFar'
    <2>0. InWindow \in [Files -> Nat] /\ Answered \in [Files -> Nat]
      BY <1>2, WindowTypes
    <2> DEFINE w == SumOver(InWindow, 1..(file - 1))
               a == SumOver(Answered, 1..(file - 1))
               x == SumOver(InWindow, Files)
               y == SumOver(Answered, Files)
    <2>1. scan.requests <= w /\ scan.responses <= a + scan.empty
      BY DEF ScanInv, CountedSoFar
    <2>2. /\ w \in Nat /\ a \in Nat /\ x \in Nat /\ y \in Nat /\ w <= x /\ a <= y
      BY <1>2, <2>0, SumsOfRanges
    <2>3. scan.requests \in Nat /\ scan.responses \in Nat /\ scan.empty \in Nat
      BY <1>2 DEF TypeOK
    <2>4. scan.requests <= x /\ scan.responses <= y + scan.empty
      <3> HIDE DEF w, a, x, y
      <3> QED
        BY <2>1, <2>2, <2>3
    <2>5. /\ SumOver(InWindow, 1..(file' - 1)) = x
          /\ SumOver(Answered, 1..(file' - 1)) = y
      <3>1. file' - 1 = Sessions
        BY <1>1, FilesFinite
      <3>2. SumOver(InWindow, 1..Sessions) = x /\ SumOver(Answered, 1..Sessions) = y
        BY SumsAtEnds
      <3> QED
        BY <3>1, <3>2, Zenon
    <2> QED
      BY <1>3, <1>4, <2>4, <2>5 DEF CountedSoFar
  <1>7. NothingMissed' /\ StillActive' /\ Phases' /\ Concluded'
    BY <1>1, <1>3, <1>4
    DEF ScanInv, NothingMissed, StillActive, Active, Phases, Concluded
  <1> QED
    BY <1>5, <1>6, <1>7 DEF ScanInv

LEMMA EndRolloutKeeps == ScanInv /\ EndRollout => ScanInv'
  <1> SUFFICES ASSUME ScanInv, EndRollout PROVE ScanInv'
    OBVIOUS
  <1>1. /\ pc = "rollout" /\ pc' = "log" /\ file > Sessions
        /\ UNCHANGED <<lines, calls, names, file, scan, before, faults>>
    BY DEF EndRollout, worldVars
  <1>2. InWindow' = InWindow /\ Answered' = Answered
    BY <1>1 DEF InWindow, Answered
  <1>3. TypeOK' /\ file = Sessions + 1
    BY <1>1, FilesFinite DEF ScanInv, TypeOK
  <1>4. CountedSoFar' /\ NothingMissed' /\ StillActive'
    BY <1>1, <1>2
    DEF ScanInv, CountedSoFar, NothingMissed, Listed, StillActive, Active
  <1>5. Phases' /\ Concluded'
    BY <1>1, <1>3 DEF Phases, Concluded
  <1> QED
    BY <1>3, <1>4, <1>5 DEF ScanInv

(* a session that is attributed is the only one the scan saw *)
LEMMA AttributedAlone ==
    ASSUME NEW S, IsFiniteSet(S), S \subseteq Files
    PROVE  /\ Attributed(S) \in Files \cup {NoSession}
           /\ Attributed(S) # NoSession => S = {Attributed(S)}
  <1>1. CASE Cardinality(S) = 1
    <2>1. PICK x : S = {x}
      BY <1>1, FS_Singleton
    <2>2. Attributed(S) = x
      BY <1>1, <2>1 DEF Attributed
    <2> QED
      BY <2>1, <2>2
  <1>2. CASE Cardinality(S) # 1
    BY <1>2 DEF Attributed
  <1> QED
    BY <1>1, <1>2

LEMMA ConcludeKeeps ==
    ASSUME ScanInv, pc = "log", NEW found \in Nat, Conclude(found), faults' \in Nat,
           \A s \in Files : scan.sessions = {s} => found <= calls[s]
    PROVE  ScanInv'
  <1> DEFINE session == Attributed(scan.sessions)
             nonEmpty == AsCount(scan.responses - scan.empty)
  <1>1. /\ scan' = [scan EXCEPT !.session = session, !.nonEmpty = nonEmpty,
                                !.calls = found]
        /\ pc' = "done"
        /\ UNCHANGED <<lines, calls, names, file, before>>
    BY DEF Conclude, worldVars
  <1>2. TypeOK /\ file = Sessions + 1
    BY DEF ScanInv, Phases
  <1>3. InWindow' = InWindow /\ Answered' = Answered
    BY <1>1 DEF InWindow, Answered
  <1>4. scan.responses \in Nat /\ scan.empty \in Nat /\ scan.sessions \in SUBSET Files
    BY <1>2 DEF TypeOK
  <1>5. /\ session \in Files \cup {NoSession}
        /\ session # NoSession => scan.sessions = {session}
    <2>1. IsFiniteSet(scan.sessions)
      BY <1>4, FilesFinite, FS_Subset
    <2> QED
      BY <1>4, <2>1, AttributedAlone
  <1>6. nonEmpty \in Nat /\ nonEmpty <= SumOver(Answered, Files)
    <2>1. Answered \in [Files -> Nat]
      BY <1>2, WindowTypes
    <2>2. SumOver(Answered, Files) \in Nat
      BY <1>2, <2>1, SumsOfRanges DEF TypeOK
    <2>3. scan.responses <= SumOver(Answered, Files) + scan.empty
      <3>1. file - 1 = Sessions
        BY <1>2, FilesFinite
      <3>2. scan.responses <= SumOver(Answered, 1..(file - 1)) + scan.empty
        BY DEF ScanInv, CountedSoFar
      <3>3. SumOver(Answered, 1..Sessions) = SumOver(Answered, Files)
        BY SumsAtEnds
      <3> QED
        BY <3>1, <3>2, <3>3, Zenon
    <2> QED
      BY <1>4, <2>2, <2>3 DEF AsCount
  <1> HIDE DEF session, nonEmpty
  <1>7. /\ scan'.requests = scan.requests /\ scan'.responses = scan.responses
        /\ scan'.empty = scan.empty /\ scan'.short = scan.short
        /\ scan'.sessions = scan.sessions /\ scan'.session = session
        /\ scan'.nonEmpty = nonEmpty /\ scan'.calls = found
    BY <1>1, <1>2, Zenon DEF TypeOK
  <1>8. TypeOK'
    <2>1. scan' \in [files : Nat, requests : Nat, responses : Nat, empty : Nat,
                     sessions : SUBSET Files, short : BOOLEAN,
                     session : Files \cup {NoSession}, nonEmpty : Nat, calls : Nat]
      BY <1>1, <1>2, <1>5, <1>6, Zenon DEF TypeOK
    <2> QED
      BY <1>1, <1>2, <2>1 DEF TypeOK
  <1>9. CountedSoFar' /\ NothingMissed' /\ StillActive'
    BY <1>1, <1>3, <1>7
    DEF ScanInv, CountedSoFar, NothingMissed, Listed, StillActive, Active
  <1>10. Phases' /\ Concluded'
    BY <1>1, <1>2, <1>3, <1>5, <1>6, <1>7 DEF Phases, Concluded
  <1> QED
    BY <1>8, <1>9, <1>10 DEF ScanInv

LEMMA ReadLogKeeps == ScanInv /\ ReadLog => ScanInv'
  <1> SUFFICES ASSUME ScanInv, ReadLog PROVE ScanInv'
    OBVIOUS
  <1> DEFINE found == SumOver(calls, Narrowed(scan.sessions))
  <1>1. /\ calls \in [Files -> Nat] /\ faults \in Nat
        /\ scan.sessions \in SUBSET Files
    BY DEF ScanInv, TypeOK
  <1>2. found \in Nat
    <2>1. Narrowed(scan.sessions) \in SUBSET Files
      BY <1>1 DEF Narrowed
    <2>2. IsFiniteSet(Narrowed(scan.sessions))
      BY <2>1, FilesFinite, FS_Subset
    <2> QED
      BY <1>1, <2>1, <2>2, SumType
  <1>3. ASSUME NEW s \in Files, scan.sessions = {s} PROVE found <= calls[s]
    <2>1. Narrowed(scan.sessions) = {s}
      BY <1>3 DEF Narrowed
    <2>2. calls[s] \in Nat /\ SumOver(calls, {s}) = calls[s]
      BY <1>1, SumOfOne
    <2>3. found = calls[s]
      BY <2>1, <2>2, Zenon
    <2> QED
      BY <2>2, <2>3
  <1>4. pc = "log" /\ Conclude(found) /\ faults' \in Nat
    BY <1>1 DEF ReadLog
  <1> HIDE DEF found
  <1> QED
    BY <1>2, <1>3, <1>4, ConcludeKeeps

LEMMA LogErrorKeeps == ScanInv /\ LogError => ScanInv'
  <1> SUFFICES ASSUME ScanInv, LogError PROVE ScanInv'
    OBVIOUS
  <1>1. pc = "log" /\ Conclude(0) /\ faults' \in Nat
    BY DEF LogError, Fault, ScanInv, TypeOK
  <1>2. \A s \in Files : 0 <= calls[s]
    BY DEF ScanInv, TypeOK
  <1> QED
    BY <1>1, <1>2, ConcludeKeeps

LEMMA ReturnKeeps == ScanInv /\ Return => ScanInv'
  <1> SUFFICES ASSUME ScanInv, Return PROVE ScanInv'
    OBVIOUS
  <1>1. /\ pc' = "idle" /\ names' = {} /\ file' = 1 /\ scan' = NoScan
        /\ before' = NothingBefore
        /\ UNCHANGED <<lines, calls, faults>>
    BY DEF Return, worldVars
  <1>2. TypeOK
    BY DEF ScanInv
  <1>3. InWindow' = InWindow /\ Answered' = Answered
    BY <1>1 DEF InWindow, Answered
  <1>4. TypeOK'
    <2>1. 1 \in 1..(Sessions + 1)
      BY FilesFinite
    <2>2. NoScan \in [files : Nat, requests : Nat, responses : Nat, empty : Nat,
                      sessions : SUBSET Files, short : BOOLEAN,
                      session : Files \cup {NoSession}, nonEmpty : Nat, calls : Nat]
      BY DEF NoScan, NoSession
    <2> QED
      BY <1>1, <1>2, <2>1, <2>2 DEF TypeOK, NothingBefore
  <1>5. /\ scan'.requests = 0 /\ scan'.responses = 0 /\ scan'.empty = 0
        /\ before'.requests = 0 /\ before'.active = {}
    BY <1>1 DEF NoScan, NothingBefore
  <1>6. CountedSoFar'
    <2>1. /\ SumOver(InWindow, 1..(file' - 1)) = 0
          /\ SumOver(Answered, 1..(file' - 1)) = 0
      BY <1>1, SumsAtEnds
    <2> QED
      BY <1>3, <1>5, <2>1 DEF CountedSoFar
  <1>7. NothingMissed'
    <2>1. Listed' \in [Files -> Nat]
      BY <1>2, <1>3, WindowTypes DEF Listed
    <2>2. SumOver(Listed', 1..Sessions) \in Nat
      <3> DEFINE l == Listed'
      <3>1. l \in [Files -> Nat] /\ 1 \in 1..(Sessions + 1)
        BY <2>1, FilesFinite
      <3> HIDE DEF l
      <3>2. SumOver(l, 1..Sessions) \in Nat
        BY <3>1, SumsOfRanges
      <3> QED
        BY <3>2 DEF l
    <2> QED
      BY <1>1, <1>5, <2>2 DEF NothingMissed
  <1>8. StillActive' /\ Phases' /\ Concluded'
    BY <1>1, <1>5 DEF StillActive, Phases, Concluded
  <1> QED
    BY <1>4, <1>6, <1>7, <1>8 DEF ScanInv

LEMMA Invariance == Spec => []ScanInv
  <1>1. ScanInv /\ UNCHANGED vars => ScanInv'
    <2> SUFFICES ASSUME ScanInv, UNCHANGED vars PROVE ScanInv'
      OBVIOUS
    <2>1. /\ UNCHANGED <<lines, calls, pc, names, file, scan, before, faults>>
          /\ InWindow' = InWindow /\ Answered' = Answered
      BY DEF vars, worldVars, InWindow, Answered
    <2>2. TypeOK' /\ Phases'
      BY <2>1 DEF ScanInv, TypeOK, Phases
    <2>3. CountedSoFar' /\ NothingMissed' /\ StillActive' /\ Concluded'
      BY <2>1 DEF ScanInv, CountedSoFar, NothingMissed, Listed, StillActive,
                  Active, Concluded
    <2> QED
      BY <2>2, <2>3 DEF ScanInv
  <1>2. ScanInv /\ [Next]_vars => ScanInv'
    BY <1>1, BeginKeeps, PassOverKeeps, UnparsedKeeps, StatKeeps,
       ReadFileKeeps, TruncateKeeps, EndRolloutKeeps, ReadLogKeeps, LogErrorKeeps,
       ReturnKeeps, AppendKeeps, CallKeeps
    DEF Next
  <1> QED
    BY <1>2, InitInv, PTL DEF Spec

----------------------------------------------------------------------------
(* The scan keeps its type invariant, for any sessions and any bounds: no  *)
(* count of a snapshot is negative.                                        *)
THEOREM TypeCorrect == Spec => []TypeOK
  <1>1. ScanInv => TypeOK
    BY DEF ScanInv
  <1> QED
    BY <1>1, Invariance, PTL

(* The counts of a snapshot are no more than what the files hold, and, if  *)
(* no file was left out, no fewer requests than when the scan began.       *)
THEOREM CurrentCounts == Spec => []CountsAreCurrent
  <1>1. ScanInv => CountsAreCurrent
    <2> SUFFICES ASSUME ScanInv, pc = "done" PROVE CountsAreCurrent
      BY DEF CountsAreCurrent
    <2>1. /\ TypeOK /\ file - 1 = Sessions /\ file = Sessions + 1
          /\ scan.nonEmpty <= SumOver(Answered, Files)
      BY FilesFinite DEF ScanInv, Phases, Concluded
    <2>2. scan.requests <= SumOver(InWindow, Files)
      <3>1. scan.requests <= SumOver(InWindow, 1..(file - 1))
        BY DEF ScanInv, CountedSoFar
      <3>2. SumOver(InWindow, 1..Sessions) = SumOver(InWindow, Files)
        BY SumsAtEnds
      <3> QED
        BY <2>1, <3>1, <3>2, Zenon
    <2>3. ASSUME ~ scan.short PROVE before.requests <= scan.requests
      <3>1. before.requests <= scan.requests + SumOver(Listed, file..Sessions)
        BY <2>3 DEF ScanInv, NothingMissed
      <3>2. SumOver(Listed, file..Sessions) = 0
        BY <2>1, SumsAtEnds, Zenon
      <3>3. scan.requests \in Nat /\ before.requests \in Nat
        BY <2>1 DEF TypeOK
      <3> QED
        BY <3>1, <3>2, <3>3
    <2> QED
      BY <2>1, <2>2, <2>3 DEF CountsAreCurrent
  <1> QED
    BY <1>1, Invariance, PTL

(* A session is attributed to the run only if no other one was active when *)
(* the scan began, unless the scan left files out.                         *)
THEOREM LoneSession == Spec => []SessionIsAlone
  <1>1. ScanInv => SessionIsAlone
    <2> SUFFICES ASSUME ScanInv, pc = "done", ~ scan.short, scan.session # NoSession,
                        NEW s \in before.active
                 PROVE  s = scan.session
      BY DEF SessionIsAlone
    <2>1. scan.sessions = {scan.session} /\ file = Sessions + 1
      BY DEF ScanInv, Phases, Concluded
    <2>2. s \in Files
      BY DEF ScanInv, StillActive, Active
    <2>3. s < file
      BY <2>1, <2>2, FilesFinite DEF Files
    <2>4. s \in scan.sessions \/ Cardinality(scan.sessions) >= SessionsPerScan
      BY <2>3 DEF ScanInv, NothingMissed
    <2>5. Cardinality(scan.sessions) = 1
      BY <2>1, FS_Singleton
    <2> QED
      BY <2>1, <2>4, <2>5, ScanAssumption
  <1> QED
    BY <1>1, Invariance, PTL

(* The tool calls of a session that is attributed are all its own.         *)
THEOREM OwnCalls == Spec => []CallsAreItsOwn
  <1>1. ScanInv => CallsAreItsOwn
    BY DEF ScanInv, Concluded, CallsAreItsOwn
  <1> QED
    BY <1>1, Invariance, PTL
(* How many steps the scan may still take until it has a snapshot. *)
StepsLeft ==
    CASE pc = "rollout" -> 2 * (Sessions + 1 - file) + 2
      [] pc = "read"    -> 2 * (Sessions + 1 - file) + 1
      [] pc = "log"     -> 1
      [] OTHER          -> 0

(* A scan that has begun is over after two steps for each session, and two *)
(* more: each step brings it nearer to its end, and the lines that the CLI *)
(* appends to any file meanwhile do not make it longer ("bounded metadata  *)
(* scan", rollout-scanner.mjs:1).                                          *)
ScanEnds ==
    [][(pc \in {"rollout", "read", "log"}) =>
         \/ StepsLeft' < StepsLeft
         \/ StepsLeft' = StepsLeft /\ scan' = scan]_vars

(* No file is looked at twice, however the files grow during the scan. *)
THEOREM ScanIsBounded == Spec => ScanEnds
  <1>1. TypeOK /\ [Next]_vars =>
            (pc \in {"rollout", "read", "log"} =>
                \/ StepsLeft' < StepsLeft
                \/ StepsLeft' = StepsLeft /\ scan' = scan)
    <2> SUFFICES ASSUME TypeOK, [Next]_vars, pc \in {"rollout", "read", "log"}
                 PROVE  \/ StepsLeft' < StepsLeft
                        \/ StepsLeft' = StepsLeft /\ scan' = scan
      OBVIOUS
    <2>0. Sessions \in Nat /\ file \in Nat /\ file <= Sessions + 1
      BY ScanAssumption DEF TypeOK
    <2>1. CASE \/ Unlisted \/ PassOver \/ StatError \/ SkipLarge
               \/ ReadError \/ ReadFile
      <3>1. pc \in {"rollout", "read"} /\ pc' = "rollout" /\ file' = file + 1
        BY <2>1 DEF Unlisted, PassOver, StatError, SkipLarge, ReadError,
           ReadFile, Unparsed, NextFile, AtFile
      <3> QED
        BY <2>0, <3>1 DEF StepsLeft
    <2>1a. CASE Stat
      <3>1. pc = "rollout" /\ pc' = "read" /\ file' = file
        BY <2>1a DEF Stat, AtFile
      <3> QED
        BY <2>0, <3>1 DEF StepsLeft
    <2>2. CASE Truncate
      <3>1. /\ pc = "rollout" /\ pc' = pc /\ file <= Sessions
            /\ file' = Sessions + 1
        BY <2>0, <2>2, NamedFiles DEF Truncate, Files
      <3> QED
        BY <2>0, <3>1 DEF StepsLeft
    <2>3. CASE EndRollout
      <3>1. pc = "rollout" /\ pc' = "log"
        BY <2>3 DEF EndRollout
      <3> QED
        BY <2>0, <3>1 DEF StepsLeft
    <2>4. CASE ReadLog \/ LogError
      <3>1. pc = "log" /\ pc' = "done"
        BY <2>4 DEF ReadLog, LogError, Conclude
      <3> QED
        BY <3>1 DEF StepsLeft
    <2>5. CASE Append \/ Call \/ UNCHANGED vars
      BY <2>5 DEF Append, Call, vars, StepsLeft
    <2> QED
      BY <2>1, <2>1a, <2>2, <2>3, <2>4, <2>5
         DEF Next, Begin, BeginError, StartWith, Return
  <1> QED
    BY <1>1, TypeCorrect, PTL DEF Spec, ScanEnds
=============================================================================
