-------------------------- MODULE VetStatusProofs --------------------------
(* Proofs about the alarm board of VetStatus.                              *)
EXTENDS VetStatus, FiniteSetTheorems, WellFoundedInduction, TLAPS

-----------------------------------------------------------------------------
(* Newest-first lists.                                                     *)

\* A finite list that is not empty has a last element.
LEMMA OldestExists ==
    ASSUME NEW S, S # {}, IsFiniteSet(S), \A r \in S : r.pos \in Nat
    PROVE  Oldest(S) \in S /\ \A q \in S : q.pos <= Oldest(S).pos
<1> DEFINE After(r) == {q \in S : r.pos < q.pos}
           T == {After(r) : r \in S}
<1>1. T \subseteq FiniteSubsetsOf(S) /\ T # {}
  <2>1. \A r \in S : After(r) \subseteq S /\ IsFiniteSet(After(r))
    BY FS_Subset
  <2> QED
    BY <2>1 DEF FiniteSubsetsOf
<1>2. PICK D \in T : \A E \in T : ~(<<E, D>> \in StrictSubsetOrdering(S))
  BY <1>1, WFMin, FS_StrictSubsetOrderingWellFounded
<1>3. PICK r \in S : D = After(r)
  BY <1>2
<1>4. ASSUME NEW q \in S, ~(q.pos <= r.pos) PROVE FALSE
  <2>1. r.pos < q.pos
    BY <1>4
  <2>2. After(q) \subseteq After(r)
    BY <2>1
  <2>3. q \in After(r) /\ q \notin After(q)
    BY <2>1
  <2>4. <<After(q), After(r)>> \in StrictSubsetOrdering(S)
    BY <2>2, <2>3 DEF StrictSubsetOrdering
  <2> QED
    BY <1>2, <1>3, <2>4
<1> QED
  BY <1>4 DEF Oldest

\* A finite list that is not empty has a first element.
LEMMA NewestExists ==
    ASSUME NEW S, S # {}, IsFiniteSet(S), \A r \in S : r.pos \in Nat
    PROVE  Newest(S) \in S /\ \A q \in S : Newest(S).pos <= q.pos
<1> DEFINE Before(r) == {q \in S : q.pos < r.pos}
           T == {Before(r) : r \in S}
<1>1. T \subseteq FiniteSubsetsOf(S) /\ T # {}
  <2>1. \A r \in S : Before(r) \subseteq S /\ IsFiniteSet(Before(r))
    BY FS_Subset
  <2> QED
    BY <2>1 DEF FiniteSubsetsOf
<1>2. PICK D \in T : \A E \in T : ~(<<E, D>> \in StrictSubsetOrdering(S))
  BY <1>1, WFMin, FS_StrictSubsetOrderingWellFounded
<1>3. PICK r \in S : D = Before(r)
  BY <1>2
<1>4. ASSUME NEW q \in S, ~(r.pos <= q.pos) PROVE FALSE
  <2>1. q.pos < r.pos
    BY <1>4
  <2>2. Before(q) \subseteq Before(r)
    BY <2>1
  <2>3. q \in Before(r) /\ q \notin Before(q)
    BY <2>1
  <2>4. <<Before(q), Before(r)>> \in StrictSubsetOrdering(S)
    BY <2>2, <2>3 DEF StrictSubsetOrdering
  <2> QED
    BY <1>2, <1>3, <2>4
<1> QED
  BY <1>4 DEF Newest

\* Closing the gaps of a list adds no element.
LEMMA RenumberFinite ==
    ASSUME NEW S, IsFiniteSet(S)
    PROVE  /\ IsFiniteSet(Renumber(S))
           /\ Cardinality(Renumber(S)) <= Cardinality(S)
<1> DEFINE f == [r \in S |-> [r EXCEPT !.pos = Cardinality({q \in S : q.pos < r.pos})]]
<1>1. f \in Surjection(S, Renumber(S))
  BY DEF Surjection, Renumber
<1> QED
  BY <1>1, FS_Surjection

-----------------------------------------------------------------------------
(* Boards.                                                                 *)

OnePerGroup(A) == \A r, q \in A : r.group = q.group => r = q

Board(A) ==
    /\ A \subseteq Row
    /\ IsFiniteSet(A)
    /\ Cardinality(A) <= AlarmMax
    /\ OnePerGroup(A)

\* Renumber keeps everything of a row but its position.
LEMMA RenumberRows ==
    ASSUME NEW S, S \subseteq Row
    PROVE  /\ \A x \in Renumber(S) : \E r \in S :
                  x = [r EXCEPT !.pos = Cardinality({q \in S : q.pos < r.pos})]
           /\ \A x \in Renumber(S) : \E r \in S :
                  /\ x.id = r.id /\ x.group = r.group /\ x.sev = r.sev
                  /\ x.age = r.age /\ x.count = r.count
           /\ \A r \in S : \E x \in Renumber(S) :
                  /\ x.id = r.id /\ x.group = r.group /\ x.sev = r.sev
                  /\ x.age = r.age /\ x.count = r.count
<1> DEFINE at(r) == Cardinality({q \in S : q.pos < r.pos})
           moved(r) == [r EXCEPT !.pos = at(r)]
<1>1. \A r \in S : /\ moved(r).id = r.id /\ moved(r).group = r.group
                    /\ moved(r).sev = r.sev /\ moved(r).age = r.age
                    /\ moved(r).count = r.count
  <2> HIDE DEF at
  <2> QED BY DEF Row
<1>2. Renumber(S) = {moved(r) : r \in S}
  BY DEF Renumber
<1>3. \A x \in Renumber(S) : \E r \in S : x = moved(r)
  BY <1>2
<1>4. \A r \in S : moved(r) \in Renumber(S)
  BY <1>2
<1>5. \A x \in Renumber(S) : \E r \in S :
         x = [r EXCEPT !.pos = Cardinality({q \in S : q.pos < r.pos})]
  BY <1>3
<1> HIDE DEF moved
<1> QED
  BY <1>1, <1>3, <1>4, <1>5

\* A bounded list with one row per group is a board once it is renumbered.
LEMMA RenumberBoard ==
    ASSUME NEW S, S \subseteq Row, IsFiniteSet(S),
           Cardinality(S) <= AlarmMax, OnePerGroup(S)
    PROVE  Board(Renumber(S))
<1>1. IsFiniteSet(Renumber(S)) /\ Cardinality(Renumber(S)) <= AlarmMax
  <2>1. /\ IsFiniteSet(Renumber(S))
        /\ Cardinality(Renumber(S)) <= Cardinality(S)
    BY RenumberFinite
  <2>2. Cardinality(S) \in Nat /\ Cardinality(Renumber(S)) \in Nat
    BY <2>1, FS_CardinalityType
  <2> QED
    BY <2>1, <2>2, BoardAssumption
<1>2. ASSUME NEW x \in Renumber(S) PROVE x \in Row
  <2>1. PICK r \in S : x = [r EXCEPT !.pos = Cardinality({q \in S : q.pos < r.pos})]
    BY DEF Renumber
  <2> DEFINE B == {q \in S : q.pos < r.pos}
  <2>2. IsFiniteSet(B) /\ Cardinality(B) <= Cardinality(S)
    BY FS_Subset
  <2>3. Cardinality(B) \in Nat
    BY <2>2, FS_CardinalityType
  <2>4. r \in Row
    OBVIOUS
  <2> HIDE DEF B
  <2>5. x = [r EXCEPT !.pos = Cardinality(B)]
    BY <2>1 DEF B
  <2> QED
    BY <2>3, <2>4, <2>5 DEF Row
<1>3. ASSUME NEW x \in Renumber(S), NEW y \in Renumber(S), x.group = y.group
      PROVE  x = y
  <2> DEFINE at(r) == Cardinality({q \in S : q.pos < r.pos})
  <2>1. PICK r \in S : x = [r EXCEPT !.pos = at(r)]
    BY DEF Renumber
  <2>2. PICK q \in S : y = [q EXCEPT !.pos = at(q)]
    BY DEF Renumber
  <2> HIDE DEF at
  <2>3. r.group = q.group
    BY <1>3, <2>1, <2>2 DEF Row
  <2> QED
    BY <2>1, <2>2, <2>3 DEF OnePerGroup
<1> QED
  BY <1>1, <1>2, <1>3 DEF Board, OnePerGroup

\* Dropping rows from a board leaves a board.
LEMMA SubBoard ==
    ASSUME NEW A, Board(A), NEW B, B \subseteq A
    PROVE  Board(Renumber(B))
<1>1. IsFiniteSet(B) /\ Cardinality(B) <= Cardinality(A)
  BY FS_Subset DEF Board
<1>2. Cardinality(B) <= AlarmMax
  BY <1>1, FS_CardinalityType, BoardAssumption DEF Board
<1>3. OnePerGroup(B) /\ B \subseteq Row
  BY DEF Board, OnePerGroup
<1> QED
  BY <1>1, <1>2, <1>3, RenumberBoard

LEMMA NewRowType ==
    ASSUME NEW i \in Ids, NEW sev \in Severity
    PROVE  NewRow(i, sev) \in Row /\ NewRow(i, sev).group = GroupOf[i]
  BY BoardAssumption DEF NewRow, Row

\* unshift onto a board without the group of x.
LEMMA PushOne ==
    ASSUME NEW A, Board(A), NEW x \in Row, \A r \in A : r.group # x.group
    PROVE  /\ Push(A, x) \subseteq Row
           /\ IsFiniteSet(Push(A, x))
           /\ Cardinality(Push(A, x)) <= Cardinality(A) + 1
           /\ OnePerGroup(Push(A, x))
<1> DEFINE up == [r \in A |-> [r EXCEPT !.pos = @ + 1]]
           U  == {[r EXCEPT !.pos = @ + 1] : r \in A}
           h  == [x EXCEPT !.pos = 0]
<1>1. up \in Surjection(A, U)
  BY DEF Surjection
<1>2. IsFiniteSet(U) /\ Cardinality(U) <= Cardinality(A)
  BY <1>1, FS_Surjection DEF Board
<1>3. Push(A, x) = U \cup {h}
  BY DEF Push
<1>4. /\ IsFiniteSet(U \cup {h})
      /\ Cardinality(U \cup {h}) <= Cardinality(A) + 1
  <2> HIDE DEF U, h
  <2>1. Cardinality(U) \in Nat /\ Cardinality(A) \in Nat
    BY <1>2, FS_CardinalityType DEF Board
  <2>2. /\ IsFiniteSet(U \cup {h})
        /\ Cardinality(U \cup {h}) = IF h \in U THEN Cardinality(U) ELSE Cardinality(U) + 1
    BY <1>2, FS_AddElement
  <2> QED
    BY <1>2, <2>1, <2>2
<1>5. Push(A, x) \subseteq Row
  BY BoardAssumption DEF Push, Board, Row
<1>6. OnePerGroup(Push(A, x))
  BY DEF Push, OnePerGroup, Board, Row
<1> QED
  BY <1>3, <1>4, <1>5, <1>6

\* trimToMax brings a list that is one row too long back to a board.
LEMMA TrimBoard ==
    ASSUME NEW S, S \subseteq Row, IsFiniteSet(S),
           Cardinality(S) <= AlarmMax + 1, OnePerGroup(S)
    PROVE  Board(TrimToMax(S))
<1> DEFINE calm == {r \in S : r.sev # "red"}
           victim == IF calm = {} THEN Oldest(S) ELSE Oldest(calm)
<1>1. Cardinality(S) \in Nat
  BY FS_CardinalityType
<1>2. CASE Cardinality(S) <= AlarmMax
  BY <1>2 DEF TrimToMax, Board
<1>3. CASE Cardinality(S) > AlarmMax
  <2>1. victim \in S
    <3>1. IsFiniteSet(calm)
      BY FS_Subset
    <3>2. \A r \in S : r.pos \in Nat
      BY DEF Row
    <3>3. S # {}
      BY <1>3, FS_EmptySet, BoardAssumption
    <3> QED
      BY <3>1, <3>2, <3>3, OldestExists
  <2> HIDE DEF victim
  <2>2. IsFiniteSet(S \ {victim}) /\ Cardinality(S \ {victim}) = Cardinality(S) - 1
    BY <2>1, FS_RemoveElement
  <2>3. Cardinality(S \ {victim}) <= AlarmMax
    BY <1>1, <2>2, BoardAssumption
  <2>4. Board(Renumber(S \ {victim}))
    BY <2>2, <2>3, RenumberBoard DEF OnePerGroup
  <2> QED
    BY <1>1, <1>3, <2>4, BoardAssumption DEF TrimToMax, victim
<1> QED
  BY <1>1, <1>2, <1>3, BoardAssumption

-----------------------------------------------------------------------------
(* record().                                                               *)

\* A group has one row at most, so the row it meets is the only one.
LEMMA RecentRow ==
    ASSUME NEW A, Board(A), NEW g, Recent(A, g) # {}
    PROVE  /\ Newest(Recent(A, g)) \in A
           /\ Newest(Recent(A, g)).group = g
           /\ \A r \in A : r.group = g => r = Newest(Recent(A, g))
<1>1. PICK r \in Recent(A, g) : TRUE
  OBVIOUS
<1>2. r \in A /\ r.group = g /\ r.pos <= r.pos
  BY <1>1 DEF Recent, Rows, Board, Row
<1>3. \A q \in Recent(A, g) : q = r
  BY <1>2 DEF Recent, Rows, Board, OnePerGroup
<1>4. Newest(Recent(A, g)) = r
  BY <1>1, <1>2, <1>3 DEF Newest
<1> QED
  BY <1>2, <1>4 DEF Board, OnePerGroup

\* The list record() trims: the board without the group, below the new row.
LEMMA ReplacedList ==
    ASSUME NEW A, Board(A), NEW i \in Ids, NEW sev \in Severity,
           NEW B, B = Renumber(A \ Rows(A, GroupOf[i])),
           NEW S, S = Push(B, NewRow(i, sev))
    PROVE  /\ Board(B) /\ \A r \in B : r.group # GroupOf[i]
           /\ S \subseteq Row /\ IsFiniteSet(S) /\ OnePerGroup(S)
           /\ Cardinality(S) <= Cardinality(B) + 1
<1>1. Board(B)
  BY SubBoard
<1>2. \A r \in B : r.group # GroupOf[i]
  BY RenumberRows DEF Rows, Board
<1> QED
  BY <1>1, <1>2, NewRowType, PushOne

LEMMA MergedType ==
    ASSUME NEW r \in Row, NEW sev \in Severity
    PROVE  Merged(r, sev) \in Row /\ Merged(r, sev).group = r.group
<1>1. 0 \in 0..(Ttl + 1) /\ r.count + 1 \in Nat \ {0}
  BY BoardAssumption DEF Row
<1> DEFINE c == r.count + 1
           v == IF sev = "red" THEN "red" ELSE r.sev
<1>2. v \in Severity /\ c \in Nat \ {0}
  BY <1>1 DEF Severity, Row
<1>3. Merged(r, sev) = [r EXCEPT !.count = c, !.age = 0, !.sev = v]
  BY DEF Merged
<1> HIDE DEF c, v
<1> QED
  BY <1>1, <1>2, <1>3 DEF Row

\* record() leaves a board.
LEMMA RecordedBoard ==
    ASSUME NEW A, Board(A), NEW i \in Ids, NEW sev \in Severity
    PROVE  Board(Recorded(A, i, sev))
<1> DEFINE g == GroupOf[i]
<1>1. CASE Recent(A, g) # {}
  <2> DEFINE r == Newest(Recent(A, g))
             m == Merged(r, sev)
  <2>1. r \in A /\ r.group = g /\ \A q \in A : q.group = g => q = r
    BY <1>1, RecentRow
  <2> HIDE DEF r
  <2>2. m \in Row /\ m.group = g
    BY <2>1, MergedType DEF Board
  <2> HIDE DEF m
  <2>3. IsFiniteSet(A \ {r}) /\ Cardinality(A \ {r}) = Cardinality(A) - 1
    BY <2>1, FS_RemoveElement DEF Board
  <2>4. /\ IsFiniteSet((A \ {r}) \cup {m})
        /\ Cardinality((A \ {r}) \cup {m}) = IF m \in A \ {r} THEN Cardinality(A \ {r})
                                             ELSE Cardinality(A \ {r}) + 1
    BY <2>3, FS_AddElement
  <2>5. Cardinality(A) \in Nat
    BY FS_CardinalityType DEF Board
  <2>6. Cardinality((A \ {r}) \cup {m}) <= AlarmMax
    BY <2>3, <2>4, <2>5, BoardAssumption DEF Board
  <2>7. OnePerGroup((A \ {r}) \cup {m})
    BY <2>1, <2>2 DEF OnePerGroup, Board
  <2>8. Recorded(A, i, sev) = (A \ {r}) \cup {m}
    BY <1>1 DEF Recorded, r, m
  <2> QED
    BY <2>2, <2>4, <2>6, <2>7, <2>8 DEF Board
<1>2. CASE Recent(A, g) = {}
  <2> DEFINE B == Renumber(A \ Rows(A, g))
             S == Push(B, NewRow(i, sev))
  <2>1. /\ Board(B)
        /\ S \subseteq Row /\ IsFiniteSet(S) /\ OnePerGroup(S)
        /\ Cardinality(S) <= Cardinality(B) + 1
    BY ReplacedList
  <2>2. Cardinality(S) <= AlarmMax + 1
    BY <2>1, FS_CardinalityType, BoardAssumption DEF Board
  <2>3. Board(TrimToMax(S))
    BY <2>1, <2>2, TrimBoard
  <2> QED
    BY <1>2, <2>3 DEF Recorded
<1> QED
  BY <1>1, <1>2

-----------------------------------------------------------------------------
(* The other parts of a step.                                              *)

\* Rewriting rows without moving them between groups keeps a board.
LEMMA MappedBoard ==
    ASSUME NEW A, Board(A), NEW f \in [A -> Row], \A r \in A : f[r].group = r.group
    PROVE  Board({f[r] : r \in A})
<1> DEFINE T == {f[r] : r \in A}
<1>1. f \in Surjection(A, T)
  BY DEF Surjection
<1>2. IsFiniteSet(T) /\ Cardinality(T) <= Cardinality(A)
  BY <1>1, FS_Surjection DEF Board
<1>3. Cardinality(T) <= AlarmMax
  BY <1>2, FS_CardinalityType, BoardAssumption DEF Board
<1>4. T \subseteq Row /\ OnePerGroup(T)
  BY DEF OnePerGroup, Board
<1> QED
  BY <1>2, <1>3, <1>4 DEF Board

LEMMA CountedBoard ==
    ASSUME NEW A, Board(A), NEW i, NEW n \in Nat \ {0}
    PROVE  Board(Counted(A, i, n))
<1> DEFINE f == [r \in A |-> IF r.id = i THEN [r EXCEPT !.count = n] ELSE r]
<1>1. f \in [A -> Row] /\ \A r \in A : f[r].group = r.group
  BY DEF Board, Row
<1>2. Counted(A, i, n) = {f[r] : r \in A}
  BY DEF Counted
<1> HIDE DEF f
<1>3. Board({f[r] : r \in A})
  BY <1>1, MappedBoard
<1> QED
  BY <1>2, <1>3

LEMMA UnexpiredBoard ==
    ASSUME NEW A, Board(A)
    PROVE  Board(Unexpired(A))
  BY SubBoard DEF Unexpired

LEMMA BookkeepingType ==
    /\ \A A : \A M \in [AggIds -> SUBSET Plugins] :
           MembersOf(A, M) \in [AggIds -> SUBSET Plugins]
    /\ \A A : \A aff \in [Plugins -> AggIds \cup {NoAdvisory}] :
           StillOn(A, aff) \in [Plugins -> AggIds \cup {NoAdvisory}]
    /\ \A A, i, sev : FoldsAfter(A, i, sev) \subseteq dismissed
    /\ \A A, D : FoldsOf(A, D) \subseteq D
  BY DEF MembersOf, StillOn, FoldsAfter, FoldsOf

DiskOK == /\ disk \subseteq [name : Names, pos : Nat]
          /\ IsFiniteSet(disk)
          /\ cached \subseteq Names

LEMMA RenumberDisk ==
    ASSUME NEW D, D \subseteq [name : Names, pos : Nat], IsFiniteSet(D)
    PROVE  Renumber(D) \subseteq [name : Names, pos : Nat] /\ IsFiniteSet(Renumber(D))
<1>1. ASSUME NEW x \in Renumber(D) PROVE x \in [name : Names, pos : Nat]
  <2>1. PICK e \in D : x = [e EXCEPT !.pos = Cardinality({q \in D : q.pos < e.pos})]
    BY DEF Renumber
  <2> DEFINE n == Cardinality({q \in D : q.pos < e.pos})
  <2>2. n \in Nat
    BY FS_Subset, FS_CardinalityType
  <2> HIDE DEF n
  <2>3. x = [e EXCEPT !.pos = n]
    BY <2>1 DEF n
  <2> QED
    BY <2>2, <2>3
<1> QED
  BY <1>1, RenumberFinite

LEMMA UnfoldDiskType ==
    ASSUME DiskOK, NEW n, NEW ok, UnfoldOnDisk(n, ok)
    PROVE  DiskOK'
<1>1. IsFiniteSet({e \in disk : e.name # n})
  BY FS_Subset DEF DiskOK
<1>2. /\ Renumber({e \in disk : e.name # n}) \subseteq [name : Names, pos : Nat]
      /\ IsFiniteSet(Renumber({e \in disk : e.name # n}))
  BY <1>1, RenumberDisk DEF DiskOK
<1> QED
  BY <1>2 DEF DiskOK, UnfoldOnDisk, Names

LEMMA FoldDiskType ==
    ASSUME DiskOK, NEW n \in Names, NEW ok, FoldOnDisk(n, ok)
    PROVE  DiskOK'
<1> DEFINE D == Renumber({e \in disk : e.name # n})
           x == [name |-> n, pos |-> 0]
           U == {[e EXCEPT !.pos = @ + 1] : e \in D}
           L == Push(D, x)
<1>1. D \subseteq [name : Names, pos : Nat] /\ IsFiniteSet(D)
  <2>1. IsFiniteSet({e \in disk : e.name # n})
    BY FS_Subset DEF DiskOK
  <2> QED
    BY <2>1, RenumberDisk DEF DiskOK
<1> HIDE DEF D
<1>2. L \subseteq [name : Names, pos : Nat]
  BY <1>1 DEF Push
<1>3. IsFiniteSet(L)
  <2> DEFINE f == [e \in D |-> [e EXCEPT !.pos = @ + 1]]
  <2>1. f \in Surjection(D, U)
    BY DEF Surjection
  <2>2. IsFiniteSet(U)
    BY <1>1, <2>1, FS_Surjection
  <2>3. L = U \cup {[x EXCEPT !.pos = 0]}
    BY DEF Push
  <2> HIDE DEF U, L, x
  <2> QED
    BY <2>2, <2>3, FS_AddElement
<1> DEFINE K == {e \in L : e.pos < DismissedMax}
<1>4. K \subseteq [name : Names, pos : Nat] /\ IsFiniteSet(K)
  <2> HIDE DEF L
  <2>1. K \subseteq L
    OBVIOUS
  <2> QED
    BY <1>2, <1>3, <2>1, FS_Subset
<1>5. disk' = IF ok THEN K ELSE disk
  BY DEF FoldOnDisk, D
<1>6. cached' \subseteq Names
  BY DEF FoldOnDisk, DiskOK, Names
<1> HIDE DEF K
<1>7. disk' = K \/ disk' = disk
  BY <1>5
<1> QED
  BY <1>4, <1>6, <1>7 DEF DiskOK, Names

-----------------------------------------------------------------------------
(* The inductive invariant.                                                *)

\* The type invariant, with the board and the fold list finite (a cardinality
\* means nothing otherwise) and BoardBounded, on which record() relies.
IInv == TypeOK /\ Board(alarms) /\ DiskOK

LEMMA IInvInit == Init => IInv
<1> SUFFICES ASSUME Init PROVE IInv
  OBVIOUS
<1>1. IsFiniteSet({}) /\ Cardinality({}) = 0
  BY FS_EmptySet
<1>2. Board(alarms) /\ DiskOK
  BY <1>1, BoardAssumption DEF Init, Board, DiskOK, OnePerGroup
<1>3. TypeOK
  BY DEF Init, TypeOK
<1> QED
  BY <1>2, <1>3 DEF IInv

LEMMA DiskAfterType ==
    ASSUME IInv, NEW A, NEW i \in Ids, NEW sev, NEW ok, DiskAfter(A, i, sev, ok)
    PROVE  DiskOK'
<1>1. CASE UnfoldOnDisk(GroupOf[i], ok)
  BY <1>1, UnfoldDiskType DEF IInv
<1>2. CASE UNCHANGED <<disk, cached>>
  BY <1>2 DEF IInv, DiskOK, Names
<1> QED
  BY <1>1, <1>2 DEF DiskAfter

\* The parts of IInv a step has to re-establish.
LEMMA IInvParts ==
    ASSUME Board(alarms'), DiskOK',
           members' \in [AggIds -> SUBSET Plugins],
           dismissed' \subseteq Names,
           affected' \in [Plugins -> AggIds \cup {NoAdvisory}]
    PROVE  IInv'
  BY DEF IInv, TypeOK, DiskOK, Board, Names, Row, Severity, NoAdvisory, OnePerGroup

LEMMA RuntimeAlarmInv ==
    ASSUME IInv, NEW i \in Ids, NEW sev \in Severity, NEW ok \in SaveOutcomes,
           RuntimeAlarm(i, sev, ok)
    PROVE  IInv'
<1> DEFINE live == Unexpired(alarms)
           next == Recorded(live, i, sev)
<1>1. Board(next)
  BY UnexpiredBoard, RecordedBoard DEF IInv
<1>2. DiskOK'
  BY DiskAfterType DEF RuntimeAlarm
<1>3. /\ alarms' = next
      /\ members' = MembersOf(live, members)
      /\ dismissed' = FoldsAfter(live, i, sev)
      /\ affected' = StillOn(next, StillOn(live, affected))
  BY DEF RuntimeAlarm
<1>4. Board(alarms')
  BY <1>1, <1>3
<1> HIDE DEF live, next
<1>5. /\ members' \in [AggIds -> SUBSET Plugins]
      /\ dismissed' \subseteq Names
      /\ affected' \in [Plugins -> AggIds \cup {NoAdvisory}]
  BY <1>3, BookkeepingType DEF IInv, TypeOK
<1> QED
  BY <1>2, <1>4, <1>5, IInvParts

LEMMA NoteVerdictInv ==
    ASSUME IInv, NEW p \in Plugins, NEW i \in VerdictIds, NEW sev \in Severity,
           NEW ok \in SaveOutcomes, NoteVerdict(p, i, sev, ok)
    PROVE  IInv'
<1> DEFINE live  == Unexpired(alarms)
           next  == Recorded(live, i, sev)
           folds == FoldsAfter(live, i, sev)
           gone  == StaleVerdicts(next, p, {i}, folds \cup cached')
                    \cup {r \in next : r.id \in Orphans(MembersOf(live, members), p, {i})}
           rows  == Renumber(next \ gone)
           all   == Joined(live, p, i)
           aff   == StillOn(rows, StillOn(live, affected))
           back  == IF i \in AggIds /\ RowsOf(rows, i) # {} THEN i ELSE NoAdvisory
<1>1. i \in Ids
  BY BoardAssumption DEF VerdictIds
<1>2. Board(next)
  BY <1>1, UnexpiredBoard, RecordedBoard DEF IInv
<1>3. DiskOK'
  BY <1>1, DiskAfterType DEF NoteVerdict
<1>4. Board(rows)
  <2> HIDE DEF next, gone
  <2> QED BY <1>2, SubBoard
<1>5. /\ alarms' = IF i \in AggIds THEN Counted(rows, i, Cardinality(all[i])) ELSE rows
      /\ members' = all
      /\ dismissed' = folds
      /\ affected' = [aff EXCEPT ![p] = back]
  BY DEF NoteVerdict
<1>6. all \in [AggIds -> SUBSET Plugins]
  BY BookkeepingType DEF Joined, IInv, TypeOK
<1>7. ASSUME i \in AggIds PROVE Cardinality(all[i]) \in Nat \ {0}
  <2>1. p \in all[i] /\ all[i] \subseteq Plugins
    BY <1>6, <1>7 DEF Joined
  <2> HIDE DEF all
  <2>2. IsFiniteSet(all[i])
    BY <2>1, FS_Subset, BoardAssumption
  <2> QED
    BY <2>1, <2>2, FS_CardinalityType, FS_EmptySet
<1>8. Board(alarms')
  <2> HIDE DEF rows, all
  <2> QED BY <1>4, <1>5, <1>7, CountedBoard
<1>9. aff \in [Plugins -> AggIds \cup {NoAdvisory}]
  <2> HIDE DEF rows, live
  <2> QED BY BookkeepingType DEF IInv, TypeOK
<1>10. folds \subseteq Names
  BY BookkeepingType DEF IInv, TypeOK
<1>11. back \in AggIds \cup {NoAdvisory}
  OBVIOUS
<1> HIDE DEF aff, all, folds, rows, back
<1> QED
  BY <1>3, <1>5, <1>6, <1>8, <1>9, <1>10, <1>11, IInvParts

LEMMA NoteCleanInv ==
    ASSUME IInv, NEW p \in Plugins, NoteClean(p)
    PROVE  IInv'
<1> DEFINE gone == StaleVerdicts(alarms, p, {}, dismissed \cup cached)
                   \cup {r \in alarms : r.id \in Orphans(members, p, {})}
           left == [a \in AggIds |-> members[a] \ {p}]
           rows == Renumber(alarms \ gone)
           shrunk(r) == r.id \in AggIds /\ p \in members[r.id]
           f == [r \in rows |-> IF shrunk(r) THEN [r EXCEPT !.count = Cardinality(left[r.id])] ELSE r]
<1>1. Board(rows)
  <2> HIDE DEF gone
  <2> QED BY SubBoard DEF IInv
<1>2. ASSUME NEW r \in rows, shrunk(r) PROVE Cardinality(left[r.id]) \in Nat \ {0}
  <2>1. PICK q \in alarms \ gone : q.id = r.id
    <3> HIDE DEF gone
    <3> QED BY RenumberRows DEF IInv, Board
  <2>2. members[r.id] # {p} /\ left[r.id] = members[r.id] \ {p}
    BY <1>2, <2>1 DEF Orphans
  <2>3. members[r.id] \subseteq Plugins
    BY <1>2 DEF IInv, TypeOK
  <2>4. IsFiniteSet(left[r.id]) /\ left[r.id] # {}
    BY <1>2, <2>2, <2>3, FS_Subset, BoardAssumption
  <2> QED
    BY <2>4, FS_CardinalityType, FS_EmptySet
<1>3. f \in [rows -> Row] /\ \A r \in rows : f[r].group = r.group
  <2>1. rows \subseteq Row
    BY <1>1 DEF Board
  <2>2. ASSUME NEW r \in rows PROVE f[r] \in Row /\ f[r].group = r.group
    <3> DEFINE c == Cardinality(left[r.id])
    <3>1. CASE shrunk(r)
      <4>1. c \in Nat \ {0}
        BY <1>2, <3>1
      <4>2. f[r] = [r EXCEPT !.count = c] /\ r \in Row
        BY <2>1, <3>1
      <4> HIDE DEF c, f, rows
      <4> QED BY <4>1, <4>2 DEF Row
    <3>2. CASE ~shrunk(r)
      BY <2>1, <3>2
    <3> QED
      BY <3>1, <3>2
  <2> QED
    BY <2>2
<1>4. alarms' = {f[r] : r \in rows}
  BY DEF NoteClean
<1>5. Board(alarms')
  <2> HIDE DEF f, rows
  <2>1. Board({f[r] : r \in rows})
    BY <1>1, <1>3, MappedBoard
  <2> QED BY <1>4, <2>1
<1>6. /\ members' = left
      /\ affected' = [StillOn(rows, affected) EXCEPT ![p] = NoAdvisory]
      /\ dismissed' = dismissed /\ disk' = disk /\ cached' = cached
  BY DEF NoteClean
<1>7. left \in [AggIds -> SUBSET Plugins]
  BY DEF IInv, TypeOK
<1>8. StillOn(rows, affected) \in [Plugins -> AggIds \cup {NoAdvisory}]
  <2> HIDE DEF rows
  <2> QED BY BookkeepingType DEF IInv, TypeOK
<1>9. DiskOK' /\ dismissed' \subseteq Names
  BY <1>6 DEF IInv, TypeOK, DiskOK, Names
<1> HIDE DEF rows, left
<1>10. /\ members' \in [AggIds -> SUBSET Plugins]
       /\ affected' \in [Plugins -> AggIds \cup {NoAdvisory}]
  BY <1>6, <1>7, <1>8
<1> QED
  BY <1>5, <1>9, <1>10, IInvParts

LEMMA FoldNameType ==
    ASSUME IInv, NEW i \in Ids
    PROVE  FoldName(alarms, i) \in Names
<1>1. CASE RowsOf(alarms, i) = {}
  BY <1>1 DEF FoldName, Names
<1>2. CASE RowsOf(alarms, i) # {}
  <2> DEFINE S == RowsOf(alarms, i)
  <2>1. Newest(S) \in S
    <3>1. IsFiniteSet(S) /\ \A r \in S : r.pos \in Nat
      BY FS_Subset DEF RowsOf, IInv, Board, Row
    <3> QED
      BY <1>2, <3>1, NewestExists
  <2> QED
    BY <1>2, <2>1 DEF FoldName, Names, RowsOf, IInv, Board, Row
<1> QED
  BY <1>1, <1>2

LEMMA PanelInv ==
    ASSUME IInv, NEW i \in Ids, NEW ok \in SaveOutcomes,
           Dismiss(i, ok) \/ Restore(i, ok)
    PROVE  IInv'
<1> DEFINE n == FoldName(alarms, i)
<1>1. n \in Names
  BY FoldNameType
<1>2. DiskOK'
  <2>1. CASE Dismiss(i, ok)
    BY <1>1, <2>1, FoldDiskType DEF Dismiss, IInv
  <2>2. CASE Restore(i, ok)
    BY <2>2, UnfoldDiskType DEF Restore, IInv
  <2> QED
    BY <2>1, <2>2
<1>3. /\ alarms' = alarms /\ members' = members /\ affected' = affected
      /\ dismissed' \subseteq dismissed \cup {n}
  BY DEF Dismiss, Restore
<1>4. Board(alarms')
  BY <1>3 DEF IInv
<1> HIDE DEF n
<1>5. /\ members' \in [AggIds -> SUBSET Plugins]
      /\ affected' \in [Plugins -> AggIds \cup {NoAdvisory}]
      /\ dismissed' \subseteq Names
  BY <1>1, <1>3 DEF IInv, TypeOK
<1> QED
  BY <1>2, <1>4, <1>5, IInvParts

LEMMA SnapshotInv ==
    ASSUME IInv, Snapshot
    PROVE  IInv'
<1>1. Board(alarms')
  BY UnexpiredBoard DEF Snapshot, IInv
<1>2. DiskOK'
  BY DEF Snapshot, IInv, DiskOK, Names
<1>3. /\ members' \in [AggIds -> SUBSET Plugins]
      /\ dismissed' \subseteq Names
      /\ affected' \in [Plugins -> AggIds \cup {NoAdvisory}]
  BY BookkeepingType DEF Snapshot, IInv, TypeOK
<1> QED
  BY <1>1, <1>2, <1>3, IInvParts

LEMMA TickInv ==
    ASSUME IInv, Tick
    PROVE  IInv'
<1> DEFINE f == [r \in alarms |-> [r EXCEPT !.age = IF @ <= Ttl THEN @ + 1 ELSE @]]
<1>1. f \in [alarms -> Row] /\ \A r \in alarms : f[r].group = r.group
  BY BoardAssumption DEF IInv, Board, Row
<1>2. alarms' = {f[r] : r \in alarms}
  BY DEF Tick
<1>3. Board(alarms')
  <2> HIDE DEF f
  <2>1. Board({f[r] : r \in alarms})
    BY <1>1, MappedBoard DEF IInv
  <2> QED BY <1>2, <2>1
<1>4. DiskOK'
  BY DEF Tick, IInv, DiskOK, Names
<1>5. /\ members' \in [AggIds -> SUBSET Plugins]
      /\ dismissed' \subseteq Names
      /\ affected' \in [Plugins -> AggIds \cup {NoAdvisory}]
  BY DEF Tick, IInv, TypeOK
<1> QED
  BY <1>3, <1>4, <1>5, IInvParts

LEMMA RestartInv ==
    ASSUME IInv, Restart
    PROVE  IInv'
<1>1. Board(alarms')
  BY FS_EmptySet, BoardAssumption DEF Restart, Board, OnePerGroup
<1>2. DiskOK'
  BY DEF Restart, IInv, DiskOK, Names, DiskNames
<1>3. /\ members' \in [AggIds -> SUBSET Plugins]
      /\ dismissed' \subseteq Names
      /\ affected' \in [Plugins -> AggIds \cup {NoAdvisory}]
  BY DEF Restart
<1> QED
  BY <1>1, <1>2, <1>3, IInvParts

LEMMA IInvStep == IInv /\ [Next]_vars => IInv'
<1> SUFFICES ASSUME IInv, [Next]_vars PROVE IInv'
  OBVIOUS
<1>1. CASE \E i \in Ids, sev \in Severity, ok \in SaveOutcomes : RuntimeAlarm(i, sev, ok)
  BY <1>1, RuntimeAlarmInv
<1>2. CASE \E p \in Plugins, i \in VerdictIds, sev \in Severity, ok \in SaveOutcomes :
               NoteVerdict(p, i, sev, ok)
  BY <1>2, NoteVerdictInv
<1>3. CASE \E p \in Plugins : NoteClean(p)
  BY <1>3, NoteCleanInv
<1>4. CASE \E i \in Ids, ok \in SaveOutcomes : Dismiss(i, ok) \/ Restore(i, ok)
  BY <1>4, PanelInv
<1>5. CASE Snapshot
  BY <1>5, SnapshotInv
<1>6. CASE Tick
  BY <1>6, TickInv
<1>7. CASE Restart
  BY <1>7, RestartInv
<1>8. CASE UNCHANGED vars
  BY <1>8 DEF vars, IInv, TypeOK, Board, DiskOK, Names, Row, Severity, OnePerGroup, NoAdvisory
<1> QED
  BY <1>1, <1>2, <1>3, <1>4, <1>5, <1>6, <1>7, <1>8 DEF Next

\* Every reachable state of the board satisfies the inductive invariant.
THEOREM BoardInvariant == Spec => []IInv
  BY IInvInit, IInvStep, PTL DEF Spec

\* The board is well typed whatever the guards, scans and the user do, for
\* any number of packages, ids and limits.
THEOREM BoardTypeCorrect == Spec => []TypeOK
<1>1. IInv => TypeOK
  BY DEF IInv
<1> QED
  BY <1>1, BoardInvariant, PTL

\* The buffer never exceeds alarmMax and never holds two rows of one group
\* (record and trimToMax), in any interleaving with scans and withdrawals.
THEOREM BoardStaysBounded == Spec => []BoardBounded
<1>1. IInv => BoardBounded
  BY DEF IInv, Board, BoardBounded, OnePerGroup
<1> QED
  BY <1>1, BoardInvariant, PTL

-----------------------------------------------------------------------------
(* Red rows and noise.                                                     *)

\* What record() does to a row r of the board: its group stays, in r's own
\* row or under the incoming id; or r was red and pushed out of a board that
\* was full and is red throughout.
LEMMA RecordedKeepsRed ==
    ASSUME NEW A, Board(A), NEW i \in Ids, NEW sev \in Severity,
           NEW r \in A, r.sev = "red",
           Rows(Recorded(A, i, sev), r.group) = {}
    PROVE  /\ Cardinality(A) = AlarmMax
           /\ \A q \in Recorded(A, i, sev) : q.sev = "red"
<1> DEFINE g == GroupOf[i]
           B == Renumber(A \ Rows(A, g))
           x == NewRow(i, sev)
           S == Push(B, x)
           calm == {q \in S : q.sev # "red"}
           victim == IF calm = {} THEN Oldest(S) ELSE Oldest(calm)
<1>1. Recent(A, g) = {}
  <2> SUFFICES ASSUME Recent(A, g) # {} PROVE FALSE
    OBVIOUS
  <2> DEFINE m == Newest(Recent(A, g))
  <2>1. m \in A /\ m.group = g /\ \A q \in A : q.group = g => q = m
    BY RecentRow
  <2> HIDE DEF m
  <2>2. Recorded(A, i, sev) = (A \ {m}) \cup {Merged(m, sev)}
    BY DEF Recorded, m
  <2>3. Merged(m, sev).group = m.group
    BY <2>1, MergedType DEF Board
  <2> QED
    BY <2>1, <2>2, <2>3 DEF Rows
<1>2. /\ Board(B) /\ \A q \in B : q.group # g
      /\ S \subseteq Row /\ IsFiniteSet(S) /\ OnePerGroup(S)
      /\ Cardinality(S) <= Cardinality(B) + 1
  BY ReplacedList
<1>3. Recorded(A, i, sev) = TrimToMax(S)
  BY <1>1 DEF Recorded
<1>4. /\ Cardinality(A) \in Nat /\ Cardinality(B) \in Nat /\ Cardinality(S) \in Nat
      /\ Cardinality(A) <= AlarmMax /\ AlarmMax \in Nat
  BY <1>2, FS_CardinalityType, BoardAssumption DEF Board
<1>5. Cardinality(B) <= Cardinality(A \ Rows(A, g))
  <2>1. IsFiniteSet(A \ Rows(A, g))
    BY FS_Difference DEF Board
  <2> QED
    BY <2>1, RenumberFinite
<1>6. IsFiniteSet(A \ Rows(A, g)) /\ Cardinality(A \ Rows(A, g)) \in Nat
  BY FS_Difference, FS_CardinalityType DEF Board
<1>7. \E y \in S : y.group = r.group
  <2>1. CASE r.group = g
    <3>1. [x EXCEPT !.pos = 0].group = g
      BY NewRowType DEF Row
    <3> QED
      BY <2>1, <3>1 DEF Push
  <2>2. CASE r.group # g
    <3>1. PICK y \in B : y.group = r.group
      <4>1. r \in A \ Rows(A, g)
        BY <2>2 DEF Rows
      <4> QED
        BY <4>1, RenumberRows DEF Board
    <3>2. [y EXCEPT !.pos = @ + 1].group = y.group /\ [y EXCEPT !.pos = @ + 1] \in S
      BY <1>2, <3>1 DEF Push, Board, Row
    <3> QED
      BY <3>1, <3>2
  <2> QED
    BY <2>1, <2>2
<1>8. Cardinality(S) > AlarmMax
  <2> HIDE DEF S
  <2>1. ASSUME Cardinality(S) <= AlarmMax PROVE FALSE
    <3>1. TrimToMax(S) = S
      BY <2>1 DEF TrimToMax
    <3> QED
      BY <1>3, <1>7, <3>1 DEF Rows
  <2> QED
    BY <1>4, <2>1
<1>9. Cardinality(A) = AlarmMax /\ r.group # g
  <2>1. Cardinality(A \ Rows(A, g)) <= Cardinality(A)
    BY FS_Subset DEF Board
  <2>2. ASSUME r.group = g PROVE FALSE
    <3>1. r \in Rows(A, g)
      BY <2>2 DEF Rows
    <3>2. A \ Rows(A, g) \in SUBSET A /\ A \ Rows(A, g) # A
      BY <3>1
    <3>3. Cardinality(A \ Rows(A, g)) # Cardinality(A)
      BY <3>2, FS_Subset DEF Board
    <3> QED
      BY <1>2, <1>4, <1>5, <1>6, <1>8, <2>1, <3>3
  <2> QED
    BY <1>2, <1>4, <1>5, <1>6, <1>8, <2>1, <2>2
<1>10. PICK y \in S : y.group = r.group /\ y.sev = "red"
  <2>1. r \in A \ Rows(A, g)
    BY <1>9 DEF Rows
  <2>2. PICK z \in B : z.group = r.group /\ z.sev = "red"
    BY <2>1, RenumberRows DEF Board
  <2>3. /\ [z EXCEPT !.pos = @ + 1].group = z.group /\ [z EXCEPT !.pos = @ + 1].sev = z.sev
        /\ [z EXCEPT !.pos = @ + 1] \in S
    BY <1>2, <2>2 DEF Push, Board, Row
  <2> QED
    BY <2>2, <2>3
<1> HIDE DEF S
<1>11. TrimToMax(S) = Renumber(S \ {victim})
  BY <1>4, <1>8 DEF TrimToMax
<1>12. victim = y
  <2> SUFFICES ASSUME victim # y PROVE FALSE
    OBVIOUS
  <2>1. \E z \in Renumber(S \ {victim}) : z.group = r.group
    <3> HIDE DEF victim
    <3>1. y \in S \ {victim} /\ S \ {victim} \subseteq Row
      BY <1>2, <1>10
    <3> QED
      BY <1>10, <3>1, RenumberRows
  <2> QED
    BY <1>3, <1>11, <2>1 DEF Rows
<1>13. calm = {}
  <2> SUFFICES ASSUME calm # {} PROVE FALSE
    OBVIOUS
  <2>1. Oldest(calm) \in calm
    <3>1. IsFiniteSet(calm) /\ \A q \in calm : q.pos \in Nat
      BY <1>2, FS_Subset DEF Row
    <3> HIDE DEF calm
    <3> QED
      BY <3>1, OldestExists
  <2> QED
    BY <1>10, <1>12, <2>1
<1>14. \A z \in Renumber(S \ {victim}) : z.sev = "red"
  BY <1>2, <1>13, RenumberRows
<1> QED
  BY <1>3, <1>9, <1>11, <1>14

\* A row of the board after record() that has r's group is r, or came in.
LEMMA RecordedIds ==
    ASSUME NEW A, Board(A), NEW i \in Ids, NEW sev \in Severity,
           NEW r \in A, NEW x \in Recorded(A, i, sev), x.group = r.group
    PROVE  x.id \in {r.id, i}
<1> DEFINE g == GroupOf[i]
<1>1. CASE Recent(A, g) # {}
  <2> DEFINE m == Newest(Recent(A, g))
  <2>1. m \in A /\ m.group = g /\ \A q \in A : q.group = g => q = m
    BY <1>1, RecentRow
  <2> HIDE DEF m
  <2>2. x \in (A \ {m}) \cup {Merged(m, sev)}
    BY <1>1 DEF Recorded, m
  <2>3. Merged(m, sev).id = m.id /\ Merged(m, sev).group = m.group
    BY <2>1 DEF Merged, Board, Row
  <2> QED
    BY <2>1, <2>2, <2>3 DEF Board, OnePerGroup
<1>2. CASE Recent(A, g) = {}
  <2> DEFINE B == Renumber(A \ Rows(A, g))
             S == Push(B, NewRow(i, sev))
  <2>1. Board(B) /\ S \subseteq Row
    BY ReplacedList
  <2>2. x \in TrimToMax(S)
    BY <1>2 DEF Recorded
  <2>3. \E y \in S : y.id = x.id /\ y.group = x.group
    <3> HIDE DEF S
    <3>1. CASE x \in S
      BY <3>1
    <3>2. CASE x \notin S
      <4>1. \E v : x \in Renumber(S \ {v})
        BY <2>2, <3>2 DEF TrimToMax
      <4> QED
        BY <2>1, <4>1, RenumberRows
    <3> QED
      BY <3>1, <3>2
  <2>4. PICK y \in S : y.id = x.id /\ y.group = x.group
    BY <2>3
  <2>5. CASE y = [NewRow(i, sev) EXCEPT !.pos = 0]
    BY <2>4, <2>5 DEF NewRow
  <2>6. CASE \E z \in B : y = [z EXCEPT !.pos = @ + 1]
    <3>1. PICK z \in B : y = [z EXCEPT !.pos = @ + 1]
      BY <2>6
    <3>2. z.id = x.id /\ z.group = x.group
      BY <2>1, <2>4, <3>1 DEF Board, Row
    <3>3. PICK q \in A : q.id = z.id /\ q.group = z.group
      BY <3>1, RenumberRows DEF Board
    <3> QED
      BY <3>2, <3>3 DEF Board, OnePerGroup
  <2> QED
    BY <2>4, <2>5, <2>6 DEF Push
<1> QED
  BY <1>1, <1>2

\* Why the group of a live red row may be gone after a step.
RedExcused(r) ==
    \/ Cardinality(alarms) = AlarmMax /\ \A q \in alarms' : q.sev = "red"
    \/ \E p \in Plugins : Withdrawable(r, p) /\ ScanOf(p)
    \/ Restart

\* A live row is still on the board after expire().
LEMMA LiveRowStays ==
    ASSUME IInv, NEW r \in alarms, r.age <= Ttl
    PROVE  \E q \in Unexpired(alarms) : q.id = r.id /\ q.group = r.group /\ q.sev = r.sev
<1> DEFINE L == {x \in alarms : x.age <= Ttl}
<1>1. r \in L /\ L \subseteq Row
  BY DEF IInv, Board
<1>2. Unexpired(alarms) = Renumber(L)
  BY DEF Unexpired
<1> HIDE DEF L
<1> QED
  BY <1>1, <1>2, RenumberRows

LEMMA FullWhenLiveFull ==
    ASSUME IInv, Cardinality(Unexpired(alarms)) = AlarmMax
    PROVE  Cardinality(alarms) = AlarmMax
<1> DEFINE L == {x \in alarms : x.age <= Ttl}
<1>1. IsFiniteSet(L) /\ Cardinality(L) <= Cardinality(alarms)
  BY FS_Subset DEF IInv, Board
<1>2. Cardinality(Unexpired(alarms)) <= Cardinality(L)
  BY <1>1, RenumberFinite DEF Unexpired
<1>3. Cardinality(L) \in Nat /\ Cardinality(alarms) \in Nat
  BY <1>1, FS_CardinalityType DEF IInv, Board
<1> QED
  BY <1>1, <1>2, <1>3, BoardAssumption DEF IInv, Board

LEMMA RuntimeAlarmRed ==
    ASSUME IInv, NEW i \in Ids, NEW sev \in Severity, NEW ok \in SaveOutcomes,
           RuntimeAlarm(i, sev, ok),
           NEW r \in alarms, r.sev = "red", r.age <= Ttl, Rows(alarms', r.group) = {}
    PROVE  RedExcused(r)
<1>1. Board(Unexpired(alarms))
  BY UnexpiredBoard DEF IInv
<1>2. PICK q \in Unexpired(alarms) : q.id = r.id /\ q.group = r.group /\ q.sev = r.sev
  BY LiveRowStays
<1>3. alarms' = Recorded(Unexpired(alarms), i, sev)
  BY DEF RuntimeAlarm
<1>4. /\ Cardinality(Unexpired(alarms)) = AlarmMax
      /\ \A z \in alarms' : z.sev = "red"
  BY <1>1, <1>2, <1>3, RecordedKeepsRed
<1> QED
  BY <1>4, FullWhenLiveFull DEF RedExcused

LEMMA NoteVerdictRed ==
    ASSUME IInv, NEW p \in Plugins, NEW i \in VerdictIds, NEW sev \in Severity,
           NEW ok \in SaveOutcomes, NoteVerdict(p, i, sev, ok),
           NEW r \in alarms, r.sev = "red", r.age <= Ttl, Rows(alarms', r.group) = {}
    PROVE  RedExcused(r)
<1> DEFINE live  == Unexpired(alarms)
           next  == Recorded(live, i, sev)
           gone  == StaleVerdicts(next, p, {i}, FoldsAfter(live, i, sev) \cup cached')
                    \cup {x \in next : x.id \in Orphans(MembersOf(live, members), p, {i})}
           rows  == Renumber(next \ gone)
           n     == Cardinality(Joined(live, p, i)[i])
<1>1. i \in Ids /\ Board(live) /\ Board(next)
  BY BoardAssumption, UnexpiredBoard, RecordedBoard DEF IInv, VerdictIds
<1>2. PICK q \in live : q.id = r.id /\ q.group = r.group /\ q.sev = r.sev
  BY LiveRowStays
<1>3. alarms' = IF i \in AggIds THEN Counted(rows, i, n) ELSE rows
  BY DEF NoteVerdict
<1>4. /\ \A x \in rows : \E z \in alarms' : z.group = x.group
      /\ \A z \in alarms' : \E x \in rows : z.sev = x.sev
  <2>1. rows \subseteq Row
    <3> HIDE DEF next, gone
    <3> QED BY <1>1, SubBoard DEF Board
  <2> DEFINE c(x) == IF x.id = i THEN [x EXCEPT !.count = n] ELSE x
  <2> HIDE DEF rows, n
  <2>2. \A x \in rows : c(x).group = x.group /\ c(x).sev = x.sev
    BY <2>1 DEF Row
  <2>3. Counted(rows, i, n) = {c(x) : x \in rows}
    BY DEF Counted
  <2> HIDE DEF c
  <2> QED BY <1>3, <2>2, <2>3
<1>5. /\ \A x \in next \ gone : \E y \in rows : y.group = x.group
      /\ \A y \in rows : \E x \in next : y.sev = x.sev
  <2> HIDE DEF next, gone
  <2>1. next \ gone \subseteq Row
    BY <1>1 DEF Board
  <2> QED BY <2>1, RenumberRows
<1>6. CASE Rows(next, r.group) = {}
  <2>1. Cardinality(live) = AlarmMax /\ \A x \in next : x.sev = "red"
    <3> HIDE DEF live
    <3> QED BY <1>1, <1>2, <1>6, RecordedKeepsRed
  <2>2. \A z \in alarms' : z.sev = "red"
    <3> HIDE DEF next, rows
    <3> QED BY <1>4, <1>5, <2>1
  <2> QED
    BY <2>1, <2>2, FullWhenLiveFull DEF RedExcused
<1>7. CASE Rows(next, r.group) # {}
  <2>1. PICK x \in next : x.group = r.group
    BY <1>7 DEF Rows
  <2>2. x \in gone
    <3> HIDE DEF next, gone, rows
    <3> QED BY <1>4, <1>5, <2>1 DEF Rows
  <2>3. x.id \in {r.id, i}
    <3> HIDE DEF live
    <3> QED BY <1>1, <1>2, <2>1, RecordedIds
  <2>4. x.id # i /\ (x.id \in OwnIds[p] \/ x.id \in Orphans(MembersOf(live, members), p, {i}))
    <3> HIDE DEF next, live
    <3> QED BY <2>2 DEF StaleVerdicts, Orphans
  <2>5. Withdrawable(r, p)
    <3>1. CASE r.id \in OwnIds[p]
      BY <3>1 DEF Withdrawable
    <3>2. CASE r.id \in Orphans(MembersOf(live, members), p, {i})
      <4> HIDE DEF live
      <4> QED BY <3>2 DEF Withdrawable, Orphans, MembersOf
    <3> QED
      BY <2>3, <2>4, <3>1, <3>2
  <2> QED
    BY <2>5 DEF RedExcused, ScanOf
<1> QED
  BY <1>6, <1>7

LEMMA NoteCleanRed ==
    ASSUME IInv, NEW p \in Plugins, NoteClean(p),
           NEW r \in alarms, Rows(alarms', r.group) = {}
    PROVE  RedExcused(r)
<1> DEFINE gone == StaleVerdicts(alarms, p, {}, dismissed \cup cached)
                   \cup {x \in alarms : x.id \in Orphans(members, p, {})}
           rows == Renumber(alarms \ gone)
           left == [a \in AggIds |-> members[a] \ {p}]
           shrunk(x) == x.id \in AggIds /\ p \in members[x.id]
<1>1. CASE r \in gone
  <2>1. Withdrawable(r, p)
    BY <1>1 DEF StaleVerdicts, Orphans, Withdrawable
  <2> QED
    BY <2>1 DEF RedExcused, ScanOf
<1>2. CASE r \notin gone
  <2>1. alarms \ gone \subseteq Row /\ r \in alarms \ gone
    BY <1>2 DEF IInv, Board
  <2>2. PICK x \in rows : x.group = r.group
    <3> HIDE DEF gone
    <3> QED BY <2>1, RenumberRows
  <2>3. rows \subseteq Row
    <3> HIDE DEF gone
    <3> QED BY SubBoard DEF IInv, Board
  <2>4. alarms' = {IF shrunk(y) THEN [y EXCEPT !.count = Cardinality(left[y.id])] ELSE y : y \in rows}
    BY DEF NoteClean
  <2>5. \E z \in alarms' : z.group = x.group
    <3> DEFINE c(y) == IF shrunk(y) THEN [y EXCEPT !.count = Cardinality(left[y.id])] ELSE y
    <3> HIDE DEF rows, left, shrunk
    <3>1. c(x).group = x.group
      BY <2>2, <2>3 DEF Row
    <3>2. c(x) \in alarms'
      BY <2>2, <2>4
    <3> QED BY <3>1, <3>2
  <2> QED
    BY <2>2, <2>5 DEF Rows
<1> QED
  BY <1>1, <1>2

LEMMA QuietRed ==
    ASSUME IInv, NEW r \in alarms, r.age <= Ttl, Rows(alarms', r.group) = {},
           \/ \E i \in Ids, ok \in SaveOutcomes : Dismiss(i, ok) \/ Restore(i, ok)
           \/ Snapshot \/ Tick \/ UNCHANGED vars
    PROVE  FALSE
<1>1. CASE alarms' = alarms
  BY <1>1 DEF Rows
<1>2. CASE Snapshot
  BY <1>2, LiveRowStays DEF Snapshot, Rows
<1>3. CASE Tick
  <2> DEFINE z == [r EXCEPT !.age = IF @ <= Ttl THEN @ + 1 ELSE @]
  <2>1. z \in alarms'
    BY <1>3 DEF Tick
  <2>2. z.group = r.group
    BY DEF IInv, Board, Row
  <2> QED
    BY <2>1, <2>2 DEF Rows
<1> QED
  BY <1>1, <1>2, <1>3 DEF Dismiss, Restore, vars

\* Whatever the storm of yellow and info reports, a live red row keeps its
\* group on the board (trimToMax), for every alarmMax, time to live and set
\* of ids.
THEOREM RedRowsProtected == Spec => RedOutlivesNoise
<1>1. ASSUME IInv, [Next]_vars, NEW r \in alarms,
             r.sev = "red", r.age <= Ttl, Rows(alarms', r.group) = {}
      PROVE  RedExcused(r)
  <2>1. CASE \E i \in Ids, sev \in Severity, ok \in SaveOutcomes : RuntimeAlarm(i, sev, ok)
    BY <1>1, <2>1, RuntimeAlarmRed
  <2>2. CASE \E p \in Plugins, i \in VerdictIds, sev \in Severity, ok \in SaveOutcomes :
                 NoteVerdict(p, i, sev, ok)
    BY <1>1, <2>2, NoteVerdictRed
  <2>3. CASE \E p \in Plugins : NoteClean(p)
    BY <1>1, <2>3, NoteCleanRed
  <2>4. CASE \/ \E i \in Ids, ok \in SaveOutcomes : Dismiss(i, ok) \/ Restore(i, ok)
             \/ Snapshot \/ Tick \/ UNCHANGED vars
    BY <1>1, <2>4, QuietRed
  <2>5. CASE Restart
    BY <2>5 DEF RedExcused
  <2> QED
    BY <1>1, <2>1, <2>2, <2>3, <2>4, <2>5 DEF Next
<1>2. IInv /\ [Next]_vars =>
        [ \A r \in alarms :
            r.sev = "red" /\ r.age <= Ttl /\ Rows(alarms', r.group) = {} =>
                \/ Cardinality(alarms) = AlarmMax /\ \A q \in alarms' : q.sev = "red"
                \/ \E p \in Plugins : Withdrawable(r, p) /\ ScanOf(p)
                \/ Restart ]_vars
  BY <1>1 DEF RedExcused
<1> QED
  BY <1>2, BoardInvariant, PTL DEF Spec, RedOutlivesNoise

-----------------------------------------------------------------------------
(* Where a row of the board comes from after record().                     *)

\* Row x after an alarm i of severity sev was recorded on the board A: a row
\* of another group as it was, or the one row of the alarm's group, red when
\* the alarm or the row it met was red.
CameFrom(A, i, sev, x) ==
    \/ /\ x.group # GroupOf[i]
       /\ \E y \in A : y.id = x.id /\ y.group = x.group /\ y.sev = x.sev
    \/ /\ x.group = GroupOf[i]
       /\ x.id = i \/ \E y \in A : y.id = x.id
       /\ sev = "red" => x.sev = "red"
       /\ x.sev = "red" /\ sev # "red" => \E y \in A : y.group = x.group /\ y.sev = "red"

\* trimToMax drops a row or none, and changes no id, group or severity.
LEMMA TrimmedRows ==
    ASSUME NEW S, S \subseteq Row, NEW x \in TrimToMax(S)
    PROVE  \E y \in S : y.id = x.id /\ y.group = x.group /\ y.sev = x.sev
<1>1. CASE x \in S
  BY <1>1
<1>2. CASE x \notin S
  <2>1. PICK v : x \in Renumber(S \ {v})
    BY <1>2 DEF TrimToMax
  <2> DEFINE T == S \ {v}
  <2>2. T \subseteq Row /\ x \in Renumber(T)
    BY <2>1
  <2>3. \A y \in T : y \in S
    OBVIOUS
  <2> HIDE DEF T
  <2> QED
    BY <2>2, <2>3, RenumberRows
<1> QED
  BY <1>1, <1>2

\* Every row record() leaves came from the board or with the alarm.
LEMMA RecordedRows ==
    ASSUME NEW A, Board(A), NEW i \in Ids, NEW sev \in Severity,
           NEW x \in Recorded(A, i, sev)
    PROVE  CameFrom(A, i, sev, x)
<1> DEFINE g == GroupOf[i]
<1>1. CASE Recent(A, g) # {}
  <2> DEFINE m == Newest(Recent(A, g))
  <2>1. m \in A /\ m.group = g /\ \A q \in A : q.group = g => q = m
    BY <1>1, RecentRow
  <2> HIDE DEF m
  <2>2. x \in (A \ {m}) \cup {Merged(m, sev)}
    BY <1>1 DEF Recorded, m
  <2>3. CASE x \in A \ {m}
    BY <2>1, <2>3 DEF CameFrom
  <2>4. CASE x = Merged(m, sev)
    <3>1. x.id = m.id /\ x.group = m.group /\ x.sev = IF sev = "red" THEN "red" ELSE m.sev
      BY <2>1, <2>4 DEF Merged, Board, Row
    <3> QED
      BY <2>1, <3>1 DEF CameFrom
  <2> QED
    BY <2>2, <2>3, <2>4
<1>2. CASE Recent(A, g) = {}
  <2> DEFINE B == Renumber(A \ Rows(A, g))
             S == Push(B, NewRow(i, sev))
  <2>1. Board(B) /\ (\A r \in B : r.group # g) /\ S \subseteq Row
    BY ReplacedList
  <2>2. x \in TrimToMax(S)
    BY <1>2 DEF Recorded
  <2>3. PICK y \in S : y.id = x.id /\ y.group = x.group /\ y.sev = x.sev
    <3> HIDE DEF S
    <3> QED BY <2>1, <2>2, TrimmedRows
  <2>4. CASE y = [NewRow(i, sev) EXCEPT !.pos = 0]
    BY <2>3, <2>4 DEF NewRow, CameFrom
  <2>5. CASE \E z \in B : y = [z EXCEPT !.pos = @ + 1]
    <3>1. PICK z \in B : y = [z EXCEPT !.pos = @ + 1]
      BY <2>5
    <3>2. z.id = x.id /\ z.group = x.group /\ z.sev = x.sev
      BY <2>1, <2>3, <3>1 DEF Board, Row
    <3>3. PICK q \in A : q.id = z.id /\ q.group = z.group /\ q.sev = z.sev
      <4> DEFINE T == A \ Rows(A, g)
      <4>1. T \subseteq Row /\ z \in Renumber(T) /\ \A t \in T : t \in A
        BY <3>1 DEF Board
      <4> HIDE DEF T
      <4> QED BY <4>1, RenumberRows
    <3>4. x.group # g
      BY <2>1, <3>1, <3>2
    <3> QED
      BY <3>2, <3>3, <3>4 DEF CameFrom
  <2> QED
    BY <2>3, <2>4, <2>5 DEF Push
<1> QED
  BY <1>1, <1>2

-----------------------------------------------------------------------------
(* Folds and escalations.                                                  *)

\* What a runtime alarm and a scan's verdict do to the colours and the folds.
ReportStep(i, sev, ok) ==
    /\ \A z \in alarms' : \E x \in Recorded(Unexpired(alarms), i, sev) :
           z.id = x.id /\ z.group = x.group /\ z.sev = x.sev
    /\ dismissed' = FoldsAfter(Unexpired(alarms), i, sev)
    /\ DiskAfter(Unexpired(alarms), i, sev, ok)

\* A step that folds, unfolds or recolours nothing.
StillStep ==
    /\ \A z \in alarms' : \E x \in alarms : z.group = x.group /\ z.sev = x.sev
    /\ \A r \in alarms : r.age <= Ttl /\ r.group \in dismissed => r.group \in dismissed'
    /\ cached \subseteq cached'

LEMMA RuntimeReports ==
    ASSUME NEW i \in Ids, NEW sev \in Severity, NEW ok \in SaveOutcomes,
           RuntimeAlarm(i, sev, ok)
    PROVE  ReportStep(i, sev, ok)
  BY DEF RuntimeAlarm, ReportStep

\* The rows a verdict leaves are rows record() left, perhaps recounted.
LEMMA VerdictReports ==
    ASSUME IInv, NEW p \in Plugins, NEW i \in VerdictIds, NEW sev \in Severity,
           NEW ok \in SaveOutcomes, NoteVerdict(p, i, sev, ok)
    PROVE  ReportStep(i, sev, ok)
<1> DEFINE live  == Unexpired(alarms)
           next  == Recorded(live, i, sev)
           gone  == StaleVerdicts(next, p, {i}, FoldsAfter(live, i, sev) \cup cached')
                    \cup {x \in next : x.id \in Orphans(MembersOf(live, members), p, {i})}
           kept  == next \ gone
           rows  == Renumber(kept)
           n     == Cardinality(Joined(live, p, i)[i])
<1>1. i \in Ids /\ Board(next)
  BY BoardAssumption, UnexpiredBoard, RecordedBoard DEF IInv, VerdictIds
<1>2. alarms' = IF i \in AggIds THEN Counted(rows, i, n) ELSE rows
  BY DEF NoteVerdict
<1>3. kept \subseteq Row /\ \A x \in kept : x \in next
  <2> HIDE DEF next, gone
  <2> QED BY <1>1 DEF Board
<1>4. rows \subseteq Row
  <2> HIDE DEF next, gone
  <2> QED BY <1>1, SubBoard DEF Board
<1>5. \A y \in rows : \E x \in next : y.id = x.id /\ y.group = x.group /\ y.sev = x.sev
  <2> HIDE DEF kept, next
  <2> QED BY <1>3, RenumberRows
<1>6. \A z \in alarms' : \E y \in rows : z.id = y.id /\ z.group = y.group /\ z.sev = y.sev
  <2> DEFINE c(x) == IF x.id = i THEN [x EXCEPT !.count = n] ELSE x
  <2> HIDE DEF rows, n
  <2>1. \A x \in rows : c(x).id = x.id /\ c(x).group = x.group /\ c(x).sev = x.sev
    BY <1>4 DEF Row
  <2>2. Counted(rows, i, n) = {c(x) : x \in rows}
    BY DEF Counted
  <2> HIDE DEF c
  <2> QED BY <1>2, <2>1, <2>2
<1>7. \A z \in alarms' : \E x \in next : z.id = x.id /\ z.group = x.group /\ z.sev = x.sev
  <2> HIDE DEF rows, next
  <2> QED BY <1>5, <1>6
<1>8. dismissed' = FoldsAfter(live, i, sev) /\ DiskAfter(live, i, sev, ok)
  BY DEF NoteVerdict
<1> QED
  BY <1>7, <1>8 DEF ReportStep

\* A clean scan only removes and recounts rows.
LEMMA CleanIsStill ==
    ASSUME IInv, NEW p \in Plugins, NoteClean(p)
    PROVE  StillStep
<1> DEFINE kept == alarms \ (StaleVerdicts(alarms, p, {}, dismissed \cup cached)
                             \cup {x \in alarms : x.id \in Orphans(members, p, {})})
           rows == Renumber(kept)
           left == [a \in AggIds |-> members[a] \ {p}]
           shrunk(x) == x.id \in AggIds /\ p \in members[x.id]
           c(y) == IF shrunk(y) THEN [y EXCEPT !.count = Cardinality(left[y.id])] ELSE y
<1>1. kept \subseteq Row /\ \A x \in kept : x \in alarms
  BY DEF IInv, Board
<1>2. rows \subseteq Row
  <2>1. kept \subseteq alarms
    OBVIOUS
  <2> HIDE DEF kept
  <2> QED BY <2>1, SubBoard DEF IInv, Board
<1>3. alarms' = {c(y) : y \in rows}
  BY DEF NoteClean
<1>4. \A y \in rows : c(y).group = y.group /\ c(y).sev = y.sev
  <2> HIDE DEF rows, left, shrunk
  <2> QED BY <1>2 DEF Row
<1>5. \A y \in rows : \E x \in alarms : y.group = x.group /\ y.sev = x.sev
  <2> HIDE DEF kept
  <2> QED BY <1>1, RenumberRows
<1>6. dismissed' = dismissed /\ cached' = cached
  BY DEF NoteClean
<1> HIDE DEF rows, c
<1> QED
  BY <1>3, <1>4, <1>5, <1>6 DEF StillStep

\* A poll keeps the fold of every row that is still there.
LEMMA SnapshotIsStill ==
    ASSUME IInv, Snapshot
    PROVE  StillStep
<1>1. \A z \in alarms' : \E x \in alarms : z.group = x.group /\ z.sev = x.sev
  <2> DEFINE L == {x \in alarms : x.age <= Ttl}
  <2>1. L \subseteq Row /\ alarms' = Renumber(L) /\ \A x \in L : x \in alarms
    BY DEF Snapshot, Unexpired, IInv, Board
  <2> HIDE DEF L
  <2> QED BY <2>1, RenumberRows
<1>2. ASSUME NEW r \in alarms, r.age <= Ttl, r.group \in dismissed
      PROVE  r.group \in dismissed'
  <2>1. PICK q \in Unexpired(alarms) : q.group = r.group
    BY <1>2, LiveRowStays
  <2> QED
    BY <1>2, <2>1 DEF Snapshot, FoldsOf
<1> QED
  BY <1>1, <1>2 DEF StillStep, Snapshot

\* The clock and a dismissal recolour nothing and take no fold back.
LEMMA QuietIsStill ==
    ASSUME IInv, \/ Tick \/ UNCHANGED vars
                 \/ \E i \in Ids, ok \in SaveOutcomes : Dismiss(i, ok)
    PROVE  StillStep
<1>1. CASE Tick
  <2>1. \A r \in alarms : LET z == [r EXCEPT !.age = IF @ <= Ttl THEN @ + 1 ELSE @]
                          IN  z.group = r.group /\ z.sev = r.sev
    BY DEF IInv, Board, Row
  <2> QED
    BY <1>1, <2>1 DEF Tick, StillStep
<1>2. CASE UNCHANGED vars
  BY <1>2 DEF vars, StillStep
<1>3. CASE \E i \in Ids, ok \in SaveOutcomes : Dismiss(i, ok)
  BY <1>3 DEF Dismiss, FoldOnDisk, StillStep
<1> QED
  BY <1>1, <1>2, <1>3

\* The row an alarm meets is the one row of its group.
LEMMA OnlyRow ==
    ASSUME NEW A, Board(A), NEW q \in A
    PROVE  Newest(Rows(A, q.group)) = q /\ Rows(A, q.group) = {q}
<1>1. Rows(A, q.group) = {q}
  BY DEF Rows, Board, OnePerGroup
<1>2. q.pos <= q.pos
  BY DEF Board, Row
<1> QED
  BY <1>1, <1>2 DEF Newest

\* A report takes a fold back only when it turns the folded row red.
LEMMA FoldLost ==
    ASSUME IInv, NEW i \in Ids, NEW sev \in Severity, NEW ok, ReportStep(i, sev, ok),
           NEW r \in alarms, r.age <= Ttl,
           r.group \in dismissed \cup cached, r.group \notin dismissed' \cup cached'
    PROVE  r.group = GroupOf[i] /\ sev = "red" /\ r.sev # "red"
<1> DEFINE live == Unexpired(alarms)
<1>1. Board(live)
  BY UnexpiredBoard DEF IInv
<1>2. PICK q \in live : q.id = r.id /\ q.group = r.group /\ q.sev = r.sev
  BY LiveRowStays
<1>3. dismissed' = FoldsAfter(live, i, sev) /\ DiskAfter(live, i, sev, ok)
  BY DEF ReportStep
<1> HIDE DEF live
<1>4. r.group \in dismissed => r.group \in FoldsOf(live, dismissed)
  BY <1>2 DEF FoldsOf
<1>5. Escalates(live, GroupOf[i], sev) /\ r.group = GroupOf[i]
  <2>1. CASE r.group \in dismissed
    BY <1>3, <1>4, <2>1 DEF FoldsAfter
  <2>2. CASE r.group \in cached
    <3>1. cached' # cached
      BY <2>2
    <3>2. Escalates(live, GroupOf[i], sev) /\ UnfoldOnDisk(GroupOf[i], ok)
      BY <1>3, <3>1 DEF DiskAfter
    <3>3. cached \ {GroupOf[i]} \subseteq cached'
      BY <3>2 DEF UnfoldOnDisk
    <3> QED
      BY <2>2, <3>2, <3>3
  <2> QED
    BY <2>1, <2>2
<1>6. Newest(Rows(live, r.group)) = q
  BY <1>1, <1>2, OnlyRow
<1> QED
  BY <1>2, <1>5, <1>6 DEF Escalates

\* After a report that is red, the row of its group is red.
LEMMA RedAfterReport ==
    ASSUME IInv, NEW i \in Ids, NEW ok, ReportStep(i, "red", ok),
           NEW z \in alarms', z.group = GroupOf[i]
    PROVE  z.sev = "red"
<1> DEFINE live == Unexpired(alarms)
<1>1. Board(live)
  BY UnexpiredBoard DEF IInv
<1>2. PICK x \in Recorded(live, i, "red") : z.group = x.group /\ z.sev = x.sev
  BY DEF ReportStep
<1> HIDE DEF live
<1>3. CameFrom(live, i, "red", x)
  BY <1>1, <1>2, RecordedRows DEF Severity
<1> QED
  BY <1>2, <1>3 DEF CameFrom

\* A row turns red only by a red report of its group, which meets the row.
LEMMA TurnedRed ==
    ASSUME IInv, NEW i \in Ids, NEW sev \in Severity, NEW ok, ReportStep(i, sev, ok),
           NEW r \in alarms, NEW z \in alarms',
           r.group = z.group, r.age <= Ttl, r.sev # "red", z.sev = "red"
    PROVE  z.group = GroupOf[i] /\ Escalates(Unexpired(alarms), GroupOf[i], sev)
<1> DEFINE live == Unexpired(alarms)
<1>1. Board(live)
  BY UnexpiredBoard DEF IInv
<1>2. PICK x \in Recorded(live, i, sev) : z.group = x.group /\ z.sev = x.sev
  BY DEF ReportStep
<1>3. PICK q \in live : q.group = r.group /\ q.sev = r.sev
  BY LiveRowStays
<1> HIDE DEF live
<1>4. CameFrom(live, i, sev, x)
  BY <1>1, <1>2, RecordedRows
<1>5. Newest(Rows(live, q.group)) = q /\ Rows(live, q.group) = {q}
  BY <1>1, OnlyRow
<1>6. \A y \in live : y.group = x.group => y = q
  BY <1>1, <1>2, <1>3 DEF Board, OnePerGroup
<1>7. x.group = GroupOf[i] /\ sev = "red"
  BY <1>2, <1>3, <1>4, <1>6 DEF CameFrom
<1> QED
  BY <1>2, <1>3, <1>5, <1>7 DEF Escalates, live

\* An escalation takes the fold of its group back, in memory and, unless the
\* write fails, on disk.
LEMMA EscalationUnfolds ==
    ASSUME NEW i \in Ids, NEW sev, NEW ok, ReportStep(i, sev, ok),
           Escalates(Unexpired(alarms), GroupOf[i], sev)
    PROVE  \/ GroupOf[i] \notin dismissed' \cup cached'
           \/ GroupOf[i] \in cached \cap cached' /\ disk' = disk
<1>1. GroupOf[i] \notin dismissed'
  BY DEF ReportStep, FoldsAfter
<1>2. CASE GroupOf[i] \in cached
  <2>1. UnfoldOnDisk(GroupOf[i], ok)
    BY <1>2 DEF ReportStep, DiskAfter
  <2> QED
    BY <1>1, <1>2, <2>1 DEF UnfoldOnDisk
<1>3. CASE GroupOf[i] \notin cached
  <2>1. cached' = cached
    BY <1>3 DEF ReportStep, DiskAfter
  <2> QED
    BY <1>1, <1>3, <2>1
<1> QED
  BY <1>2, <1>3

\* Every step reports, stands still, restores a fold, or ends the process.
LEMMA StepKinds ==
    ASSUME IInv, [Next]_vars
    PROVE  \/ \E i \in Ids, sev \in Severity, ok \in SaveOutcomes : ReportStep(i, sev, ok)
           \/ StillStep
           \/ \E i \in Ids, ok \in SaveOutcomes : Restore(i, ok)
           \/ Restart
<1>1. CASE \E i \in Ids, sev \in Severity, ok \in SaveOutcomes : RuntimeAlarm(i, sev, ok)
  BY <1>1, RuntimeReports
<1>2. CASE \E p \in Plugins, i \in VerdictIds, sev \in Severity, ok \in SaveOutcomes :
               NoteVerdict(p, i, sev, ok)
  <2>1. VerdictIds \subseteq Ids
    BY BoardAssumption DEF VerdictIds
  <2> QED
    BY <1>2, <2>1, VerdictReports
<1>3. CASE \E p \in Plugins : NoteClean(p)
  BY <1>3, CleanIsStill
<1>4. CASE Snapshot
  BY <1>4, SnapshotIsStill
<1>5. CASE Tick \/ UNCHANGED vars \/ \E i \in Ids, ok \in SaveOutcomes : Dismiss(i, ok)
  BY <1>5, QuietIsStill
<1> QED
  BY <1>1, <1>2, <1>3, <1>4, <1>5 DEF Next

\* What the user ignored stays ignored (dismiss, record, expire, snapshot):
\* through merges, replacements, withdrawals and failed writes, for every
\* set of ids, merge keys and limits.
THEOREM FoldsStick == Spec => FoldSticks
<1>1. ASSUME IInv, [Next]_vars, NEW r \in alarms, r.age <= Ttl,
             r.group \in dismissed \cup cached, NEW z \in alarms', z.group = r.group,
             r.group \notin dismissed' \cup cached'
      PROVE  \/ r.sev # "red" /\ z.sev = "red"
             \/ \E i \in Ids, ok \in SaveOutcomes : Restore(i, ok)
  <2>1. CASE \E i \in Ids, sev \in Severity, ok \in SaveOutcomes : ReportStep(i, sev, ok)
    <3>1. PICK i \in Ids, sev \in Severity, ok \in SaveOutcomes : ReportStep(i, sev, ok)
      BY <2>1
    <3>2. r.group = GroupOf[i] /\ sev = "red" /\ r.sev # "red"
      BY <1>1, <3>1, FoldLost
    <3> QED
      BY <1>1, <3>1, <3>2, RedAfterReport
  <2>2. CASE StillStep
    BY <1>1, <2>2 DEF StillStep
  <2>3. CASE Restart
    BY <1>1, <2>3 DEF Restart
  <2> QED
    BY <1>1, <2>1, <2>2, <2>3, StepKinds
<1>2. IInv /\ [Next]_vars =>
        [ \A r \in alarms :
            /\ Folded(r.group) /\ r.age <= Ttl
            /\ Rows(alarms', r.group) # {} /\ ~Folded(r.group)'
            => \/ r.sev # "red" /\ \E q \in Rows(alarms', r.group) : q.sev = "red"
               \/ \E i \in Ids, ok \in SaveOutcomes : Restore(i, ok) ]_vars
  <2>1. ASSUME IInv, [Next]_vars, NEW r \in alarms, Folded(r.group), r.age <= Ttl,
               Rows(alarms', r.group) # {}, ~Folded(r.group)'
        PROVE  \/ r.sev # "red" /\ \E q \in Rows(alarms', r.group) : q.sev = "red"
               \/ \E i \in Ids, ok \in SaveOutcomes : Restore(i, ok)
    <3>1. PICK z \in alarms' : z.group = r.group
      BY <2>1 DEF Rows
    <3>2. \/ r.sev # "red" /\ z.sev = "red"
          \/ \E i \in Ids, ok \in SaveOutcomes : Restore(i, ok)
      BY <1>1, <2>1, <3>1 DEF Folded
    <3> QED
      BY <3>1, <3>2 DEF Rows
  <2> QED
    BY <2>1
<1> QED
  BY <1>2, BoardInvariant, PTL DEF Spec, FoldSticks

\* A live row that turns red is shown, and the shield with it, whatever was
\* folded before; only a fold list that cannot be written keeps it hidden
\* (record, restorePersistentDismissal).
THEOREM EscalationsResurface == Spec => EscalationResurfaces
<1>1. ASSUME IInv, [Next]_vars, NEW r \in alarms, NEW z \in alarms',
             r.group = z.group, r.age <= Ttl, r.sev # "red", z.sev = "red"
      PROVE  \/ z.group \notin dismissed' \cup cached'
             \/ z.group \in cached \cap cached' /\ disk' = disk
  <2>1. CASE \E i \in Ids, sev \in Severity, ok \in SaveOutcomes : ReportStep(i, sev, ok)
    <3>1. PICK i \in Ids, sev \in Severity, ok \in SaveOutcomes : ReportStep(i, sev, ok)
      BY <2>1
    <3>2. z.group = GroupOf[i] /\ Escalates(Unexpired(alarms), GroupOf[i], sev)
      BY <1>1, <3>1, TurnedRed
    <3> QED
      BY <3>1, <3>2, EscalationUnfolds
  <2>2. CASE StillStep \/ \E i \in Ids, ok \in SaveOutcomes : Restore(i, ok)
    <3>1. PICK x \in alarms : x.group = z.group /\ x.sev = z.sev
      BY <1>1, <2>2 DEF StillStep, Restore
    <3>2. x = r
      BY <1>1, <3>1 DEF IInv, Board, OnePerGroup
    <3> QED
      BY <1>1, <3>1, <3>2
  <2>3. CASE Restart
    BY <1>1, <2>3 DEF Restart
  <2> QED
    BY <1>1, <2>1, <2>2, <2>3, StepKinds
<1>2. ASSUME NEW z \in alarms', z.sev = "red", z.group \notin dismissed' \cup cached'
      PROVE  z \in Active' /\ Level' = "red"
  <2>1. z \in Active'
    BY <1>2 DEF Active, Folded
  <2> QED
    BY <1>2, <2>1 DEF Level
<1>3. IInv /\ [Next]_vars =>
        [ \A r \in alarms, q \in alarms' :
            /\ r.group = q.group /\ r.age <= Ttl
            /\ r.sev # "red" /\ q.sev = "red"
            => \/ Level' = "red" /\ q \in Active'
               \/ q.group \in cached \cap cached' /\ disk' = disk ]_vars
  BY <1>1, <1>2
<1> QED
  BY <1>3, BoardInvariant, PTL DEF Spec, EscalationResurfaces

-----------------------------------------------------------------------------
(* Advisory rows and the scans they stand for.                             *)

\* RowsMatchScans for advisory a of a board A with members M and history aff.
MatchAt(A, M, aff, a) ==
    RowsOf(A, a) # {} => M[a] = {q \in Plugins : aff[q] = a} /\ M[a] # {}

LEMMA MatchParts == RowsMatchScans <=> \A a \in AggIds : MatchAt(alarms, members, affected, a)
  BY DEF RowsMatchScans, MatchAt

\* NoAdvisory names no advisory.
LEMMA NoAdvisoryIsNone == \A a \in AggIds : a # NoAdvisory
  BY BoardAssumption

\* Once expire() has dropped the member sets of the rows that are gone, every
\* member set is the set of packages whose last scan put them on that row.
LEMMA SweptMembers ==
    ASSUME NEW A, NEW M \in [AggIds -> SUBSET Plugins],
           NEW aff \in [Plugins -> AggIds \cup {NoAdvisory}],
           NEW B, NEW a \in AggIds, MatchAt(A, M, aff, a),
           RowsOf(B, a) # {} => RowsOf(A, a) # {}
    PROVE  /\ MembersOf(B, M)[a] = {q \in Plugins : StillOn(B, aff)[q] = a}
           /\ MatchAt(B, MembersOf(B, M), StillOn(B, aff), a)
<1>1. \A q \in Plugins : StillOn(B, aff)[q] = a <=> RowsOf(B, a) # {} /\ aff[q] = a
  BY NoAdvisoryIsNone DEF StillOn
<1>2. MembersOf(B, M)[a] = IF RowsOf(B, a) = {} THEN {} ELSE M[a]
  BY DEF MembersOf
<1>3. CASE RowsOf(B, a) = {}
  BY <1>1, <1>2, <1>3 DEF MatchAt
<1>4. CASE RowsOf(B, a) # {}
  <2>1. M[a] = {q \in Plugins : aff[q] = a} /\ M[a] # {}
    BY <1>4 DEF MatchAt
  <2> QED
    BY <1>1, <1>2, <1>4, <2>1 DEF MatchAt
<1> QED
  BY <1>3, <1>4

\* Losing rows, with the history following, breaks no other row's match.
LEMMA FewerRows ==
    ASSUME NEW A, NEW M, NEW aff \in [Plugins -> AggIds \cup {NoAdvisory}],
           NEW B, NEW a \in AggIds, MatchAt(A, M, aff, a),
           RowsOf(B, a) # {} => RowsOf(A, a) # {}
    PROVE  MatchAt(B, M, StillOn(B, aff), a)
<1>1. \A q \in Plugins : RowsOf(B, a) # {} => (StillOn(B, aff)[q] = a <=> aff[q] = a)
  BY NoAdvisoryIsNone DEF StillOn
<1> QED
  BY <1>1 DEF MatchAt

\* A package that leaves an advisory it is not alone on leaves it matching.
LEMMA LeftRow ==
    ASSUME NEW A, NEW M, NEW aff \in [Plugins -> AggIds \cup {NoAdvisory}],
           NEW a \in AggIds, NEW p \in Plugins, NEW v, v # a,
           MatchAt(A, M, aff, a), M[a] # {p},
           NEW N, N[a] = M[a] \ {p},
           NEW B, RowsOf(B, a) # {} => RowsOf(A, a) # {}
    PROVE  MatchAt(B, N, [aff EXCEPT ![p] = v], a)
<1> SUFFICES ASSUME RowsOf(B, a) # {}
             PROVE  N[a] = {q \in Plugins : [aff EXCEPT ![p] = v][q] = a} /\ N[a] # {}
  BY DEF MatchAt
<1>1. M[a] = {q \in Plugins : aff[q] = a} /\ M[a] # {}
  BY DEF MatchAt
<1>2. \A q \in Plugins : [aff EXCEPT ![p] = v][q] = IF q = p THEN v ELSE aff[q]
  OBVIOUS
<1> QED
  BY <1>1, <1>2

\* The ids of a board after expire() were on it before.
LEMMA LiveIds ==
    ASSUME IInv, NEW a, RowsOf(Unexpired(alarms), a) # {}
    PROVE  RowsOf(alarms, a) # {}
<1> DEFINE L == {x \in alarms : x.age <= Ttl}
<1>1. L \subseteq Row /\ Unexpired(alarms) = Renumber(L) /\ \A x \in L : x \in alarms
  BY DEF Unexpired, IInv, Board
<1> HIDE DEF L
<1>2. PICK z \in Renumber(L) : z.id = a
  BY <1>1 DEF RowsOf
<1>3. PICK x \in L : x.id = a
  BY <1>1, <1>2, RenumberRows
<1> QED
  BY <1>1, <1>3 DEF RowsOf

\* record() brings no row of another id than the alarm's.
LEMMA RecordedRowIds ==
    ASSUME NEW A, Board(A), NEW i \in Ids, NEW sev \in Severity,
           NEW a, a # i, RowsOf(Recorded(A, i, sev), a) # {}
    PROVE  RowsOf(A, a) # {}
<1>1. PICK x \in Recorded(A, i, sev) : x.id = a
  BY DEF RowsOf
<1>2. CameFrom(A, i, sev, x)
  BY <1>1, RecordedRows
<1> QED
  BY <1>1, <1>2 DEF CameFrom, RowsOf

LEMMA RuntimeAlarmMatch ==
    ASSUME IInv, RowsMatchScans, NEW i \in Ids, NEW sev \in Severity,
           NEW ok \in SaveOutcomes, RuntimeAlarm(i, sev, ok)
    PROVE  RowsMatchScans'
<1> DEFINE live == Unexpired(alarms)
           next == Recorded(live, i, sev)
           M    == MembersOf(live, members)
           aff  == StillOn(live, affected)
<1>1. Board(live) /\ i \notin AggIds
  BY UnexpiredBoard DEF IInv, RuntimeAlarm, VerdictIds
<1>2. alarms' = next /\ members' = M /\ affected' = StillOn(next, aff)
  BY DEF RuntimeAlarm
<1>3. ASSUME NEW a \in AggIds PROVE MatchAt(next, M, StillOn(next, aff), a)
  <2>1. RowsOf(live, a) # {} => RowsOf(alarms, a) # {}
    BY LiveIds
  <2>2. RowsOf(next, a) # {} => RowsOf(live, a) # {}
    <3> HIDE DEF live
    <3> QED BY <1>1, RecordedRowIds
  <2> HIDE DEF live
  <2>3. aff \in [Plugins -> AggIds \cup {NoAdvisory}]
    BY BookkeepingType DEF IInv, TypeOK
  <2>4. MatchAt(live, M, aff, a)
    BY <2>1, SweptMembers, MatchParts DEF IInv, TypeOK
  <2> HIDE DEF next, M, aff
  <2> QED
    BY <2>2, <2>3, <2>4, FewerRows
<1> HIDE DEF next, M, aff
<1> QED
  BY <1>2, <1>3 DEF RowsMatchScans, MatchAt

LEMMA NoteCleanMatch ==
    ASSUME IInv, RowsMatchScans, NEW p \in Plugins, NoteClean(p)
    PROVE  RowsMatchScans'
<1> DEFINE kept == alarms \ (StaleVerdicts(alarms, p, {}, dismissed \cup cached)
                             \cup {x \in alarms : x.id \in Orphans(members, p, {})})
           rows == Renumber(kept)
           left == [a \in AggIds |-> members[a] \ {p}]
           shrunk(x) == x.id \in AggIds /\ p \in members[x.id]
           c(y) == IF shrunk(y) THEN [y EXCEPT !.count = Cardinality(left[y.id])] ELSE y
           aff == StillOn(rows, affected)
<1>1. kept \subseteq Row /\ \A x \in kept : x \in alarms /\ x.id \notin Orphans(members, p, {})
  BY DEF IInv, Board
<1>2. rows \subseteq Row
  <2>1. kept \subseteq alarms
    OBVIOUS
  <2> HIDE DEF kept
  <2> QED BY <2>1, SubBoard DEF IInv, Board
<1>3. alarms' = {c(y) : y \in rows} /\ members' = left /\ affected' = [aff EXCEPT ![p] = NoAdvisory]
  BY DEF NoteClean
<1>4. \A y \in rows : c(y).id = y.id
  <2> HIDE DEF rows, left, shrunk
  <2> QED BY <1>2 DEF Row
<1>5. \A y \in rows : \E x \in kept : y.id = x.id
  <2> HIDE DEF kept
  <2> QED BY <1>1, RenumberRows
<1>6. ASSUME NEW a \in AggIds
      PROVE  MatchAt(alarms', left, [aff EXCEPT ![p] = NoAdvisory], a)
  <2> SUFFICES ASSUME RowsOf(alarms', a) # {}
               PROVE  MatchAt(alarms', left, [aff EXCEPT ![p] = NoAdvisory], a)
    BY Zenon DEF MatchAt
  <2> HIDE DEF rows, c, kept, aff
  <2>1. PICK y \in rows : y.id = a
    BY <1>3, <1>4 DEF RowsOf
  <2>2. PICK x \in kept : x.id = a
    BY <1>5, <2>1
  <2>3. RowsOf(rows, a) # {} /\ RowsOf(alarms, a) # {}
    BY <1>1, <2>1, <2>2 DEF RowsOf
  <2>4. members[a] # {p} /\ left[a] = members[a] \ {p}
    BY <1>1, <2>2 DEF Orphans
  <2>5. aff \in [Plugins -> AggIds \cup {NoAdvisory}]
    BY BookkeepingType DEF IInv, TypeOK, aff
  <2>6. MatchAt(rows, members, aff, a)
    BY <2>3, FewerRows, MatchParts DEF IInv, TypeOK, aff
  <2> HIDE DEF left
  <2> QED
    BY <2>3, <2>4, <2>5, <2>6, LeftRow, NoAdvisoryIsNone
<1> HIDE DEF left, aff
<1> QED
  BY <1>3, <1>6 DEF RowsMatchScans, MatchAt

LEMMA NoteVerdictMatch ==
    ASSUME IInv, RowsMatchScans, NEW p \in Plugins, NEW i \in VerdictIds,
           NEW sev \in Severity, NEW ok \in SaveOutcomes, NoteVerdict(p, i, sev, ok)
    PROVE  RowsMatchScans'
<1> DEFINE live  == Unexpired(alarms)
           next  == Recorded(live, i, sev)
           M     == MembersOf(live, members)
           kept  == next \ (StaleVerdicts(next, p, {i}, FoldsAfter(live, i, sev) \cup cached')
                            \cup {x \in next : x.id \in Orphans(M, p, {i})})
           rows  == Renumber(kept)
           all   == Joined(live, p, i)
           was   == StillOn(live, affected)
           aff   == StillOn(rows, was)
           back  == IF i \in AggIds /\ RowsOf(rows, i) # {} THEN i ELSE NoAdvisory
           n     == Cardinality(all[i])
<1>1. i \in Ids /\ Board(live) /\ Board(next)
  BY BoardAssumption, UnexpiredBoard, RecordedBoard DEF IInv, VerdictIds
<1>2. /\ alarms' = IF i \in AggIds THEN Counted(rows, i, n) ELSE rows
      /\ members' = all
      /\ affected' = [aff EXCEPT ![p] = back]
  BY DEF NoteVerdict
<1>3. kept \subseteq Row /\ \A x \in kept : x \in next /\ x.id \notin Orphans(M, p, {i})
  <2> HIDE DEF next
  <2> QED BY <1>1 DEF Board
<1>4. rows \subseteq Row
  <2>1. kept \subseteq next
    OBVIOUS
  <2> HIDE DEF kept, next
  <2> QED BY <1>1, <2>1, SubBoard DEF Board
<1>5. \A y \in rows : \E x \in kept : y.id = x.id
  <2> HIDE DEF kept
  <2> QED BY <1>3, RenumberRows
<1>6. \A z \in alarms' : \E y \in rows : z.id = y.id
  <2> DEFINE c(x) == IF x.id = i THEN [x EXCEPT !.count = n] ELSE x
  <2> HIDE DEF rows, n
  <2>1. \A x \in rows : c(x).id = x.id
    BY <1>4 DEF Row
  <2>2. Counted(rows, i, n) = {c(x) : x \in rows}
    BY DEF Counted
  <2> HIDE DEF c
  <2> QED BY <1>2, <2>1, <2>2
<1>7. /\ M \in [AggIds -> SUBSET Plugins]
      /\ was \in [Plugins -> AggIds \cup {NoAdvisory}]
      /\ aff \in [Plugins -> AggIds \cup {NoAdvisory}]
  <2> HIDE DEF live, rows
  <2> QED BY BookkeepingType DEF IInv, TypeOK
<1>8. \A a \in AggIds : all[a] = IF a = i THEN M[a] \cup {p} ELSE M[a] \ {p}
  <2> HIDE DEF live
  <2> QED BY DEF Joined
<1>9. ASSUME NEW a \in AggIds
      PROVE  M[a] = {q \in Plugins : was[q] = a} /\ MatchAt(live, M, was, a)
  <2>1. RowsOf(live, a) # {} => RowsOf(alarms, a) # {}
    BY LiveIds
  <2> HIDE DEF live
  <2> QED
    BY <2>1, SweptMembers, MatchParts DEF IInv, TypeOK
<1>10. ASSUME NEW a \in AggIds, RowsOf(alarms', a) # {}
       PROVE  \E x \in kept : x.id = a /\ RowsOf(rows, a) # {}
  <2> HIDE DEF rows, kept
  <2>1. PICK y \in rows : y.id = a
    BY <1>6, <1>10 DEF RowsOf
  <2> QED
    BY <1>5, <2>1 DEF RowsOf
<1>11. ASSUME NEW a \in AggIds, a # i
       PROVE  MatchAt(alarms', all, [aff EXCEPT ![p] = back], a)
  <2> SUFFICES ASSUME RowsOf(alarms', a) # {}
               PROVE  MatchAt(alarms', all, [aff EXCEPT ![p] = back], a)
    BY Zenon DEF MatchAt
  <2>1. PICK x \in kept : x.id = a /\ RowsOf(rows, a) # {}
    <3> HIDE DEF kept, rows
    <3> QED BY <1>10
  <2>2. x \in next /\ a \notin Orphans(M, p, {i})
    <3> HIDE DEF next, M
    <3> QED BY <1>3, <2>1
  <2>3. RowsOf(live, a) # {}
    <3>1. RowsOf(next, a) # {}
      <4> HIDE DEF next
      <4> QED BY <2>1, <2>2 DEF RowsOf
    <3> HIDE DEF live
    <3> QED BY <1>1, <1>11, <3>1, RecordedRowIds
  <2>4. M[a] # {p}
    <3> HIDE DEF M
    <3> QED BY <1>11, <2>2 DEF Orphans
  <2>5. back # a
    BY <1>11, NoAdvisoryIsNone
  <2> HIDE DEF live, rows, M, was, all, back
  <2>6. MatchAt(rows, M, aff, a)
    BY <1>7, <1>9, <2>3, FewerRows
  <2>7. all[a] = M[a] \ {p}
    BY <1>8, <1>11
  <2> HIDE DEF aff
  <2> QED
    BY <1>7, <2>1, <2>4, <2>5, <2>6, <2>7, LeftRow
<1>12. ASSUME i \in AggIds
       PROVE  MatchAt(alarms', all, [aff EXCEPT ![p] = back], i)
  <2> SUFFICES ASSUME RowsOf(alarms', i) # {}
               PROVE  MatchAt(alarms', all, [aff EXCEPT ![p] = back], i)
    BY Zenon DEF MatchAt
  <2>1. RowsOf(rows, i) # {}
    <3> HIDE DEF kept, rows
    <3> QED BY <1>10, <1>12
  <2>2. back = i
    BY <1>12, <2>1
  <2> HIDE DEF live, rows, M, was, all, back
  <2>3. all[i] = M[i] \cup {p} /\ M[i] = {q \in Plugins : was[q] = i}
    BY <1>8, <1>9, <1>12
  <2>4. \A q \in Plugins : aff[q] = i <=> was[q] = i
    BY <1>7, <1>12, <2>1, NoAdvisoryIsNone DEF StillOn
  <2> HIDE DEF aff
  <2>5. \A q \in Plugins : [aff EXCEPT ![p] = back][q] = i <=> q = p \/ was[q] = i
    BY <1>7, <2>2, <2>4
  <2> QED
    BY <2>3, <2>5 DEF MatchAt
<1> HIDE DEF all, aff, back
<1> QED
  BY <1>2, <1>11, <1>12 DEF RowsMatchScans, MatchAt

\* The panel, the clock, a poll and a restart lose rows or leave them alone.
LEMMA OtherMatch ==
    ASSUME IInv, RowsMatchScans,
           \/ \E i \in Ids, ok \in SaveOutcomes : Dismiss(i, ok) \/ Restore(i, ok)
           \/ Snapshot \/ Tick \/ Restart \/ UNCHANGED vars
    PROVE  RowsMatchScans'
<1>1. CASE alarms' = alarms /\ members' = members /\ affected' = affected
  BY <1>1 DEF RowsMatchScans, RowsOf
<1>2. CASE Snapshot
  <2> DEFINE live == Unexpired(alarms)
             M    == MembersOf(live, members)
             aff  == StillOn(live, affected)
  <2>1. alarms' = live /\ members' = M /\ affected' = aff
    BY <1>2 DEF Snapshot
  <2>2. ASSUME NEW a \in AggIds PROVE MatchAt(live, M, aff, a)
    <3>1. RowsOf(live, a) # {} => RowsOf(alarms, a) # {}
      BY LiveIds
    <3> HIDE DEF live
    <3> QED BY <3>1, SweptMembers, MatchParts DEF IInv, TypeOK
  <2> HIDE DEF live, M, aff
  <2> QED
    BY <2>1, <2>2 DEF RowsMatchScans, MatchAt
<1>3. CASE Tick
  <2>1. \A z \in alarms' : \E r \in alarms : z.id = r.id
    <3> DEFINE up(r) == [r EXCEPT !.age = IF @ <= Ttl THEN @ + 1 ELSE @]
    <3>1. alarms' = {up(r) : r \in alarms}
      BY <1>3 DEF Tick
    <3>2. \A r \in alarms : up(r).id = r.id
      BY DEF IInv, Board, Row
    <3> HIDE DEF up
    <3> QED BY <3>1, <3>2
  <2>2. \A a : RowsOf(alarms', a) # {} => RowsOf(alarms, a) # {}
    BY <2>1 DEF RowsOf
  <2> QED
    BY <1>3, <2>2 DEF Tick, RowsMatchScans
<1>4. CASE Restart
  BY <1>4 DEF Restart, RowsMatchScans, RowsOf
<1> QED
  BY <1>1, <1>2, <1>3, <1>4 DEF Dismiss, Restore, vars

\* An advisory row names exactly the packages whose last scan it explains,
\* and goes with the last of them (noteScan, anchorGroup, clearScanVerdict,
\* expire), in any order of scans, storms, trims and restarts, for any number
\* of packages and advisories.
THEOREM AdvisoryRowsMatch == Spec => []RowsMatchScans
<1>1. Init => RowsMatchScans
  BY DEF Init, RowsMatchScans, RowsOf
<1>2. IInv /\ RowsMatchScans /\ [Next]_vars => RowsMatchScans'
  <2> SUFFICES ASSUME IInv, RowsMatchScans, [Next]_vars PROVE RowsMatchScans'
    OBVIOUS
  <2>1. CASE \E i \in Ids, sev \in Severity, ok \in SaveOutcomes : RuntimeAlarm(i, sev, ok)
    BY <2>1, RuntimeAlarmMatch
  <2>2. CASE \E p \in Plugins, i \in VerdictIds, sev \in Severity, ok \in SaveOutcomes :
                 NoteVerdict(p, i, sev, ok)
    BY <2>2, NoteVerdictMatch
  <2>3. CASE \E p \in Plugins : NoteClean(p)
    BY <2>3, NoteCleanMatch
  <2> QED
    BY <2>1, <2>2, <2>3, OtherMatch DEF Next
<1> QED
  BY <1>1, <1>2, BoardInvariant, PTL DEF Spec
=============================================================================
