----------------------------- MODULE PowerSumProofs -----------------------------
(***************************************************************************)
(* What rows and minors tell, for every field, set of ids and history of   *)
(* edits: each row holds the power sums of its party's ids, and the lemmas *)
(* of FieldProofs say what those tell.                                     *)
(***************************************************************************)
EXTENDS PowerSums, FieldProofs

\* Each row is that of its party's ids, never more than MaxLoad.
RowsInv ==
    /\ ids \in [Party -> SUBSET Id]
    /\ \A p \in Party : Cardinality(ids[p]) <= MaxLoad /\ Sums(row[p], ids[p])
    /\ row \in [Party -> Row]

LEMMA IdsAre == Id \subseteq AllIds /\ MaxLoad \in Nat /\ MaxLoad <= 7
BY PowerSumsAssumption DEF AllIds, K

LEMMA FewIds == ASSUME NEW s \in SUBSET Id PROVE IsFiniteSet(s) /\ Cardinality(s) \in Nat
BY IdsAre, IdsTyped, FS_Subset, FS_CardinalityType

LEMMA RowsStart == Init => RowsInv
<1> SUFFICES ASSUME Init PROVE RowsInv
  OBVIOUS
<1>1. Cardinality({}) = 0 /\ Sums(ZeroRow, {})
  BY NoIds, FS_EmptySet
<1>2. ZeroRow \in Row
  BY <1>1 DEF Sums
<1> QED BY <1>1, <1>2, IdsAre DEF Init, RowsInv

LEMMA RowsStep == RowsInv /\ [Next]_vars => RowsInv'
<1> SUFFICES ASSUME RowsInv, [Next]_vars PROVE RowsInv'
  OBVIOUS
<1>0. /\ ids \in [Party -> SUBSET Id] /\ row \in [Party -> Row]
      /\ \A p \in Party : Cardinality(ids[p]) <= MaxLoad /\ Sums(row[p], ids[p])
  BY DEF RowsInv
<1>1. ASSUME NEW p \in Party, NEW x \in Id, Insert(p, x) PROVE RowsInv'
  <2>1. PICK s, r : s = ids[p] \cup {x} /\ r = EditRow(row[p], x, 1)
    OBVIOUS
  <2>2. /\ ids' = [ids EXCEPT ![p] = s] /\ row' = [row EXCEPT ![p] = r]
        /\ x \notin ids[p] /\ Cardinality(ids[p]) < MaxLoad
    BY <1>1, <2>1 DEF Insert
  <2>3. s \in SUBSET Id /\ Sums(r, s)
    BY <1>0, <2>1, <2>2, IdsAre, EditSums
  <2>4. Cardinality(s) <= MaxLoad
    <3>1. IsFiniteSet(ids[p]) /\ Cardinality(ids[p]) \in Nat
      BY <1>0, FewIds
    <3>2. Cardinality(s) = Cardinality(ids[p]) + 1
      BY <2>1, <2>2, <3>1, FS_AddElement
    <3> QED BY <2>2, <3>1, <3>2, IdsAre
  <2>5. r \in Row
    BY <2>3 DEF Sums
  <2> QED BY <1>0, <2>2, <2>3, <2>4, <2>5 DEF RowsInv
<1>2. ASSUME NEW p \in Party, NEW x \in Id, Delete(p, x) PROVE RowsInv'
  <2>1. PICK s, r : s = ids[p] \ {x} /\ r = EditRow(row[p], x, -1)
    OBVIOUS
  <2>2. ids' = [ids EXCEPT ![p] = s] /\ row' = [row EXCEPT ![p] = r] /\ x \in ids[p]
    BY <1>2, <2>1 DEF Delete
  <2>3. s \in SUBSET Id /\ Sums(r, s)
    BY <1>0, <2>1, <2>2, IdsAre, EditSums
  <2>4. Cardinality(s) <= MaxLoad
    <3>1. IsFiniteSet(ids[p]) /\ s \subseteq ids[p] /\ Cardinality(ids[p]) \in Nat
      BY <1>0, <2>1, FewIds
    <3>2. Cardinality(s) <= Cardinality(ids[p]) /\ Cardinality(s) \in Nat
      BY <2>3, <3>1, FewIds, FS_Subset
    <3> QED BY <1>0, <3>1, <3>2, IdsAre
  <2>5. r \in Row
    BY <2>3 DEF Sums
  <2> QED BY <1>0, <2>2, <2>3, <2>4, <2>5 DEF RowsInv
<1>3. CASE UNCHANGED vars
  BY <1>0, <1>3 DEF RowsInv, vars
<1> QED BY <1>1, <1>2, <1>3 DEF Next

LEMMA RowsInvariant == Spec => []RowsInv
BY RowsStart, RowsStep, PTL DEF Spec

\* Every entry of a row is canonical.
THEOREM PowerSumsTypeCorrect == Spec => []TypeOK
<1>1. RowsInv => TypeOK
  BY DEF RowsInv, TypeOK
<1> QED BY <1>1, RowsInvariant, PTL

\* A row tells the ids it was edited from, at most seven, whatever the edits: only
\* that of no id is zero, and the two parties' are equal only if their sets are
\* (query.cpp:343-379).
THEOREM RowsTellHolds == Spec => []RowsTell
<1>1. ASSUME RowsInv PROVE RowsTell
  <2>1. \A p \in Party : /\ ids[p] \in SUBSET AllIds /\ Cardinality(ids[p]) <= 7
                         /\ Sums(row[p], ids[p])
    <3>1. TAKE p \in Party
    <3>2. ids[p] \in SUBSET Id /\ Cardinality(ids[p]) <= MaxLoad /\ Sums(row[p], ids[p])
      BY <1>1 DEF RowsInv
    <3> QED BY <3>2, FewIds, IdsAre
  <2>2. Sums(ZeroRow, {}) /\ Cardinality({}) <= 7 /\ {} \in SUBSET AllIds
    BY NoIds, FS_EmptySet
  <2>3. PrimeField /\ AllFactors /\ 7 < P
    BY PrimeAssumption DEF K
  <2>4. ASSUME NEW p \in Party PROVE row[p] = ZeroRow <=> ids[p] = {}
    <3>1. ASSUME row[p] = ZeroRow PROVE ids[p] = {}
      BY <2>1, <2>2, <2>3, <3>1, RowsApart
    <3>2. ASSUME ids[p] = {} PROVE row[p] = ZeroRow
      BY <2>1, <2>2, <3>2, RowsSame
    <3> QED BY <3>1, <3>2
  <2>5. row["R"] = row["S"] <=> ids["R"] = ids["S"]
    <3>1. /\ ids["R"] \in SUBSET AllIds /\ Cardinality(ids["R"]) <= 7 /\ Sums(row["R"], ids["R"])
          /\ ids["S"] \in SUBSET AllIds /\ Cardinality(ids["S"]) <= 7 /\ Sums(row["S"], ids["S"])
      BY <2>1 DEF Party
    <3>2. ASSUME row["R"] = row["S"] PROVE ids["R"] = ids["S"]
      BY <2>3, <3>1, <3>2, RowsApart
    <3>3. ASSUME ids["R"] = ids["S"] PROVE row["R"] = row["S"]
      BY <3>1, <3>3, RowsSame
    <3> QED BY <3>2, <3>3
  <2> QED BY <2>4, <2>5 DEF RowsTell
<1> QED BY <1>1, RowsInvariant, PTL

\* The minors of what the two rows' shares add up to tell the size of the
\* difference between the sets, if it is at most four (minors.cpp:118-124).
THEOREM MinorsTellHolds == Spec => []MinorsTell
<1>1. ASSUME RowsInv PROVE MinorsTell
  <2>1. PICK s, t, r, q : s = ids["R"] /\ t = ids["S"] /\ r = row["R"] /\ q = row["S"]
    OBVIOUS
  <2>2. s \in SUBSET Id /\ t \in SUBSET Id /\ Sums(r, s) /\ Sums(q, t)
    BY <1>1, <2>1 DEF RowsInv, Party
  <2>3. s \in SUBSET AllIds /\ t \in SUBSET AllIds
    BY <2>2, IdsAre
  <2>4. PICK d : d = [k \in 1..7 |-> Add(Syndrome("R", r)[k], Syndrome("S", q)[k])]
    OBVIOUS
  <2>5. \A k \in 1..7 : Is(d[k], Gap(s, t)[k])
    BY <2>2, <2>3, <2>4, SyndromesAdd
  <2>6. d \in Row
    BY <2>4, <2>5 DEF Is, Row, K
  <2>7. Difference = Apart(s, t)
    BY <2>1 DEF Difference, Apart
  <2>8. Cardinality(Apart(s, t)) \in Nat
    <3>1. Apart(s, t) \in SUBSET Id
      BY <2>2 DEF Apart
    <3> QED BY <3>1, FewIds
  <2>9. ASSUME Cardinality(Apart(s, t)) <= 4
        PROVE  TOf(MinorsInClear(d)) = Cardinality(Apart(s, t))
    <3>1. Cardinality(Apart(s, t)) \in 0..4
      BY <2>8, <2>9
    <3> QED BY <2>3, <2>5, <2>6, <3>1, MinorsCount, PrimeAssumption
  <2> QED BY <2>1, <2>4, <2>7, <2>9 DEF MinorsTell, K, T
<1> QED BY <1>1, RowsInvariant, PTL

===============================================================================
