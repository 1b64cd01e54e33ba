---------------------------- MODULE SessionProofs ----------------------------
(***************************************************************************)
(* LocalCoherence, TypeOK, AnswerDurable and MixedQueriesTellNothing,      *)
(* proved for every number of ids, buckets, days, sessions, crashes and    *)
(* offline edits: what a party holds, and what it would reload, is always  *)
(* the table of its own ids under the salt recorded beside it, every       *)
(* variable stays in its type, an answer that was told is on disk, and a   *)
(* query only one party made a maintenance query of tells nobody anything. *)
(* First the sums over sets of buckets, which is how t_share comes about:  *)
(* what SumOver is for every finite set, what the two commits of a query   *)
(* make of the caches of both parties, and what their shares of the count  *)
(* open to.                                                                *)
(*                                                                         *)
(* The second half is the joint invariant of the two parties, for every    *)
(* number of ids, buckets, days and sessions: until the first crash, and   *)
(* as long as both are always given the same --force-refresh, the parties  *)
(* stay in step, their shares stay coherent and every count they open is   *)
(* right.  The steps between the days come first, then those of a query,   *)
(* from the provisioning message to the opening of the count, then the     *)
(* theorems that follow: the invariants of SessionProperties and the       *)
(* refinement of PsiCardinality.  The last part has crashes: what two      *)
(* state files hold when every session has one query.                      *)
(***************************************************************************)
EXTENDS SessionInvariant, FiniteSetTheorems, WellFoundedInduction, TLAPS

-------------------------------------------------------------------------------
(* Induction over the subsets of a finite set.                               *)

\* A nonempty family of subsets of a finite set has a member none of whose
\* proper subsets is in the family.
LEMMA SmallestSet ==
    ASSUME NEW S, IsFiniteSet(S), NEW bad \in SUBSET (SUBSET S), bad # {}
    PROVE  \E s \in bad : \A t \in SUBSET s : t # s => t \notin bad
<1> DEFINE R == StrictSubsetOrdering(S)
<1>1. bad \subseteq FiniteSubsetsOf(S)
  BY FS_Subset DEF FiniteSubsetsOf
<1>2. IsWellFoundedOn(R, FiniteSubsetsOf(S))
  BY FS_StrictSubsetOrderingWellFounded
<1> HIDE DEF R
<1>3. PICK s \in bad : \A t \in bad : ~ (<<t, s>> \in R)
  BY <1>1, <1>2, WFMin
<1>4. \A t \in SUBSET s : t # s => <<t, s>> \in R
  BY <1>3 DEF R, StrictSubsetOrdering
<1>5. \A t \in SUBSET s : t # s => t \notin bad
  BY ONLY <1>3, <1>4
<1> QED BY <1>5

\* A family that has {} and, with a set, every set of one more element.
LEMMA SubsetInduction ==
    ASSUME NEW S, IsFiniteSet(S), NEW F, {} \in F,
           \A s \in SUBSET S, x \in S : s \in F /\ x \notin s => s \cup {x} \in F
    PROVE  S \in F
<1> DEFINE bad == {s \in SUBSET S : s \notin F}
<1>1. SUFFICES ASSUME S \notin F PROVE FALSE
  OBVIOUS
<1>2. bad # {} /\ bad \in SUBSET (SUBSET S)
  BY <1>1
<1>3. PICK s \in bad : \A t \in SUBSET s : t # s => t \notin bad
  <2> HIDE DEF bad
  <2> QED BY <1>2, SmallestSet
<1>4. PICK x : x \in s
  BY <1>3
<1>5. /\ s \ {x} \in SUBSET s /\ s \ {x} # s /\ x \in S
      /\ (s \ {x}) \cup {x} = s /\ s \ {x} \in SUBSET S
  BY <1>3, <1>4
<1>6. s \ {x} \in F
  BY <1>3, <1>5
<1> QED BY <1>3, <1>5, <1>6

-------------------------------------------------------------------------------
(* SumOver takes the elements one by one.                                    *)

Some(s) == CHOOSE x \in s : TRUE

\* g sums up f over every subset of S.
Sums(g, f, S) ==
    g = [s \in SUBSET S |->
            IF s = {} THEN 0 ELSE f[Some(s)] + g[s \ {Some(s)}]]

LEMMA SumIs ==
    ASSUME NEW f, NEW S
    PROVE  SumOver(f, S) = (CHOOSE g : Sums(g, f, S))[S]
BY DEF SumOver, MapThenSumSet, MapThenFoldSet, Sums, Some

LEMMA SomeIn == ASSUME NEW s, s # {} PROVE Some(s) \in s
BY DEF Some

\* What is summed up for a subset does not depend on the larger set.
LEMMA SumsUnique ==
    ASSUME NEW f, NEW S, IsFiniteSet(S), NEW D \in SUBSET S,
           NEW g, NEW h, Sums(g, f, S), Sums(h, f, D)
    PROVE  g[D] = h[D]
<1> DEFINE bad == {s \in SUBSET D : g[s] # h[s]}
<1>1. SUFFICES ASSUME bad # {} PROVE FALSE
  OBVIOUS
<1>2. IsFiniteSet(D) /\ bad \in SUBSET (SUBSET D)
  BY FS_Subset
<1>3. PICK s \in bad : \A t \in SUBSET s : t # s => t \notin bad
  <2> HIDE DEF bad
  <2> QED BY <1>1, <1>2, SmallestSet
<1>4. s # {}
  BY <1>3 DEF Sums
<1> DEFINE r == s \ {Some(s)}
<1>5. r \in SUBSET s /\ r # s /\ r \in SUBSET D
  BY <1>3, <1>4, SomeIn
<1>6. g[r] = h[r]
  BY <1>3, <1>5
<1>7. g[s] = f[Some(s)] + g[r] /\ h[s] = f[Some(s)] + h[r]
  BY <1>3, <1>4 DEF Sums
<1> QED BY <1>3, <1>6, <1>7

\* The function that the definition of SumOver chooses exists.
LEMMA SumsExist ==
    ASSUME NEW f, NEW S, IsFiniteSet(S)
    PROVE  \E g : Sums(g, f, S)
<1> DEFINE bad == {s \in SUBSET S : ~ \E g : Sums(g, f, s)}
<1>1. SUFFICES ASSUME bad # {} PROVE FALSE
  OBVIOUS
<1>2. PICK s \in bad : \A t \in SUBSET s : t # s => t \notin bad
  <2>1. bad \in SUBSET (SUBSET S)
    OBVIOUS
  <2> HIDE DEF bad
  <2> QED BY <1>1, <2>1, SmallestSet
<1> DEFINE g == [t \in SUBSET s |->
                    IF t = {} THEN 0
                    ELSE f[Some(t)] + SumOver(f, t \ {Some(t)})]
<1>3. ASSUME NEW t \in SUBSET s, t # s
      PROVE  /\ Sums(CHOOSE h : Sums(h, f, t), f, t)
             /\ IsFiniteSet(t)
  BY <1>2, <1>3, FS_Subset
<1>4. ASSUME NEW u \in SUBSET s, u # s
      PROVE  g[u] = SumOver(f, u)
  <2> DEFINE h == CHOOSE h : Sums(h, f, u)
  <2>1. Sums(h, f, u) /\ SumOver(f, u) = h[u]
    BY <1>3, <1>4, SumIs
  <2> HIDE DEF h
  <2>2. CASE u = {}
    BY <2>1, <2>2 DEF Sums
  <2>3. CASE u # {}
    <3> DEFINE w == u \ {Some(u)}
               k == CHOOSE k : Sums(k, f, w)
    <3>1. w \in SUBSET u /\ w \in SUBSET s /\ w # s
      BY <2>3, <1>4, SomeIn
    <3>2. Sums(k, f, w) /\ SumOver(f, w) = k[w]
      BY <1>3, <3>1, SumIs
    <3> HIDE DEF k
    <3>3. h[w] = k[w]
      BY <1>3, <1>4, <2>1, <3>1, <3>2, SumsUnique
    <3>4. h[u] = f[Some(u)] + h[w]
      BY <2>1, <2>3 DEF Sums
    <3> QED BY <2>1, <2>3, <3>2, <3>3, <3>4
  <2> QED BY <2>2, <2>3
<1>5. ASSUME NEW t \in SUBSET s, t # {}
      PROVE  g[t] = f[Some(t)] + g[t \ {Some(t)}]
  <2>1. t \ {Some(t)} \in SUBSET s /\ t \ {Some(t)} # s
    BY <1>5, SomeIn
  <2> QED BY <1>4, <1>5, <2>1
<1>6. Sums(g, f, s)
  <2>1. \A t \in SUBSET s : g[t] = IF t = {} THEN 0
                                   ELSE f[Some(t)] + g[t \ {Some(t)}]
    BY <1>5
  <2> HIDE DEF g
  <2>2. g = [t \in SUBSET s |-> g[t]]
    BY DEF g
  <2> QED BY <2>1, <2>2 DEF Sums
<1> QED BY <1>2, <1>6

LEMMA SumFirst ==
    ASSUME NEW f, NEW S, IsFiniteSet(S), S # {}
    PROVE  SumOver(f, S) = f[Some(S)] + SumOver(f, S \ {Some(S)})
<1> DEFINE r == S \ {Some(S)}
           g == CHOOSE g : Sums(g, f, S)
           h == CHOOSE h : Sums(h, f, r)
<1>1. IsFiniteSet(r) /\ r \in SUBSET S
  BY FS_Subset
<1>2. Sums(g, f, S) /\ Sums(h, f, r)
  BY <1>1, SumsExist
<1>3. SumOver(f, S) = g[S] /\ SumOver(f, r) = h[r]
  BY SumIs
<1> HIDE DEF g, h
<1>4. g[r] = h[r]
  BY <1>1, <1>2, SumsUnique
<1>5. g[S] = f[Some(S)] + g[r]
  BY <1>2 DEF Sums
<1> QED BY <1>3, <1>4, <1>5

LEMMA SumEmpty == ASSUME NEW f PROVE SumOver(f, {}) = 0
<1> DEFINE g == CHOOSE g : Sums(g, f, {})
<1>1. Sums(g, f, {}) /\ SumOver(f, {}) = g[{}]
  BY SumsExist, SumIs, FS_EmptySet
<1> HIDE DEF g
<1> QED BY <1>1 DEF Sums

\* The element that is taken out first does not matter.
LEMMA SumRemove ==
    ASSUME NEW f, NEW S, IsFiniteSet(S), \A b \in S : f[b] \in Int
    PROVE  /\ SumOver(f, S) \in Int
           /\ \A x \in S : SumOver(f, S) = f[x] + SumOver(f, S \ {x})
<1> DEFINE Fine(s) == /\ SumOver(f, s) \in Int
                      /\ \A x \in s : SumOver(f, s) = f[x] + SumOver(f, s \ {x})
           bad == {s \in SUBSET S : ~ Fine(s)}
<1>1. SUFFICES ASSUME bad # {} PROVE FALSE
  OBVIOUS
<1>2. PICK s \in bad : \A t \in SUBSET s : t # s => t \notin bad
  <2>1. bad \in SUBSET (SUBSET S)
    OBVIOUS
  <2> HIDE DEF bad
  <2> QED BY <1>1, <2>1, SmallestSet
<1>3. \A t \in SUBSET s : t # s => Fine(t)
  BY <1>2
<1>4. IsFiniteSet(s) /\ s \in SUBSET S
  BY <1>2, FS_Subset
<1>5. s # {}
  <2>1. Fine({})
    BY SumEmpty
  <2>2. ~ Fine(s)
    BY <1>2
  <2> QED BY ONLY <2>1, <2>2
<1> DEFINE a == Some(s)
           r == s \ {a}
<1>6. a \in s
  BY <1>5, SomeIn
<1> HIDE DEF a
<1>7. SumOver(f, s) = f[a] + SumOver(f, r)
  BY <1>4, <1>5, SumFirst DEF a
<1>8. Fine(r) /\ f[a] \in Int
  BY <1>3, <1>4, <1>6
<1>9. ASSUME NEW x \in s
      PROVE  SumOver(f, s) = f[x] + SumOver(f, s \ {x})
  <2>1. CASE x = a
    BY <1>7, <2>1
  <2>2. CASE x # a
    <3> DEFINE q == s \ {x}
    <3>1. q \in SUBSET s /\ q # s /\ a \in q /\ x \in r
      BY <1>6, <2>2
    <3>2. r \ {x} = q \ {a}
      OBVIOUS
    <3>3. Fine(q) /\ f[x] \in Int
      BY <1>3, <1>4, <3>1
    <3>4. q \ {a} \in SUBSET s /\ q \ {a} # s
      BY <1>6
    <3>5. SumOver(f, q \ {a}) \in Int
      BY <1>3, <3>4
    <3>6. SumOver(f, q) = f[a] + SumOver(f, q \ {a})
      BY <3>1, <3>3
    <3>7. SumOver(f, r) = f[x] + SumOver(f, q \ {a})
      BY <1>8, <3>1, <3>2
    <3> QED BY <1>7, <1>8, <3>3, <3>5, <3>6, <3>7
  <2> QED BY <2>1, <2>2
<1>10. SumOver(f, s) \in Int
  BY <1>7, <1>8
<1> QED BY <1>2, <1>9, <1>10

\* Sums of a function and of a set with one element more.
LEMMA SumAdd ==
    ASSUME NEW f, NEW S, IsFiniteSet(S), NEW x, x \notin S,
           \A b \in S \cup {x} : f[b] \in Int
    PROVE  /\ SumOver(f, S) \in Int
           /\ SumOver(f, S \cup {x}) = f[x] + SumOver(f, S)
<1>1. IsFiniteSet(S \cup {x}) /\ x \in S \cup {x} /\ (S \cup {x}) \ {x} = S
  BY FS_AddElement
<1>2. SumOver(f, S \cup {x}) = f[x] + SumOver(f, (S \cup {x}) \ {x})
  BY <1>1, SumRemove
<1>3. SumOver(f, S) \in Int
  BY SumRemove
<1> QED BY <1>1, <1>2, <1>3

\* Two functions that agree on the set, or modulo P on it.
LEMMA SumSame ==
    ASSUME NEW f, NEW g, NEW S, IsFiniteSet(S),
           \A b \in S : f[b] \in Int /\ f[b] = g[b]
    PROVE  SumOver(f, S) = SumOver(g, S)
<1> DEFINE F == {s \in SUBSET S : SumOver(f, s) = SumOver(g, s)}
<1>1. {} \in F
  BY SumEmpty
<1>2. ASSUME NEW s \in SUBSET S, NEW x \in S, s \in F, x \notin s
      PROVE  s \cup {x} \in F
  <2>1. IsFiniteSet(s) /\ \A b \in s \cup {x} : f[b] \in Int /\ g[b] \in Int
    BY FS_Subset
  <2>2. /\ SumOver(f, s \cup {x}) = f[x] + SumOver(f, s)
        /\ SumOver(g, s \cup {x}) = g[x] + SumOver(g, s)
    BY <1>2, <2>1, SumAdd
  <2> QED BY <1>2, <2>2
<1>3. S \in F
  <2> HIDE DEF F
  <2> QED BY <1>1, <1>2, SubsetInduction
<1> QED BY <1>3

\* Elements at which the function is 0 do not count.
LEMMA SumSupport ==
    ASSUME NEW f, NEW S, IsFiniteSet(S), NEW D \in SUBSET S,
           \A b \in S : f[b] \in Int, \A b \in S \ D : f[b] = 0
    PROVE  SumOver(f, S) = SumOver(f, D)
<1> DEFINE F == {s \in SUBSET S : SumOver(f, s) = SumOver(f, s \cap D)}
<1>1. {} \in F
  <2>1. {} \cap D = {}
    OBVIOUS
  <2> QED BY <2>1
<1>2. ASSUME NEW s \in SUBSET S, NEW x \in S, s \in F, x \notin s
      PROVE  s \cup {x} \in F
  <2>1. /\ IsFiniteSet(s) /\ IsFiniteSet(s \cap D)
        /\ \A b \in s \cup {x} : f[b] \in Int
    BY FS_Subset
  <2>2. /\ SumOver(f, s) \in Int
        /\ SumOver(f, s \cup {x}) = f[x] + SumOver(f, s)
    BY <1>2, <2>1, SumAdd
  <2>3. CASE x \in D
    <3>1. (s \cup {x}) \cap D = (s \cap D) \cup {x} /\ x \notin s \cap D
      BY <1>2, <2>3
    <3>2. SumOver(f, (s \cap D) \cup {x}) = f[x] + SumOver(f, s \cap D)
      BY <2>1, <3>1, SumAdd
    <3> QED BY <1>2, <2>2, <3>1, <3>2
  <2>4. CASE x \notin D
    <3>1. (s \cup {x}) \cap D = s \cap D /\ f[x] = 0
      BY <2>4
    <3>2. SumOver(f, s \cup {x}) = SumOver(f, s)
      BY <2>2, <3>1
    <3>3. SumOver(f, s) = SumOver(f, s \cap D)
      BY <1>2
    <3>4. SumOver(f, s \cup {x}) = SumOver(f, (s \cup {x}) \cap D)
      BY ONLY <3>1, <3>2, <3>3
    <3> QED BY <3>4
  <2> QED BY <2>3, <2>4
<1>3. S \in F
  <2> HIDE DEF F
  <2> QED BY <1>1, <1>2, SubsetInduction
<1>4. S \cap D = D
  OBVIOUS
<1> QED BY <1>3, <1>4

-------------------------------------------------------------------------------
(* Arithmetic modulo P.                                                      *)

Congruent(x, y) == \E k \in Int : x = y + k * P

LEMMA Modulus == P \in Nat /\ P > 2
BY ConstantsAssumption

LEMMA ResidueIn ==
    ASSUME NEW x \in Int
    PROVE  /\ x % P \in Fp /\ x % P \in Int
           /\ x = (x % P) + (x \div P) * P /\ x \div P \in Int
BY Modulus DEF Fp

LEMMA ResidueOfSmall ==
    ASSUME NEW x \in Fp
    PROVE  x % P = x /\ x \in Int
BY Modulus DEF Fp

\* Residues are equal exactly when the numbers are congruent.
LEMMA ResidueCongruent ==
    ASSUME NEW x \in Int
    PROVE  Congruent(x % P, x) /\ Congruent(x, x % P)
<1>1. PICK k \in Int : x = (x % P) + k * P
  BY ResidueIn
<1>2. x % P = x + (-k) * P /\ -k \in Int
  <2>1. (-k) * P = -(k * P) /\ k * P \in Int /\ x % P \in Int
    BY Modulus, ResidueIn
  <2> QED BY <1>1, <2>1
<1> QED BY <1>1, <1>2 DEF Congruent

\* There is one residue in Fp.
LEMMA OneResidue ==
    ASSUME NEW r \in Fp, NEW s \in Fp, NEW n \in Int, r = s + n * P
    PROVE  r = s
<1>1. r \in Int /\ s \in Int /\ 0 <= r /\ r < P /\ 0 <= s /\ s < P
  BY Modulus DEF Fp
<1>2. n * P \in Int /\ n * P < P /\ n * P > -P
  BY <1>1, Modulus
<1>3. CASE n >= 1
  <2>1. n * P >= 1 * P
    BY <1>3, Modulus
  <2> QED BY <1>2, <2>1, Modulus
<1>4. CASE n <= -1
  <2>1. n * P <= (-1) * P /\ (-1) * P = -P
    BY <1>4, Modulus
  <2> QED BY <1>2, <2>1, Modulus
<1>5. CASE n = 0
  BY <1>1, <1>5, Modulus
<1> QED BY <1>3, <1>4, <1>5

LEMMA CongruentSame ==
    ASSUME NEW x \in Int, NEW y \in Int, Congruent(x, y)
    PROVE  x % P = y % P
<1>1. PICK k \in Int : x = y + k * P
  BY DEF Congruent
<1> DEFINE a == x \div P
           b == y \div P
<1>2. /\ x % P \in Fp /\ y % P \in Fp /\ a \in Int /\ b \in Int
      /\ x = (x % P) + a * P /\ y = (y % P) + b * P
      /\ x % P \in Int /\ y % P \in Int
  BY ResidueIn
<1> HIDE DEF a, b
<1>3. x % P = (y % P) + (b + k - a) * P
  <2>1. (b + k - a) * P = b * P + k * P - a * P
    BY <1>2, Modulus
  <2>2. a * P \in Int /\ b * P \in Int /\ k * P \in Int
    BY <1>2, Modulus
  <2> QED BY <1>1, <1>2, <2>1, <2>2
<1>4. b + k - a \in Int
  BY <1>2
<1> QED BY <1>2, <1>3, <1>4, OneResidue

LEMMA CongruentPlus ==
    ASSUME NEW x \in Int, NEW y \in Int, NEW u \in Int, NEW v \in Int,
           Congruent(x, y), Congruent(u, v)
    PROVE  Congruent(x + u, y + v) /\ Congruent(x - u, y - v)
<1>1. PICK k \in Int : x = y + k * P
  BY DEF Congruent
<1>2. PICK l \in Int : u = v + l * P
  BY DEF Congruent
<1>3. /\ x + u = y + v + (k + l) * P
      /\ x - u = y - v + (k - l) * P
  <2>1. (k + l) * P = k * P + l * P /\ (k - l) * P = k * P - l * P
    BY Modulus
  <2>2. k * P \in Int /\ l * P \in Int
    BY Modulus
  <2> QED BY <1>1, <1>2, <2>1, <2>2
<1> QED BY <1>3 DEF Congruent

LEMMA SameCongruent ==
    ASSUME NEW x \in Int, NEW y \in Int, x % P = y % P
    PROVE  Congruent(x, y)
<1>1. PICK k \in Int : x = (x % P) + k * P
  BY ResidueIn
<1>2. PICK l \in Int : y = (y % P) + l * P
  BY ResidueIn
<1>3. x = y + (k - l) * P
  <2>1. (k - l) * P = k * P - l * P /\ k * P \in Int /\ l * P \in Int
        /\ x % P \in Int
    BY Modulus, ResidueIn
  <2> QED BY <1>1, <1>2, <2>1
<1> QED BY <1>3 DEF Congruent

\* Sums and differences modulo P of values modulo P.
LEMMA ResiduePlus ==
    ASSUME NEW x \in Int, NEW y \in Int, NEW u \in Int, NEW v \in Int,
           x % P = y % P, u % P = v % P
    PROVE  (x + u) % P = (y + v) % P /\ (x - u) % P = (y - v) % P
BY SameCongruent, CongruentPlus, CongruentSame

LEMMA ResidueTwice ==
    ASSUME NEW x \in Int
    PROVE  (x % P) % P = x % P
BY ResidueIn, ResidueOfSmall

\* The sum, modulo P, of what is the sum of two functions modulo P.
LEMMA SumPlus ==
    ASSUME NEW f, NEW g, NEW h, NEW S, IsFiniteSet(S),
           \A b \in S : /\ f[b] \in Int /\ g[b] \in Int /\ h[b] \in Int
                       /\ h[b] % P = (f[b] + g[b]) % P
    PROVE  /\ SumOver(f, S) \in Int /\ SumOver(g, S) \in Int /\ SumOver(h, S) \in Int
           /\ SumOver(h, S) % P = (SumOver(f, S) + SumOver(g, S)) % P
<1> DEFINE Fine(s) ==
             /\ SumOver(f, s) \in Int /\ SumOver(g, s) \in Int /\ SumOver(h, s) \in Int
             /\ SumOver(h, s) % P = (SumOver(f, s) + SumOver(g, s)) % P
           F == {s \in SUBSET S : Fine(s)}
<1>1. {} \in F
  BY SumEmpty
<1>2. ASSUME NEW s \in SUBSET S, NEW x \in S, s \in F, x \notin s
      PROVE  s \cup {x} \in F
  <2> DEFINE sf == SumOver(f, s)
             sg == SumOver(g, s)
             sh == SumOver(h, s)
  <2>1. /\ sf \in Int /\ sg \in Int /\ sh \in Int
        /\ sh % P = (sf + sg) % P
    BY <1>2
  <2>2. /\ SumOver(f, s \cup {x}) = f[x] + sf
        /\ SumOver(g, s \cup {x}) = g[x] + sg
        /\ SumOver(h, s \cup {x}) = h[x] + sh
    <3>1. IsFiniteSet(s) /\ \A b \in s \cup {x} : b \in S
      BY FS_Subset
    <3> QED BY <1>2, <3>1, SumAdd
  <2>3. f[x] \in Int /\ g[x] \in Int /\ h[x] \in Int /\ h[x] % P = (f[x] + g[x]) % P
    OBVIOUS
  <2> HIDE DEF sf, sg, sh
  <2>4. (h[x] + sh) % P = ((f[x] + g[x]) + (sf + sg)) % P
    <3> DEFINE u == f[x] + g[x]
               v == sf + sg
               w == h[x]
    <3>1. /\ u \in Int /\ v \in Int /\ w \in Int /\ sh \in Int
          /\ w % P = u % P /\ sh % P = v % P
      BY <2>1, <2>3
    <3> HIDE DEF u, v, w
    <3>2. (w + sh) % P = (u + v) % P
      BY ONLY <3>1, ResiduePlus
    <3> QED BY <3>2 DEF u, v, w
  <2>5. (f[x] + g[x]) + (sf + sg) = (f[x] + sf) + (g[x] + sg)
    BY <2>1, <2>3
  <2>6. Fine(s \cup {x})
    BY <2>1, <2>2, <2>3, <2>4, <2>5
  <2> QED BY <2>6
<1>3. S \in F
  <2> HIDE DEF F
  <2> QED BY <1>1, <1>2, SubsetInduction
<1> QED BY <1>3

\* The reduced sum of reduced values.
LEMMA SumOfResidues ==
    ASSUME NEW f, NEW h, NEW S, IsFiniteSet(S),
           \A b \in S : f[b] \in Int /\ h[b] = f[b] % P
    PROVE  SumOver(f, S) \in Int /\ SumOver(h, S) % P = SumOver(f, S) % P
<1> DEFINE z == [b \in S |-> 0]
<1>1. \A b \in S : /\ f[b] \in Int /\ z[b] \in Int /\ h[b] \in Int
                   /\ h[b] % P = (f[b] + z[b]) % P
  BY ResidueIn, ResidueTwice
<1>2. \A b \in S \ {} : z[b] = 0
  OBVIOUS
<1>3. SumOver(z, S) = 0
  BY <1>1, <1>2, SumSupport, SumEmpty
<1> HIDE DEF z
<1>4. /\ SumOver(f, S) \in Int
      /\ SumOver(h, S) % P = (SumOver(f, S) + SumOver(z, S)) % P
  BY <1>1, SumPlus
<1> QED BY <1>3, <1>4

LEMMA ResidueNested ==
    ASSUME NEW a \in Int, NEW b \in Int, NEW x \in Int, NEW y \in Int
    PROVE  /\ ((x % P) + (y % P)) % P = (x + y) % P
           /\ (((a + (x % P)) % P) + ((b + (y % P)) % P)) % P = ((a + b) + (x + y)) % P
<1> DEFINE xr == x % P
           yr == y % P
           u  == (a + xr) % P
           v  == (b + yr) % P
<1>1. xr \in Int /\ yr \in Int /\ xr % P = x % P /\ yr % P = y % P
  BY ResidueIn, ResidueTwice
<1>2. (xr + yr) % P = (x + y) % P
  <2> HIDE DEF xr, yr
  <2> QED BY <1>1, ResiduePlus
<1>3. a + xr \in Int /\ b + yr \in Int
  <2> HIDE DEF xr, yr
  <2> QED BY <1>1
<1>4. /\ u \in Int /\ v \in Int
      /\ u % P = (a + xr) % P /\ v % P = (b + yr) % P
  <2> HIDE DEF xr, yr
  <2> QED BY <1>3, ResidueIn, ResidueTwice
<1>5. (a + xr) % P = (a + x) % P /\ (b + yr) % P = (b + y) % P
  <2>1. Congruent(a, a) /\ Congruent(b, b)
    BY SameCongruent
  <2>2. Congruent(xr, x) /\ Congruent(yr, y)
    BY ResidueCongruent
  <2> HIDE DEF xr, yr
  <2>3. Congruent(a + xr, a + x) /\ Congruent(b + yr, b + y)
    BY <1>1, <2>1, <2>2, CongruentPlus
  <2>4. a + x \in Int /\ b + y \in Int
    OBVIOUS
  <2> QED BY <1>3, <2>3, <2>4, CongruentSame
<1>6. (u + v) % P = ((a + x) + (b + y)) % P
  <2>1. a + x \in Int /\ b + y \in Int /\ u % P = (a + x) % P /\ v % P = (b + y) % P
    BY <1>4, <1>5
  <2> HIDE DEF u, v
  <2>2. u \in Int /\ v \in Int
    BY <1>4
  <2> DEFINE q == a + x
             r == b + y
  <2>3. q \in Int /\ r \in Int /\ u % P = q % P /\ v % P = r % P
    BY <2>1
  <2> HIDE DEF q, r
  <2>4. (u + v) % P = (q + r) % P
    BY ONLY <2>2, <2>3, ResiduePlus
  <2> QED BY <2>4 DEF q, r
<1>7. (a + x) + (b + y) = (a + b) + (x + y)
  OBVIOUS
<1> QED BY <1>2, <1>6, <1>7

-------------------------------------------------------------------------------
(* The commits of both parties.                                              *)

LEMMA IndexFinite == IsFiniteSet(Index) /\ \A S \in SUBSET Index : IsFiniteSet(S)
<1>1. 0 \in Int /\ M \in Int
  BY ConstantsAssumption
<1>2. IsFiniteSet(0..M)
  BY <1>1, FS_Interval
<1> QED BY <1>2, FS_Subset DEF Index

LEMMA FpInt == \A x \in Fp : x \in Int
BY Modulus DEF Fp

\* What the shares of the buckets evaluated together are shares of.
Shared(sR, sS, betas, fR, fS) ==
    \A b \in betas : Differences(sR, sS, b) <= T
                      => (fR[b] + fS[b]) % P = Differences(sR, sS, b) % P

\* The full path forgets the old shares; the buckets it leaves out are empty at
\* both parties (query.cpp:207-230).
LEMMA ReplaceCoherent ==
    ASSUME NEW sR \in States, NEW sS \in States, NEW betas \in SUBSET Index,
           NEW fR \in [Index -> Fp], NEW fS \in [Index -> Fp],
           Shared(sR, sS, betas, fR, fS),
           \A b \in Index \ betas : Differences(sR, sS, b) = 0
    PROVE  CoherentCaches(CommitReplace(sR, betas, fR), CommitReplace(sS, betas, fS))
<1> DEFINE a == CommitReplace(sR, betas, fR)
           b == CommitReplace(sS, betas, fS)
           open == [i \in Index |-> Opened(a, b, i)]
<1>1. /\ a.table = sR.table /\ b.table = sS.table
      /\ a.cache = [i \in Index |-> IF i \in betas THEN fR[i] ELSE 0]
      /\ b.cache = [i \in Index |-> IF i \in betas THEN fS[i] ELSE 0]
      /\ a.t_share = SumOver(fR, betas) % P
      /\ b.t_share = SumOver(fS, betas) % P
  BY DEF CommitReplace, States, AddShares
<1> HIDE DEF a, b
<1>2. \A i \in Index : Differences(a, b, i) = Differences(sR, sS, i)
  BY <1>1 DEF Differences
<1>3. \A i \in Index : open[i] = IF i \in betas THEN (fR[i] + fS[i]) % P ELSE 0
  <2>1. (0 + 0) % P = 0
    BY Modulus
  <2> QED BY <1>1, <2>1 DEF Opened
<1>4. \A i \in betas : /\ fR[i] \in Int /\ fS[i] \in Int /\ open[i] \in Int
                       /\ open[i] % P = (fR[i] + fS[i]) % P
  <2> TAKE i \in betas
  <2>1. fR[i] \in Int /\ fS[i] \in Int
    BY FpInt
  <2>2. open[i] = (fR[i] + fS[i]) % P
    BY <1>3
  <2> HIDE DEF open
  <2> QED BY <2>1, <2>2, ResidueIn, ResidueTwice
<1>5. \A i \in Index : Differences(a, b, i) <= T
                         => Opened(a, b, i) = Differences(a, b, i) % P
  <2> TAKE i \in Index
  <2>1. CASE i \in betas
    BY <1>2, <1>3, <2>1 DEF Shared
  <2>2. CASE i \notin betas
    <3>1. Differences(a, b, i) = 0 /\ Opened(a, b, i) = 0 /\ 0 % P = 0
      BY <1>2, <1>3, <2>2, Modulus
    <3> QED BY <3>1
  <2> QED BY <2>1, <2>2
<1>6. (a.t_share + b.t_share) % P = SumOver(open, Index) % P
  <2>1. /\ SumOver(fR, betas) \in Int /\ SumOver(fS, betas) \in Int
        /\ SumOver(open, betas) % P = (SumOver(fR, betas) + SumOver(fS, betas)) % P
    <3>1. IsFiniteSet(betas)
      BY IndexFinite
    <3> HIDE DEF open
    <3> QED BY <1>4, <3>1, SumPlus
  <2>2. SumOver(open, Index) = SumOver(open, betas)
    <3>2. \A i \in Index \ betas : open[i] = 0
      BY <1>3
    <3>1. \A i \in Index : open[i] \in Int
      <4> HIDE DEF open
      <4> QED BY <1>4, <3>2
    <3> HIDE DEF open
    <3> QED BY <3>1, <3>2, IndexFinite, SumSupport
  <2>3. ((SumOver(fR, betas) % P) + (SumOver(fS, betas) % P)) % P
          = (SumOver(fR, betas) + SumOver(fS, betas)) % P
    BY <2>1, ResidueNested
  <2> QED BY <1>1, <2>1, <2>2, <2>3
<1>7. CoherentCaches(a, b)
  BY <1>5, <1>6 DEF CoherentCaches, AddShares
<1> QED BY <1>7 DEF a, b

\* The incremental path takes the old shares of the buckets evaluated away and
\* adds the new ones; every bucket it leaves out has coherent shares already
\* (query.cpp:231-256).
LEMMA AccumulateCoherent ==
    ASSUME NEW sR \in States, NEW sS \in States, NEW betas \in SUBSET Index,
           NEW fR \in [Index -> Fp], NEW fS \in [Index -> Fp],
           Shared(sR, sS, betas, fR, fS),
           CoherentCaches(sR, sS), sR.J \cup sS.J \subseteq betas
    PROVE  CoherentCaches(CommitAccumulate(sR, betas, fR),
                          CommitAccumulate(sS, betas, fS))
<1> DEFINE a == CommitAccumulate(sR, betas, fR)
           b == CommitAccumulate(sS, betas, fS)
           dR == [i \in betas |-> fR[i] - sR.cache[i]]
           dS == [i \in betas |-> fS[i] - sS.cache[i]]
           old == [i \in Index |-> Opened(sR, sS, i)]
           new == [i \in Index |-> Opened(a, b, i)]
           gap == [i \in Index |-> new[i] - old[i]]
<1>1. /\ a.table = sR.table /\ b.table = sS.table
      /\ a.cache = [i \in Index |-> IF i \in betas THEN fR[i] ELSE sR.cache[i]]
      /\ b.cache = [i \in Index |-> IF i \in betas THEN fS[i] ELSE sS.cache[i]]
      /\ a.t_share = (sR.t_share + (SumOver(dR, betas) % P)) % P
      /\ b.t_share = (sS.t_share + (SumOver(dS, betas) % P)) % P
  BY DEF CommitAccumulate, States, AddShares
<1> HIDE DEF a, b
<1>2. \A i \in Index : Differences(a, b, i) = Differences(sR, sS, i)
  BY <1>1 DEF Differences
<1>3. \A i \in Index :
         /\ sR.cache[i] \in Int /\ sS.cache[i] \in Int
         /\ fR[i] \in Int /\ fS[i] \in Int
  BY FpInt DEF States
<1>4. \A i \in Index :
         new[i] = IF i \in betas THEN (fR[i] + fS[i]) % P ELSE old[i]
  BY <1>1 DEF Opened
<1>5. \A i \in Index : old[i] = (sR.cache[i] + sS.cache[i]) % P
  BY DEF Opened
<1>6. \A i \in Index : old[i] \in Int /\ new[i] \in Int /\ gap[i] \in Int
  <2> TAKE i \in Index
  <2>1. sR.cache[i] + sS.cache[i] \in Int /\ fR[i] + fS[i] \in Int
    BY <1>3
  <2>2. gap[i] = new[i] - old[i]
    OBVIOUS
  <2> HIDE DEF old, new, gap
  <2>3. old[i] \in Int
    BY <1>5, <2>1, ResidueIn
  <2>4. new[i] \in Int
    BY <1>4, <2>1, <2>3, ResidueIn
  <2> QED BY <2>2, <2>3, <2>4
<1>7. \A i \in Index : Differences(a, b, i) <= T /\ i \notin a.J \cup b.J
                         => Opened(a, b, i) = Differences(a, b, i) % P
  <2> TAKE i \in Index
  <2>0. new[i] = Opened(a, b, i) /\ old[i] = Opened(sR, sS, i)
    OBVIOUS
  <2>1. CASE i \in betas
    BY <1>2, <1>4, <2>0, <2>1 DEF Shared
  <2>2. CASE i \notin betas
    <3>1. i \in Index \ (sR.J \cup sS.J)
      BY <2>2
    <3>2. Differences(sR, sS, i) <= T => old[i] = Differences(sR, sS, i) % P
      BY <2>0, <3>1 DEF CoherentCaches
    <3> HIDE DEF old, new
    <3> QED BY <1>2, <1>4, <2>0, <2>2, <3>2
  <2> QED BY <2>1, <2>2
<1>8. \A i \in betas : /\ dR[i] \in Int /\ dS[i] \in Int
                       /\ gap[i] % P = (dR[i] + dS[i]) % P
  <2> TAKE i \in betas
  <2> DEFINE u == fR[i] + fS[i]
             v == sR.cache[i] + sS.cache[i]
             ur == u % P
             vr == v % P
  <2>1. /\ dR[i] = fR[i] - sR.cache[i] /\ dS[i] = fS[i] - sS.cache[i]
        /\ gap[i] = new[i] - old[i]
    OBVIOUS
  <2>2. u \in Int /\ v \in Int /\ u - v = dR[i] + dS[i] /\ dR[i] \in Int /\ dS[i] \in Int
    BY <1>3, <2>1
  <2>3. gap[i] = ur - vr
    <3> HIDE DEF old, new, gap
    <3> QED BY <1>4, <1>5, <2>1
  <2> HIDE DEF u, v, old, new, gap, dR, dS
  <2>4. ur \in Int /\ vr \in Int /\ ur % P = u % P /\ vr % P = v % P
    BY <2>2, ResidueIn, ResidueTwice
  <2> HIDE DEF ur, vr
  <2>5. (ur - vr) % P = (u - v) % P
    BY ONLY <2>2, <2>4, ResiduePlus
  <2> QED BY <2>2, <2>3, <2>5
<1>9. IsFiniteSet(betas) /\ IsFiniteSet(Index)
  BY IndexFinite
<1> DEFINE so == SumOver(old, Index)
           sn == SumOver(new, Index)
           sg == SumOver(gap, Index)
           x  == SumOver(dR, betas)
           y  == SumOver(dS, betas)
<1>10. so \in Int /\ sn \in Int /\ sg \in Int /\ sn % P = (so + sg) % P
  <2>1. \A i \in Index : new[i] % P = (old[i] + gap[i]) % P
    <3> TAKE i \in Index
    <3>1. gap[i] = new[i] - old[i]
      OBVIOUS
    <3> HIDE DEF old, new, gap
    <3>2. old[i] + gap[i] = new[i]
      BY <1>6, <3>1
    <3> QED BY <3>2
  <2> HIDE DEF old, new, gap
  <2> QED BY <1>6, <1>9, <2>1, SumPlus
<1>11. sg = SumOver(gap, betas)
  <2>1. \A i \in Index \ betas : gap[i] = 0
    <3> TAKE i \in Index \ betas
    <3>1. gap[i] = new[i] - old[i]
      OBVIOUS
    <3> HIDE DEF old, new, gap
    <3> QED BY <1>4, <1>6, <3>1
  <2> HIDE DEF gap
  <2> QED BY <1>6, <1>9, <2>1, SumSupport
<1>12. x \in Int /\ y \in Int /\ SumOver(gap, betas) % P = (x + y) % P
  <2> HIDE DEF gap, dR, dS
  <2> QED BY <1>6, <1>8, <1>9, SumPlus
<1>13. (a.t_share + b.t_share) % P = sn % P
  <2> DEFINE m == sR.t_share
             n == sS.t_share
  <2>1. m \in Int /\ n \in Int
    BY FpInt DEF States
  <2>2. (m + n) % P = so % P
    BY DEF CoherentCaches, AddShares
  <2>3. /\ a.t_share = (m + (x % P)) % P
        /\ b.t_share = (n + (y % P)) % P
    BY <1>1
  <2>4. sg % P = (x + y) % P
    BY <1>11, <1>12
  <2> HIDE DEF x, y, so, sn, sg, m, n
  <2>5. (a.t_share + b.t_share) % P = ((m + n) + (x + y)) % P
    BY <1>12, <2>1, <2>3, ResidueNested
  <2>6. ((m + n) + (x + y)) % P = (so + sg) % P
    <3> DEFINE mn == m + n
               xy == x + y
    <3>1. mn \in Int /\ xy \in Int /\ mn % P = so % P /\ xy % P = sg % P
      BY <1>12, <2>1, <2>2, <2>4
    <3> HIDE DEF mn, xy
    <3>2. (mn + xy) % P = (so + sg) % P
      BY ONLY <1>10, <3>1, ResiduePlus
    <3> QED BY <3>2 DEF mn, xy
  <2> QED BY <1>10, <2>5, <2>6
<1>14. CoherentCaches(a, b)
  BY <1>7, <1>13 DEF CoherentCaches, AddShares
<1> QED BY <1>14 DEF a, b

-------------------------------------------------------------------------------
(* What the shares of the count open to.                                     *)

LEMMA DisjointUnion ==
    ASSUME NEW A, NEW B, IsFiniteSet(A), IsFiniteSet(B), A \cap B = {}
    PROVE  /\ Cardinality(A) \in Nat /\ Cardinality(B) \in Nat
           /\ Cardinality(A \cup B) = Cardinality(A) + Cardinality(B)
<1>1. Cardinality(A) \in Nat /\ Cardinality(B) \in Nat
  BY FS_CardinalityType
<1>2. Cardinality(A \cap B) = 0
  BY FS_EmptySet
<1>3. Cardinality(A \cup B)
        = Cardinality(A) + Cardinality(B) - Cardinality(A \cap B)
  BY FS_Union
<1> QED BY <1>1, <1>2, <1>3

\* A finite set is the sum of its parts in the buckets.
LEMMA SumOfFibres ==
    ASSUME NEW D, IsFiniteSet(D), NEW o, \A x \in D : o[x] \in Index
    PROVE  SumOver([b \in Index |-> Cardinality({x \in D : o[x] = b})], Index)
             = Cardinality(D)
<1> DEFINE f == [b \in Index |-> Cardinality({x \in D : o[x] = b})]
           In(s) == {x \in D : o[x] \in s}
           F == {s \in SUBSET Index : SumOver(f, s) = Cardinality(In(s))}
<1>1. {} \in F
  <2>1. In({}) = {}
    OBVIOUS
  <2> QED BY <2>1, SumEmpty, FS_EmptySet
<1>2. ASSUME NEW s \in SUBSET Index, NEW b \in Index, s \in F, b \notin s
      PROVE  s \cup {b} \in F
  <2> DEFINE here == {x \in D : o[x] = b}
  <2>1. IsFiniteSet(In(s)) /\ IsFiniteSet(here) /\ IsFiniteSet(s)
    BY IndexFinite, FS_Subset
  <2>2. In(s \cup {b}) = In(s) \cup here /\ In(s) \cap here = {}
    BY <1>2
  <2>3. f[b] = Cardinality(here)
    OBVIOUS
  <2>4. \A i \in s \cup {b} : f[i] \in Int
    <3> TAKE i \in s \cup {b}
    <3>1. IsFiniteSet({x \in D : o[x] = i})
      BY FS_Subset
    <3>2. f[i] = Cardinality({x \in D : o[x] = i})
      OBVIOUS
    <3> QED BY <3>1, <3>2, FS_CardinalityType
  <2>5. SumOver(f, s \cup {b}) = f[b] + SumOver(f, s)
    <3> HIDE DEF f, F
    <3> QED BY <1>2, <2>1, <2>4, SumAdd
  <2>6. SumOver(f, s) = Cardinality(In(s))
    BY <1>2
  <2> HIDE DEF f, In, here
  <2>7. /\ Cardinality(In(s)) \in Nat /\ Cardinality(here) \in Nat
        /\ Cardinality(In(s) \cup here) = Cardinality(In(s)) + Cardinality(here)
    BY <2>1, <2>2, DisjointUnion
  <2>8. SumOver(f, s \cup {b}) = Cardinality(In(s \cup {b}))
    BY <2>2, <2>3, <2>5, <2>6, <2>7
  <2> QED BY <2>8
<1>3. Index \in F
  <2> HIDE DEF F
  <2> QED BY <1>1, <1>2, IndexFinite, SubsetInduction
<1>4. In(Index) = D
  OBVIOUS
<1> QED BY <1>3, <1>4

\* The ids that only one of the two sets has.
Apart(A, B) == (A \ B) \cup (B \ A)

LEMMA ApartSize ==
    ASSUME NEW A, NEW B, IsFiniteSet(A), IsFiniteSet(B)
    PROVE  /\ IsFiniteSet(Apart(A, B))
           /\ {Cardinality(A), Cardinality(B), Cardinality(A \cap B),
               Cardinality(Apart(A, B))} \subseteq Nat
           /\ Cardinality(A) + Cardinality(B)
                = Cardinality(Apart(A, B)) + 2 * Cardinality(A \cap B)
<1>1. /\ IsFiniteSet(A \ B) /\ IsFiniteSet(B \ A) /\ IsFiniteSet(A \cap B)
      /\ IsFiniteSet(Apart(A, B))
  BY FS_Subset, FS_Difference, FS_Intersection, FS_Union DEF Apart
<1>2. /\ Cardinality(A) \in Nat /\ Cardinality(B) \in Nat
      /\ Cardinality(A \cap B) \in Nat /\ Cardinality(Apart(A, B)) \in Nat
      /\ Cardinality(A \ B) \in Nat /\ Cardinality(B \ A) \in Nat
  BY <1>1, FS_CardinalityType
<1>3. Cardinality(A \ B) = Cardinality(A) - Cardinality(A \cap B)
  BY FS_Difference
<1>4. Cardinality(B \ A) = Cardinality(B) - Cardinality(A \cap B)
  <2>1. B \cap A = A \cap B
    OBVIOUS
  <2>2. Cardinality(B \ A) = Cardinality(B) - Cardinality(B \cap A)
    BY FS_Difference
  <2> QED BY <2>1, <2>2
<1>5. Cardinality(Apart(A, B)) = Cardinality(A \ B) + Cardinality(B \ A)
  <2>1. (A \ B) \cap (B \ A) = {}
    OBVIOUS
  <2> QED BY <1>1, <2>1, DisjointUnion DEF Apart
<1> QED BY <1>1, <1>2, <1>3, <1>4, <1>5

\* The rows of two tables of the same salt differ in the ids that only one
\* party has.
LEMMA TablesDiffer ==
    ASSUME NEW sR \in States, NEW sS \in States,
           Consistent(sR), Consistent(sS), sR.oracle_salt = sS.oracle_salt,
           NEW b \in Index
    PROVE  Differences(sR, sS, b)
             = Cardinality({x \in Apart(sR.my_ids, sS.my_ids) :
                              Oracle[sR.oracle_salt][x] = b})
<1> DEFINE salt == sR.oracle_salt
           A == sR.my_ids
           B == sS.my_ids
<1>1. A \subseteq Id /\ B \subseteq Id
  BY DEF States
<1>2. /\ sR.table[b] = [x \in Id |-> IF x \in A /\ Oracle[salt][x] = b THEN 1 ELSE 0]
      /\ sS.table[b] = [x \in Id |-> IF x \in B /\ Oracle[salt][x] = b THEN 1 ELSE 0]
  BY DEF Consistent, TableOf
<1> HIDE DEF salt, A, B
<1>3. {x \in Id : sR.table[b][x] # sS.table[b][x]}
        = {x \in Apart(A, B) : Oracle[salt][x] = b}
  BY <1>1, <1>2 DEF Apart
<1> QED BY <1>3 DEF Differences, salt, A, B

\* The two t_shares of coherent caches add up to the symmetric difference.
LEMMA TotalShare ==
    ASSUME NEW sR \in States, NEW sS \in States,
           Consistent(sR), Consistent(sS), sR.oracle_salt = sS.oracle_salt,
           CoherentCaches(sR, sS), sR.J = {}, sS.J = {},
           \A b \in Index : Differences(sR, sS, b) <= T
    PROVE  (sR.t_share + sS.t_share) % P
             = Cardinality(Apart(sR.my_ids, sS.my_ids)) % P
<1> DEFINE D == Apart(sR.my_ids, sS.my_ids)
           o == Oracle[sR.oracle_salt]
           f == [b \in Index |-> Cardinality({x \in D : o[x] = b})]
           h == [b \in Index |-> Opened(sR, sS, b)]
<1>1. IsFiniteSet(D) /\ D \subseteq Id
  <2>1. IsFiniteSet(Id)
    BY ConstantsAssumption
  <2>2. D \subseteq Id
    BY DEF Apart, States
  <2> QED BY <2>1, <2>2, FS_Subset
<1>2. \A x \in D : o[x] \in Index
  <2>1. o \in [Id -> Bucket]
    BY ConstantsAssumption DEF States
  <2> QED BY <1>1, <2>1, ConstantsAssumption DEF Bucket, Index
<1>3. \A b \in Index : f[b] \in Int /\ h[b] = f[b] % P
  <2> TAKE b \in Index
  <2>1. f[b] = Cardinality({x \in D : o[x] = b}) /\ h[b] = Opened(sR, sS, b)
    OBVIOUS
  <2>2. Differences(sR, sS, b) = Cardinality({x \in D : o[x] = b})
    BY TablesDiffer
  <2>3. IsFiniteSet({x \in D : o[x] = b})
    BY <1>1, FS_Subset
  <2>4. Opened(sR, sS, b) = Differences(sR, sS, b) % P
    BY DEF CoherentCaches
  <2> HIDE DEF f, h, D, o
  <2>5. f[b] \in Int
    BY <2>1, <2>3, FS_CardinalityType
  <2> QED BY <2>1, <2>2, <2>4, <2>5
<1>4. (sR.t_share + sS.t_share) % P = SumOver(h, Index) % P
  BY DEF CoherentCaches, AddShares
<1>5. SumOver(f, Index) = Cardinality(D)
  <2> HIDE DEF D, o
  <2> QED BY <1>1, <1>2, SumOfFibres
<1>6. SumOver(h, Index) % P = SumOver(f, Index) % P
  <2> HIDE DEF h, f
  <2> QED BY <1>3, IndexFinite, SumOfResidues
<1> QED BY <1>4, <1>5, <1>6

LEMMA Halving == Inv2 \in Int /\ 2 * Inv2 = P + 1
<1>1. P \in Nat /\ P % 2 = 1
  BY ConstantsAssumption
<1> QED BY <1>1 DEF Inv2

TwiceAnd(n, d, c) == n = d + 2 * c

OpensTo(n, tR, tS, c) ==
    (((Inv2 * (n - tR)) % P) + ((Inv2 * (0 - tS)) % P)) % P = c % P

\* Half of n less the difference, in the field.
LEMMA HalfOf ==
    ASSUME NEW n \in Int, NEW d \in Int, NEW c \in Int, TwiceAnd(n, d, c),
           NEW tR \in Int, NEW tS \in Int, Congruent(tR + tS, d)
    PROVE  OpensTo(n, tR, tS, c)
<1> DEFINE i == Inv2
           u == i * (n - tR)
           v == i * (0 - tS)
<1>1. i \in Int /\ 2 * i = P + 1 /\ P \in Int
  BY Halving, Modulus
<1> HIDE DEF i
<1>2. PICK k \in Int : tR + tS = d + k * P
  BY DEF Congruent
<1>3. u \in Int /\ v \in Int
  <2>1. n - tR \in Int /\ 0 - tS \in Int
    OBVIOUS
  <2> QED BY <1>1, <2>1
<1>4. u + v = i * (2 * c - k * P)
  <2>1. k * P \in Int
    BY <1>1
  <2> DEFINE a == n - tR
             b == 0 - tS
  <2>2. a + b = 2 * c - k * P /\ a \in Int /\ b \in Int
    BY <1>2, <2>1 DEF TwiceAnd
  <2> HIDE DEF a, b
  <2>3. i * a + i * b = i * (a + b)
    BY <1>1, <2>2
  <2> QED BY <2>2, <2>3 DEF a, b
<1>5. i * (2 * c - k * P) = c + (c - i * k) * P
  <2>1. k * P \in Int /\ i * k \in Int /\ c * P \in Int /\ i * c \in Int
    BY <1>1
  <2>2. i * (2 * c - k * P) = i * (2 * c) - i * (k * P)
    BY <1>1, <2>1
  <2>3. i * (2 * c) = (2 * i) * c
    BY <1>1
  <2>4. (2 * i) * c = c + c * P
    BY <1>1
  <2>5. i * (k * P) = (i * k) * P
    BY <1>1
  <2>6. (c - i * k) * P = c * P - (i * k) * P /\ (i * k) * P \in Int
    BY <1>1, <2>1
  <2> QED BY <2>1, <2>2, <2>3, <2>4, <2>5, <2>6
<1>6. Congruent(u + v, c)
  <2>1. c - i * k \in Int
    BY <1>1
  <2> QED BY <1>4, <1>5, <2>1 DEF Congruent
<1> HIDE DEF u, v
<1>7. ((u % P) + (v % P)) % P = (u + v) % P
  BY <1>3, ResidueNested
<1>8. (u + v) % P = c % P
  BY <1>3, <1>6, CongruentSame
<1>9. ((u % P) + (v % P)) % P = c % P
  BY <1>7, <1>8
<1> QED BY <1>9 DEF u, v, i, OpensTo

\* Converted, they open to the size of the intersection (query.cpp:273-288).
LEMMA CountFromShares ==
    ASSUME NEW sR \in States, NEW sS \in States,
           Consistent(sR), Consistent(sS), sR.oracle_salt = sS.oracle_salt,
           CoherentCaches(sR, sS), sR.J = {}, sS.J = {},
           \A b \in Index : Differences(sR, sS, b) <= T
    PROVE  (Convert("R", sR.t_share, sR.my_size, sS.my_size)
              + Convert("S", sS.t_share, sS.my_size, sR.my_size)) % P
             = Cardinality(sR.my_ids \cap sS.my_ids) % P
<1> DEFINE A == sR.my_ids
           B == sS.my_ids
           d == Cardinality(Apart(A, B))
           c == Cardinality(A \cap B)
           n == sR.my_size + sS.my_size
           tR == sR.t_share
           tS == sS.t_share
<1>1. IsFiniteSet(A) /\ IsFiniteSet(B)
  <2>1. IsFiniteSet(Id) /\ A \in SUBSET Id /\ B \in SUBSET Id
    BY ConstantsAssumption DEF States
  <2> QED BY <2>1, FS_Subset
<1>2. n = d + 2 * c /\ n \in Int /\ d \in Int /\ c \in Int
  <2>1. sR.my_size = Cardinality(A) /\ sS.my_size = Cardinality(B)
    BY DEF Consistent
  <2>2. /\ Cardinality(A) \in Nat /\ Cardinality(B) \in Nat /\ d \in Nat /\ c \in Nat
        /\ Cardinality(A) + Cardinality(B) = d + 2 * c
    BY <1>1, ApartSize
  <2> HIDE DEF A, B, d, c
  <2> QED BY <2>1, <2>2
<1>3. tR \in Int /\ tS \in Int
  BY FpInt DEF States
<1>4. (tR + tS) % P = d % P
  BY TotalShare
<1>5. /\ Convert("R", sR.t_share, sR.my_size, sS.my_size) = (Inv2 * (n - tR)) % P
      /\ Convert("S", sS.t_share, sS.my_size, sR.my_size) = (Inv2 * (0 - tS)) % P
  BY DEF Convert
<1> HIDE DEF A, B, d, c, n, tR, tS
<1>6. Congruent(tR + tS, d)
  <2>1. tR + tS \in Int
    BY <1>3
  <2> QED BY <1>2, <1>4, <2>1, SameCongruent
<1>7. OpensTo(n, tR, tS, c)
  <2>1. TwiceAnd(n, d, c)
    BY <1>2 DEF TwiceAnd
  <2> QED BY ONLY <1>2, <1>3, <1>6, <2>1, HalfOf
<1> QED BY <1>5, <1>7 DEF c, A, B, OpensTo

-------------------------------------------------------------------------------
(* What a state must be for the argument.                                    *)

\* The part of a state's type the argument needs.
Fields ==
    {"my_ids", "table", "rows", "J", "cache", "cached", "t_share", "my_size",
     "query_no", "oracle_salt"}

Sound(s) ==
    /\ s = [f \in Fields |-> s[f]]
    /\ s.my_ids \subseteq Id
    /\ Consistent(s)

-------------------------------------------------------------------------------
(* The operations on a state.                                                *)

\* Editing the table of ids is the table of the edited ids, because an inserted
\* id is never there yet and a deleted one always is (update.cpp:85-109).
LEMMA EditTableOf ==
    ASSUME NEW ids, NEW ins, NEW del, NEW salt,
           ins \cap ids = {}, del \subseteq ids
    PROVE  EditTable(TableOf(ids, salt), ins, del, salt)
             = TableOf((ids \cup ins) \ del, salt)
<1> DEFINE old == TableOf(ids, salt)
           new == TableOf((ids \cup ins) \ del, salt)
           out == EditTable(old, ins, del, salt)
<1>1. ASSUME NEW b \in Index
      PROVE  out[b] = new[b]
  <2>1. ASSUME NEW x \in Id
        PROVE  (IF Oracle[salt][x] # b THEN old[b][x]
                ELSE old[b][x] + (IF x \in ins THEN 1 ELSE 0)
                               - (IF x \in del THEN 1 ELSE 0))
               = (IF x \in (ids \cup ins) \ del /\ Oracle[salt][x] = b
                  THEN 1 ELSE 0)
    <3>1. old[b][x] = IF x \in ids /\ Oracle[salt][x] = b THEN 1 ELSE 0
      BY DEF TableOf
    <3>2. CASE Oracle[salt][x] # b
      BY <3>1, <3>2
    <3>3. CASE Oracle[salt][x] = b
      BY <3>1, <3>3
    <3> QED BY <3>2, <3>3
  <2>2. out[b] = [x \in Id |-> IF Oracle[salt][x] # b THEN old[b][x]
                   ELSE old[b][x] + (IF x \in ins THEN 1 ELSE 0)
                                  - (IF x \in del THEN 1 ELSE 0)]
    BY DEF EditTable
  <2>3. new[b] = [x \in Id |-> IF x \in (ids \cup ins) \ del
                                  /\ Oracle[salt][x] = b THEN 1 ELSE 0]
    BY DEF TableOf
  <2> QED BY <2>1, <2>2, <2>3
<1>2. out = [b \in Index |-> out[b]] /\ new = [b \in Index |-> new[b]]
  BY DEF EditTable, TableOf
<1> QED BY <1>1, <1>2

\* my_size follows the number of ids through an edit.
LEMMA EditSize ==
    ASSUME NEW ids \in SUBSET Id, NEW ins \in SUBSET Id, NEW del \in SUBSET Id,
           ins \cap ids = {}, del \subseteq ids
    PROVE  Cardinality((ids \cup ins) \ del)
             = Cardinality(ids) + Cardinality(ins) - Cardinality(del)
<1>1. /\ IsFiniteSet(ids) /\ IsFiniteSet(ins) /\ IsFiniteSet(del)
      /\ IsFiniteSet(ids \cup ins)
  BY ConstantsAssumption, FS_Subset, FS_Union
<1>2. Cardinality(ids \cup ins) = Cardinality(ids) + Cardinality(ins)
                                    - Cardinality(ids \cap ins)
  BY <1>1, FS_Union
<1>3. Cardinality((ids \cup ins) \ del)
        = Cardinality(ids \cup ins) - Cardinality((ids \cup ins) \cap del)
  BY <1>1, FS_Difference
<1>4. Cardinality(ids \cap ins) = 0
  <2>1. ids \cap ins = {}
    OBVIOUS
  <2> QED BY <2>1, FS_EmptySet
<1>5. Cardinality((ids \cup ins) \cap del) = Cardinality(del)
  <2>1. (ids \cup ins) \cap del = del
    OBVIOUS
  <2> QED BY <2>1
<1>6. /\ Cardinality(ids) \in Nat /\ Cardinality(ins) \in Nat
      /\ Cardinality(del) \in Nat
  BY <1>1, FS_CardinalityType
<1> QED BY <1>2, <1>3, <1>4, <1>5, <1>6

\* Update::apply under the salt the state records.
LEMMA ApplySound ==
    ASSUME NEW s, Sound(s), NEW I \in SUBSET Id, NEW D \in SUBSET Id
    PROVE  /\ Sound(Apply(s, I, D, s.oracle_salt))
           /\ Apply(s, I, D, s.oracle_salt).oracle_salt = s.oracle_salt
<1> DEFINE ins  == Inserted(s, I, D)
           del  == Deleted(s, I, D)
           salt == s.oracle_salt
           t    == Apply(s, I, D, salt)
<1>1. /\ ins \in SUBSET Id /\ del \in SUBSET Id /\ s.my_ids \in SUBSET Id
      /\ ins \cap s.my_ids = {} /\ del \subseteq s.my_ids
  BY DEF Sound, Inserted, Deleted
<1>2. /\ t = [f \in Fields |-> t[f]]
      /\ t.my_ids = (s.my_ids \cup ins) \ del
      /\ t.table = EditTable(s.table, ins, del, salt)
      /\ t.rows = s.rows \cup BucketsOf(ins \cup del, salt)
      /\ t.my_size = s.my_size + Cardinality(ins) - Cardinality(del)
      /\ t.oracle_salt = s.oracle_salt
  BY DEF Sound, Fields, Apply
<1>3. t.table = TableOf(t.my_ids, salt)
  BY <1>1, <1>2, EditTableOf DEF Sound, Consistent
<1>4. t.my_size = Cardinality(t.my_ids)
  BY <1>1, <1>2, EditSize DEF Sound, Consistent
<1>5. BucketsOf(t.my_ids, salt) \subseteq t.rows
  BY <1>1, <1>2 DEF Sound, Consistent, BucketsOf
<1> QED BY <1>1, <1>2, <1>3, <1>4, <1>5 DEF Sound, Consistent

\* SaltManager::refresh rebuilds the table from the ids.
LEMMA RebuiltSound ==
    ASSUME NEW s, Sound(s), NEW salt
    PROVE  /\ Sound(Rebuilt(s, salt))
           /\ Rebuilt(s, salt).oracle_salt = salt
BY DEF Sound, Fields, Consistent, Rebuilt

\* A commit touches shares, dirty set and query number only.
LEMMA CommitSound ==
    ASSUME NEW s, Sound(s), NEW path, NEW betas, NEW fresh
    PROVE  /\ Sound(Commit(s, path, betas, fresh))
           /\ Commit(s, path, betas, fresh).oracle_salt = s.oracle_salt
<1>1. CASE path = "full"
  BY <1>1 DEF Sound, Fields, Consistent, Commit, CommitReplace
<1>2. CASE path # "full"
  BY <1>2 DEF Sound, Fields, Consistent, Commit, CommitAccumulate
<1> QED BY <1>1, <1>2

LEMMA LoadedSound ==
    ASSUME NEW ids \in SUBSET Id
    PROVE  Sound(LoadedWith(ids)) /\ LoadedWith(ids).oracle_salt = EpochZero
<1>1. Fresh.oracle_salt = EpochZero
  BY DEF Fresh
<1>2. Sound(Fresh)
  <2>1. Cardinality({}) = 0
    BY FS_EmptySet
  <2> QED BY <2>1 DEF Sound, Fields, Consistent, Fresh, BucketsOf
<1> QED BY <1>1, <1>2, ApplySound DEF LoadedWith

-------------------------------------------------------------------------------
(* The inductive invariant.                                                  *)

LocalInv ==
    /\ st = [p \in Party |-> st[p]]
    /\ disk = [p \in Party |-> disk[p]]
    /\ oracle = [p \in Party |-> oracle[p]]
    /\ pc = [p \in Party |-> pc[p]]
    /\ \A p \in Party : Sound(st[p]) /\ Sound(disk[p])
    /\ \A p \in Party : pc[p] \notin Ended => oracle[p] = st[p].oracle_salt

\* A step of a running p that moves its control and none of the data LocalInv
\* is about.
Quietly(p) ==
    /\ pc[p] \notin Ended
    /\ \E l : Goto(p, l)
    /\ UNCHANGED <<st, disk, oracle>>

LEMMA LocalInit == Init => LocalInv
<1> SUFFICES ASSUME Init PROVE LocalInv
  OBVIOUS
<1>1. PICK ids \in [Party -> InitIds] :
        disk = [p \in Party |-> LoadedWith(ids[p])]
  BY DEF Init
<1>2. \A p \in Party : ids[p] \in SUBSET Id
  BY SessionAssumption
<1>3. \A p \in Party : Sound(disk[p])
  BY <1>1, <1>2, LoadedSound
<1>4. /\ st = disk
      /\ oracle = [p \in Party |-> EpochZero]
      /\ pc = [p \in Party |-> "done"]
  BY DEF Init
<1> QED BY <1>1, <1>3, <1>4 DEF LocalInv, Ended

LEMMA QuietStep ==
    ASSUME LocalInv, NEW p \in Party, Quietly(p)
    PROVE  LocalInv'
<1>1. PICK l : pc' = [pc EXCEPT ![p] = l]
  BY DEF Quietly, Goto
<1>2. \A q \in Party : pc'[q] \notin Ended => pc[q] \notin Ended
  BY <1>1 DEF LocalInv, Quietly
<1>3. pc' = [q \in Party |-> pc'[q]]
  BY <1>1 DEF LocalInv
<1> QED BY <1>2, <1>3 DEF LocalInv, Quietly

\* The waiting party of the action is a running one.
LEMMA RunningStates ==
    /\ \A w \in Waiting \cup {"idle", "eval", "commit"} : w \notin Ended
    /\ {"sync", "provision", "salt", "round0", "jtilde", "supports", "open"}
         \subseteq Waiting
BY DEF Waiting, Ended

LEMMA QuietActions ==
    ASSUME NEW p \in Party,
           \/ BeginDay(p) \/ RecvProvision(p) \/ RecvRound0(p)
           \/ RecvIndices(p) \/ EvaluateAlone(p) \/ RecvOpen(p)
           \/ LosePeer(p) \/ Exit(p) \/ Crash(p)
    PROVE  Quietly(p)
<1> USE RunningStates DEF Quietly, Goto
<1>1. CASE BeginDay(p)
  BY <1>1 DEF BeginDay
<1>2. CASE RecvProvision(p)
  BY <1>2 DEF RecvProvision, Stop, procVars, BeginRefresh, BeginQuery
<1>3. CASE RecvRound0(p)
  BY <1>3 DEF RecvRound0, PublishSupports, PublishDirty, Publish, Stop, procVars
<1>4. CASE RecvIndices(p)
  BY <1>4 DEF RecvIndices, Stop, procVars
<1>5. CASE EvaluateAlone(p)
  BY <1>5 DEF EvaluateAlone
<1>6. CASE RecvOpen(p)
  BY <1>6 DEF RecvOpen
<1>7. CASE LosePeer(p)
  BY <1>7 DEF LosePeer, Failed, Stop, procVars
<1>8. CASE Exit(p)
  BY <1>8 DEF Exit, procVars
<1>9. CASE Crash(p)
  BY <1>9 DEF Crash, procVars
<1> QED BY <1>1, <1>2, <1>3, <1>4, <1>5, <1>6, <1>7, <1>8, <1>9

LEMMA SyncStep ==
    ASSUME LocalInv, NEW p \in Party, RecvSync(p)
    PROVE  LocalInv'
<1>1. pc[p] = "sync" /\ pc[p] \notin Ended
  BY RunningStates DEF RecvSync
<1>2. CASE \E r : Stop(p, r)
  <2>1. Quietly(p)
    BY <1>1, <1>2 DEF Quietly, Stop, procVars
  <2> QED BY <2>1, QuietStep
<1>3. CASE \E I, D \in SUBSET Id :
             SaltMatches(st[p], oracle[p]) /\ ApplyEdits(p, I, D)
  <2>1. PICK I \in SUBSET Id, D \in SUBSET Id :
          SaltMatches(st[p], oracle[p]) /\ ApplyEdits(p, I, D)
    BY <1>3
  <2> DEFINE s == Apply(st[p], I, D, oracle[p])
  <2>2. /\ st' = [st EXCEPT ![p] = s]
        /\ \E l : pc' = [pc EXCEPT ![p] = l]
        /\ UNCHANGED <<disk, oracle>>
    BY <2>1 DEF ApplyEdits, Goto
  <2>3. oracle[p] = st[p].oracle_salt
    BY <2>1 DEF SaltMatches
  <2>4. Sound(s) /\ s.oracle_salt = oracle[p]
    <3>1. Sound(st[p])
      BY DEF LocalInv
    <3>2. /\ Sound(Apply(st[p], I, D, st[p].oracle_salt))
          /\ Apply(st[p], I, D, st[p].oracle_salt).oracle_salt = st[p].oracle_salt
      BY <3>1, ApplySound
    <3> QED BY ONLY <2>3, <3>2
  <2> HIDE DEF s
  <2>5. /\ st' = [q \in Party |-> st'[q]]
        /\ \A q \in Party : Sound(st'[q])
        /\ \A q \in Party : st'[q].oracle_salt = IF q = p THEN oracle[p]
                                                 ELSE st[q].oracle_salt
    BY <2>2, <2>4 DEF LocalInv
  <2>6. /\ pc' = [q \in Party |-> pc'[q]]
        /\ \A q \in Party : pc'[q] \notin Ended => pc[q] \notin Ended
    BY <1>1, <2>2 DEF LocalInv
  <2>7. ASSUME NEW q \in Party, pc'[q] \notin Ended
        PROVE  oracle'[q] = st'[q].oracle_salt
    <3>1. /\ pc[q] \notin Ended
          /\ oracle'[q] = oracle[q]
          /\ st'[q].oracle_salt = IF q = p THEN oracle[p] ELSE st[q].oracle_salt
      BY <2>2, <2>5, <2>6, <2>7
    <3> QED BY <3>1 DEF LocalInv
  <2>8. /\ disk' = [q \in Party |-> disk'[q]]
        /\ oracle' = [q \in Party |-> oracle'[q]]
        /\ \A q \in Party : Sound(disk'[q])
    BY <2>2 DEF LocalInv
  <2> QED BY <2>5, <2>6, <2>7, <2>8 DEF LocalInv
<1> QED BY <1>2, <1>3 DEF RecvSync

LEMMA SaltStep ==
    ASSUME LocalInv, NEW p \in Party, RecvSalt(p)
    PROVE  LocalInv'
<1>1. pc[p] \notin Ended
  BY RunningStates DEF RecvSalt
<1>2. PICK salt : /\ oracle' = [oracle EXCEPT ![p] = salt]
                  /\ st' = [st EXCEPT ![p] = Rebuilt(st[p], salt)]
                  /\ pc' = [pc EXCEPT ![p] = "round0"]
                  /\ UNCHANGED disk
  BY DEF RecvSalt, BeginQuery, Goto
<1> DEFINE s == Rebuilt(st[p], salt)
<1>3. Sound(s) /\ s.oracle_salt = salt
  BY RebuiltSound DEF LocalInv
<1> HIDE DEF s
<1>4. /\ st' = [q \in Party |-> st'[q]]
      /\ oracle' = [q \in Party |-> oracle'[q]]
      /\ pc' = [q \in Party |-> pc'[q]]
  BY <1>2 DEF LocalInv
<1>5. \A q \in Party : Sound(st'[q])
  BY <1>2, <1>3 DEF LocalInv, s
<1>6. ASSUME NEW q \in Party, pc'[q] \notin Ended
      PROVE  oracle'[q] = st'[q].oracle_salt
  BY <1>1, <1>2, <1>3, <1>6 DEF LocalInv, s
<1> QED BY <1>2, <1>4, <1>5, <1>6 DEF LocalInv

LEMMA CommitStep ==
    ASSUME LocalInv, NEW p \in Party, CommitQuery(p)
    PROVE  LocalInv'
<1> DEFINE s == Commit(st[p], loc[p].path, loc[p].betas, loc[p].fresh)
<1>1. pc[p] \notin Ended
  BY RunningStates DEF CommitQuery
<1>2. /\ st' = [st EXCEPT ![p] = s]
      /\ disk' = [disk EXCEPT ![p] = s]
      /\ pc' = [pc EXCEPT ![p] = "open"]
      /\ UNCHANGED oracle
  BY DEF CommitQuery, Goto
<1>3. Sound(s) /\ s.oracle_salt = st[p].oracle_salt
  BY CommitSound DEF LocalInv
<1> HIDE DEF s
<1>4. /\ st' = [q \in Party |-> st'[q]]
      /\ disk' = [q \in Party |-> disk'[q]]
      /\ pc' = [q \in Party |-> pc'[q]]
  BY <1>2 DEF LocalInv
<1>5. \A q \in Party : Sound(st'[q]) /\ Sound(disk'[q])
  BY <1>2, <1>3 DEF LocalInv
<1>6. ASSUME NEW q \in Party, pc'[q] \notin Ended
      PROVE  oracle'[q] = st'[q].oracle_salt
  BY <1>1, <1>2, <1>3, <1>6 DEF LocalInv
<1> QED BY <1>2, <1>4, <1>5, <1>6 DEF LocalInv

LEMMA UpdateOnlyStep ==
    ASSUME LocalInv, NEW p \in Party, UpdateOnly(p)
    PROVE  LocalInv'
<1>1. PICK I \in SUBSET Id, D \in SUBSET Id :
        disk' = [disk EXCEPT ![p] = Apply(@, I, D, @.oracle_salt)]
  BY DEF UpdateOnly
<1> DEFINE s == Apply(disk[p], I, D, disk[p].oracle_salt)
<1>2. Sound(s)
  BY ApplySound DEF LocalInv
<1>3. disk' = [disk EXCEPT ![p] = s]
  BY <1>1
<1> HIDE DEF s
<1>4. disk' = [q \in Party |-> disk'[q]] /\ \A q \in Party : Sound(disk'[q])
  BY <1>2, <1>3 DEF LocalInv
<1>5. UNCHANGED <<st, oracle, pc>>
  BY DEF UpdateOnly, procVars
<1> QED BY <1>4, <1>5 DEF LocalInv

LEMMA LocalNext == LocalInv /\ [Next]_vars => LocalInv'
<1> SUFFICES ASSUME LocalInv, [Next]_vars PROVE LocalInv'
  OBVIOUS
<1>1. CASE UNCHANGED vars
  BY <1>1 DEF LocalInv, vars
<1>2. ASSUME NEW p \in Party,
             \/ BeginDay(p) \/ RecvProvision(p) \/ RecvRound0(p)
             \/ RecvIndices(p) \/ EvaluateAlone(p) \/ RecvOpen(p)
             \/ LosePeer(p) \/ Exit(p) \/ Crash(p)
      PROVE  LocalInv'
  BY <1>2, QuietActions, QuietStep
<1>3. ASSUME NEW p \in Party, RecvSync(p) PROVE LocalInv'
  BY <1>3, SyncStep
<1>4. ASSUME NEW p \in Party, RecvSalt(p) PROVE LocalInv'
  BY <1>4, SaltStep
<1>5. ASSUME NEW p \in Party, CommitQuery(p) PROVE LocalInv'
  BY <1>5, CommitStep
<1>6. ASSUME NEW p \in Party, UpdateOnly(p) PROVE LocalInv'
  BY <1>6, UpdateOnlyStep
<1>7. CASE Evaluate
  <2>1. /\ pc' = [p \in Party |-> "commit"]
        /\ \A p \in Party : pc[p] = "eval"
        /\ UNCHANGED <<st, disk, oracle>>
    BY <1>7 DEF Evaluate
  <2> QED BY <2>1, RunningStates DEF LocalInv
<1>8. CASE StartSession
  BY <1>8 DEF StartSession, LocalInv
<1>9. CASE Quiescent
  BY <1>9, <1>1 DEF Quiescent
<1> QED BY <1>1, <1>2, <1>3, <1>4, <1>5, <1>6, <1>7, <1>8, <1>9 DEF Next

\* In every behaviour, a party's table is the table of its ids under the salt
\* recorded with it, in memory and on disk, and a running party's oracle is
\* the one its table was built with (update.cpp:85-109, salt.cpp:111-113,
\* query.cpp:207-264, party_main.cpp:507-521).
THEOREM LocalCoherenceHolds == Spec => []LocalCoherence
<1>1. LocalInv => LocalCoherence
  BY DEF LocalInv, LocalCoherence, Sound
<1> QED BY <1>1, LocalInit, LocalNext, PTL DEF Spec

-------------------------------------------------------------------------------
(* Types.                                                                    *)

LEMMA SharesIn ==
    ASSUME NEW S \in SUBSET Index, NEW f, \A b \in S : f[b] \in Int
    PROVE  AddShares(f, S) \in Fp
<1>1. SumOver(f, S) \in Int
  BY IndexFinite, SumRemove
<1> QED BY <1>1, ResidueIn DEF AddShares

LEMMA SaltIn == \A s \in States : Oracle[s.oracle_salt] \in [Id -> Bucket]
BY ConstantsAssumption DEF States

LEMMA BucketsIn ==
    ASSUME NEW salt \in Salt, NEW ids \in SUBSET Id
    PROVE  BucketsOf(ids, salt) \in SUBSET Index
<1>1. Oracle[salt] \in [Id -> Bucket]
  BY ConstantsAssumption
<1>2. Bucket \subseteq Index
  BY ConstantsAssumption DEF Bucket, Index
<1> QED BY <1>1, <1>2 DEF BucketsOf

LEMMA SetSize ==
    ASSUME NEW S \in SUBSET Id
    PROVE  IsFiniteSet(S) /\ Cardinality(S) \in Nat
BY ConstantsAssumption, FS_Subset, FS_CardinalityType

LEMMA ApplyType ==
    ASSUME NEW s \in States, NEW I \in SUBSET Id, NEW D \in SUBSET Id, NEW salt \in Salt
    PROVE  Apply(s, I, D, salt) \in States
<1> DEFINE ins == Inserted(s, I, D)
           del == Deleted(s, I, D)
<1>1. ins \in SUBSET Id /\ del \in SUBSET Id
  BY DEF Inserted, Deleted
<1>2. EditTable(s.table, ins, del, salt) \in Table
  <2>1. s.table \in [Index -> [Id -> Int]]
    BY DEF States, Table
  <2> HIDE DEF ins, del
  <2>2. \A b \in Index, x \in Id :
          (IF Oracle[salt][x] # b THEN s.table[b][x]
           ELSE s.table[b][x] + (IF x \in ins THEN 1 ELSE 0)
                              - (IF x \in del THEN 1 ELSE 0)) \in Int
    BY <2>1
  <2> QED BY <2>2 DEF EditTable, Table
<1>3. BucketsOf(ins \cup del, salt) \in SUBSET Index
  BY <1>1, BucketsIn
<1>4. Cardinality(ins) \in Int /\ Cardinality(del) \in Int
  BY <1>1, SetSize
<1> DEFINE ids   == (s.my_ids \cup ins) \ del
           table == EditTable(s.table, ins, del, salt)
           rows  == s.rows \cup BucketsOf(ins \cup del, salt)
           J     == s.J \cup BucketsOf(ins \cup del, salt)
           size  == s.my_size + Cardinality(ins) - Cardinality(del)
<1>5. Apply(s, I, D, salt) = [s EXCEPT !.my_ids = ids, !.table = table, !.rows = rows,
                                       !.J = J, !.my_size = size]
  BY DEF Apply
<1> HIDE DEF ins, del
<1>6. /\ ids \in SUBSET Id /\ table \in Table /\ rows \in SUBSET Index
      /\ J \in SUBSET Index /\ size \in Int
  <2>1. /\ s.my_ids \in SUBSET Id /\ s.rows \in SUBSET Index
        /\ s.J \in SUBSET Index /\ s.my_size \in Int
    BY DEF States
  <2>2. ids \in SUBSET Id
    BY <1>1, <2>1
  <2>3. size \in Int
    BY <1>4, <2>1
  <2>4. rows \in SUBSET Index /\ J \in SUBSET Index
    BY <1>3, <2>1
  <2> QED BY <1>2, <2>2, <2>3, <2>4
<1> HIDE DEF ids, table, rows, J, size
<1> QED BY <1>5, <1>6 DEF States

LEMMA TableType == \A ids, salt : TableOf(ids, salt) \in Table
BY DEF TableOf, Table

LEMMA ZeroShare == 0 \in Fp /\ [b \in Index |-> 0] \in [Index -> Fp]
BY Modulus DEF Fp

LEMMA FreshType == Fresh \in States
BY TableType, ZeroShare, ConstantsAssumption DEF Fresh, States

LEMMA RebuiltType ==
    ASSUME NEW s \in States, NEW salt \in Salt
    PROVE  Rebuilt(s, salt) \in States
<1>1. BucketsOf(s.my_ids, salt) \in SUBSET Index
  BY BucketsIn DEF States
<1> QED BY <1>1, TableType DEF Rebuilt, States

LEMMA CommitType ==
    ASSUME NEW s \in States, NEW path, NEW betas \in SUBSET Index,
           NEW fresh \in [Index -> Fp]
    PROVE  Commit(s, path, betas, fresh) \in States
<1>1. \A b \in Index : fresh[b] \in Int /\ s.cache[b] \in Int
  BY FpInt DEF States
<1>2. AddShares(fresh, betas) \in Fp
  BY <1>1, SharesIn
<1>3. CommitReplace(s, betas, fresh) \in States
  <2> DEFINE cache == [b \in Index |-> IF b \in betas THEN fresh[b] ELSE 0]
             total == AddShares(fresh, betas)
             n == s.query_no + 1
  <2>1. CommitReplace(s, betas, fresh)
          = [s EXCEPT !.cache = cache, !.cached = betas, !.t_share = total, !.J = {},
                      !.query_no = n]
    BY DEF CommitReplace
  <2>2. cache \in [Index -> Fp] /\ total \in Fp /\ n \in Nat
    BY <1>2, ZeroShare DEF States
  <2> HIDE DEF cache, total, n
  <2> QED BY <2>1, <2>2 DEF States
<1>4. AddShares([b \in betas |-> fresh[b] - s.cache[b]], betas) \in Fp
  BY <1>1, SharesIn
<1>5. (s.t_share + AddShares([b \in betas |-> fresh[b] - s.cache[b]], betas)) % P \in Fp
  <2>1. s.t_share \in Int
    BY FpInt DEF States
  <2>2. AddShares([b \in betas |-> fresh[b] - s.cache[b]], betas) \in Int
    BY <1>4, FpInt
  <2> QED BY <2>1, <2>2, ResidueIn
<1>6. CommitAccumulate(s, betas, fresh) \in States
  <2> DEFINE cache == [b \in Index |-> IF b \in betas THEN fresh[b] ELSE s.cache[b]]
             cached == s.cached \cup betas
             gained == AddShares([b \in betas |-> fresh[b] - s.cache[b]], betas)
             total == (s.t_share + gained) % P
             n == s.query_no + 1
  <2>1. CommitAccumulate(s, betas, fresh)
          = [s EXCEPT !.cache = cache, !.cached = cached, !.t_share = total, !.J = {},
                      !.query_no = n]
    BY DEF CommitAccumulate
  <2>2. /\ cache \in [Index -> Fp] /\ cached \in SUBSET Index
        /\ total \in Fp /\ n \in Nat
    BY <1>5 DEF States
  <2> HIDE DEF cache, cached, total, n
  <2> QED BY <2>1, <2>2 DEF States
<1> QED BY <1>3, <1>6 DEF Commit

LEMMA ConvertType ==
    ASSUME NEW role, NEW t \in Fp, NEW nA \in Int, NEW nB \in Int
    PROVE  Convert(role, t, nA, nB) \in Fp
<1> DEFINE n == IF role = "R" THEN nA + nB ELSE 0
<1>1. t \in Int /\ Inv2 \in Int /\ n \in Int
  BY FpInt, Halving
<1> HIDE DEF n
<1>2. Inv2 * (n - t) \in Int
  BY <1>1
<1>3. (Inv2 * (n - t)) % P \in Fp
  BY <1>2, ResidueIn
<1> QED BY <1>3 DEF Convert, n

LEMMA MessageTypes ==
    /\ \A d \in Day : [kind |-> "sync", day |-> d] \in Message
    /\ \A n \in Int : [kind |-> "provision", size |-> n] \in Message
    /\ \A r \in Contribution : [kind |-> "salt", r |-> r] \in Message
    /\ \A n \in Int, a \in BOOLEAN :
          [kind |-> "round0", size |-> n, announce |-> a] \in Message
    /\ \A k \in {"jtilde", "supports"}, S \in SUBSET Index :
          [kind |-> k, set |-> S] \in Message
    /\ \A c \in Fp : [kind |-> "open", share |-> c] \in Message
BY DEF Message

LEMMA MessageFields ==
    ASSUME NEW m \in Message
    PROVE  /\ m.kind = "sync" => m.day \in Day
           /\ m.kind = "provision" => m.size \in Int
           /\ m.kind = "salt" => m.r \in Contribution
           /\ m.kind = "round0" => m.size \in Int /\ m.announce \in BOOLEAN
           /\ m.kind \in {"jtilde", "supports"} => m.set \in SUBSET Index
           /\ m.kind = "open" => m.share \in Fp
BY DEF Message

LEMMA PeerIn == \A p \in Party : Peer(p) \in Party /\ Peer(p) # p /\ Peer(Peer(p)) = p
BY DEF Party, Peer

Channels == [Party -> Seq(Message)]

LEMMA RestType ==
    ASSUME chan \in Channels, NEW p \in Party
    PROVE  /\ Rest(p) \in Seq(Message)
           /\ chan[p] # <<>> => Head(chan[p]) \in Message
<1>1. chan[p] \in Seq(Message)
  BY DEF Channels
<1>2. CASE chan[p] = <<>>
  BY <1>2 DEF Rest
<1>3. CASE chan[p] # <<>>
  BY <1>1, <1>3 DEF Rest
<1> QED BY <1>2, <1>3

LEMMA ChannelStep ==
    ASSUME chan \in Channels, NEW p \in Party, NEW m \in Message,
           Send(p, m) \/ Reply(p, m) \/ Consume(p) \/ UNCHANGED chan
    PROVE  chan' \in Channels
<1>1. Rest(p) \in Seq(Message)
  BY RestType
<1>2. Peer(p) \in Party /\ Peer(p) # p
  BY PeerIn
<1>3. Append(chan[Peer(p)], m) \in Seq(Message)
  BY <1>2 DEF Channels
<1>4. CASE Send(p, m)
  BY <1>2, <1>3, <1>4 DEF Send, Channels
<1>5. CASE Reply(p, m)
  <2>1. chan' = [chan EXCEPT ![p] = Rest(p), ![Peer(p)] = Append(chan[Peer(p)], m)]
    BY <1>2, <1>5 DEF Reply, Channels
  <2> QED BY <1>1, <1>2, <1>3, <2>1 DEF Channels
<1>6. CASE Consume(p)
  BY <1>1, <1>6 DEF Consume, Channels
<1>7. CASE UNCHANGED chan
  BY <1>7
<1> QED BY <1>4, <1>5, <1>6, <1>7

\* A message of the kind waited for, or what an untouched buffer may hold.
LEMMA DeliveredType ==
    ASSUME chan \in Channels, NEW p \in Party, NEW kind, NEW untouched,
           NEW m \in Delivered(p, kind, untouched)
    PROVE  (m \in Message /\ m.kind = kind) \/ m \in untouched
BY RestType DEF Delivered, Incoming

LEMMA StopType ==
    ASSUME TypeOK, NEW p \in Party, NEW r, Stop(p, r),
           r \in {"drift", "salt", "umax", "occupied", "length", "exhausted", "peer"}
    PROVE  TypeOK'
<1>1. "stopped" \in Control
  BY DEF Control, Ended
<1> QED BY <1>1 DEF TypeOK, Stop, Goto, procVars, inputVars

LEMMA ControlPlaces ==
    Waiting \subseteq Control /\ Ended \subseteq Control
      /\ {"idle", "eval", "commit"} \subseteq Control
BY DEF Control

LEMMA LocalsType ==
    /\ NoLocals \in Locals
    /\ \A b \in BOOLEAN : [NoLocals EXCEPT !.forced = b] \in Locals
    /\ \A r \in Contribution : [NoLocals EXCEPT !.r = r] \in Locals
    /\ \A c \in Fp : [NoLocals EXCEPT !.share = c] \in Locals
<1>1. 0 \in Contribution
  BY SessionAssumption
<1>2. NoLocals \in Locals
  BY <1>1, ZeroShare DEF NoLocals, Locals
<1>3. ASSUME NEW l \in Locals
      PROVE  /\ \A b \in BOOLEAN : [l EXCEPT !.forced = b] \in Locals
             /\ \A r \in Contribution : [l EXCEPT !.r = r] \in Locals
             /\ \A c \in Fp : [l EXCEPT !.share = c] \in Locals
  BY <1>3 DEF Locals
<1> HIDE DEF NoLocals
<1> QED BY <1>2, <1>3

LEMMA BeginDayType ==
    ASSUME TypeOK, NEW p \in Party, BeginDay(p)
    PROVE  TypeOK'
<1>1. Today(p) \in Day
  <2>1. schedule[p] \in Schedules \cup {<<>>} /\ day[p] \in Nat \ {0}
    BY DEF TypeOK
  <2>2. schedule[p] \in Seq(Day)
    <3>1. <<>> \in Seq(Day)
      OBVIOUS
    <3>2. Schedules \subseteq Seq(Day)
      BY SessionAssumption
    <3> QED BY <2>1, <3>1, <3>2
  <2>3. day[p] \in 1..Len(schedule[p])
    BY <2>1, <2>2 DEF BeginDay
  <2> QED BY <2>2, <2>3 DEF Today
<1> DEFINE m == [kind |-> "sync", day |-> Today(p)]
<1>2. m \in Message
  BY <1>1, MessageTypes
<1>3. chan' \in Channels
  <2>1. Send(p, m)
    BY DEF BeginDay
  <2> HIDE DEF m
  <2> QED BY <1>2, <2>1, ChannelStep DEF TypeOK, Channels
<1>4. "sync" \in Control
  BY DEF Control, Waiting
<1> QED BY <1>3, <1>4 DEF TypeOK, BeginDay, Goto, inputVars, Channels

LEMMA RecvSyncType ==
    ASSUME TypeOK, NEW p \in Party, RecvSync(p)
    PROVE  TypeOK'
<1>1. CASE Stop(p, "drift") \/ Stop(p, "salt")
  BY <1>1, StopType
<1>2. CASE \E I, D \in SUBSET Id : ApplyEdits(p, I, D)
  <2>1. PICK I \in SUBSET Id, D \in SUBSET Id : ApplyEdits(p, I, D)
    BY <1>2
  <2> DEFINE s == Apply(st[p], I, D, oracle[p])
             m == [kind |-> "provision", size |-> s.my_size]
  <2>2. s \in States
    BY ApplyType DEF TypeOK
  <2>3. m \in Message
    <3>1. s.my_size \in Int
      BY <2>2 DEF States
    <3> HIDE DEF s
    <3> QED BY <3>1, MessageTypes
  <2>4. Reply(p, m) \/ Consume(p)
    BY <2>1 DEF ApplyEdits
  <2>5. /\ st' = [st EXCEPT ![p] = s]
        /\ Goto(p, "provision") \/ Goto(p, "idle")
        /\ UNCHANGED day \/ day' = [day EXCEPT ![p] = @ + 1]
        /\ UNCHANGED <<disk, oracle, loc, pool, answer, why, crashes>>
        /\ UNCHANGED inputVars
    BY <2>1 DEF ApplyEdits
  <2> HIDE DEF s, m
  <2>6. chan' \in Channels
    BY <2>3, <2>4, ChannelStep DEF TypeOK, Channels
  <2>7. {"provision", "idle"} \subseteq Control
    BY DEF Control, Waiting
  <2>8. pc' \in [Party -> Control] /\ st' \in [Party -> States]
    <3>1. pc \in [Party -> Control] /\ st \in [Party -> States]
      BY DEF TypeOK
    <3>2. CASE Goto(p, "provision")
      BY <2>2, <2>5, <2>7, <3>1, <3>2 DEF Goto
    <3>3. CASE Goto(p, "idle")
      BY <2>2, <2>5, <2>7, <3>1, <3>3 DEF Goto
    <3> QED BY <2>5, <3>2, <3>3
  <2>9. day' \in [Party -> Nat \ {0}]
    <3>1. day \in [Party -> Nat \ {0}] /\ day[p] + 1 \in Nat \ {0}
      BY DEF TypeOK
    <3> QED BY <2>5, <3>1
  <2> QED BY <2>5, <2>6, <2>8, <2>9 DEF TypeOK, inputVars, Channels
<1>3. \/ Stop(p, "drift") \/ Stop(p, "salt")
      \/ \E I, D \in SUBSET Id : ApplyEdits(p, I, D)
  <2> HIDE DEF Stop, ApplyEdits
  <2> QED BY DEF RecvSync
<1> QED BY <1>1, <1>2, <1>3

LEMMA BeginQueryType ==
    ASSUME TypeOK, NEW p \in Party, NEW s \in States, NEW forced \in BOOLEAN,
           BeginQuery(p, s, forced)
    PROVE  /\ chan' \in Channels
           /\ pc' \in [Party -> Control]
           /\ loc' \in [Party -> Locals]
<1> DEFINE m == [kind |-> "round0", size |-> s.my_size, announce |-> Announces(s)]
<1>1. m \in Message
  <2>1. s.my_size \in Int /\ Announces(s) \in BOOLEAN
    BY DEF States, Announces
  <2> QED BY <2>1, MessageTypes
<1>2. Reply(p, m)
  BY DEF BeginQuery
<1> HIDE DEF m
<1>3. chan' \in Channels
  BY <1>1, <1>2, ChannelStep DEF TypeOK, Channels
<1>4. "round0" \in Control
  BY DEF Control, Waiting
<1>5. [NoLocals EXCEPT !.forced = forced] \in Locals
  BY LocalsType
<1> QED BY <1>3, <1>4, <1>5 DEF TypeOK, BeginQuery, Goto

LEMMA RecvProvisionType ==
    ASSUME TypeOK, NEW p \in Party, RecvProvision(p)
    PROVE  TypeOK'
<1>1. CASE Stop(p, "salt")
  BY <1>1, StopType
<1>2. CASE ~ Stop(p, "salt")
  <2>1. PICK m \in Delivered(p, "provision", [kind : {"provision"}, size : AnySize]) :
          /\ pool' = [pool EXCEPT ![p] =
                        IF @ >= EvaluationTarget(st[p].my_size, m.size) THEN @
                        ELSE EvaluationTarget(st[p].my_size, m.size)]
          /\ BeginRefresh(p) \/ BeginQuery(p, st[p], FALSE)
          /\ UNCHANGED <<st, disk, oracle, day, answer, why, crashes>>
          /\ UNCHANGED inputVars
    BY <1>2 DEF RecvProvision
  <2>2. m.size \in Int
    <3>1. (m \in Message /\ m.kind = "provision")
             \/ m \in [kind : {"provision"}, size : AnySize]
      BY DeliveredType DEF TypeOK, Channels
    <3>2. CASE m \in Message /\ m.kind = "provision"
      BY <3>2, MessageFields
    <3>3. CASE m \in [kind : {"provision"}, size : AnySize]
      <4>1. m.size \in AnySize
        BY <3>3
      <4>2. Cardinality(Id) \in Nat
        BY SetSize
      <4> QED BY <4>1, <4>2 DEF AnySize
    <3> QED BY <3>1, <3>2, <3>3
  <2>3. pool' \in [Party -> Int]
    <3>1. st[p].my_size \in Int /\ UMax \in Int /\ pool \in [Party -> Int]
      BY ConstantsAssumption DEF TypeOK, States
    <3>2. EvaluationTarget(st[p].my_size, m.size) \in Int
      BY <2>2, <3>1 DEF EvaluationTarget
    <3> HIDE DEF EvaluationTarget
    <3> QED BY <2>1, <3>1, <3>2
  <2>4. /\ chan' \in Channels
        /\ pc' \in [Party -> Control]
        /\ loc' \in [Party -> Locals]
    <3>1. CASE BeginQuery(p, st[p], FALSE)
      <4>1. st[p] \in States
        BY DEF TypeOK
      <4> QED BY <3>1, <4>1, BeginQueryType
    <3>2. CASE BeginRefresh(p)
      <4>1. PICK r \in Contribution \ {0} :
              /\ Reply(p, [kind |-> "salt", r |-> r])
              /\ loc' = [loc EXCEPT ![p] = [NoLocals EXCEPT !.r = r]]
              /\ Goto(p, "salt")
        BY <3>2 DEF BeginRefresh
      <4>2. [kind |-> "salt", r |-> r] \in Message
        BY MessageTypes
      <4>3. chan' \in Channels
        BY <4>1, <4>2, ChannelStep DEF TypeOK, Channels
      <4>4. "salt" \in Control
        BY DEF Control, Waiting
      <4>5. [NoLocals EXCEPT !.r = r] \in Locals
        BY LocalsType
      <4> QED BY <4>1, <4>3, <4>4, <4>5 DEF TypeOK, Goto
    <3> QED BY <2>1, <3>1, <3>2
  <2> QED BY <2>1, <2>3, <2>4 DEF TypeOK, inputVars, Channels
<1> QED BY <1>1, <1>2

\* The Receiver's contribution is hashed first, whoever hashes.
LEMMA HashOrder ==
    \A p, a, b : RefreshedSalt(p, a, b) = IF p = "R" THEN Refreshed[a, b]
                                                     ELSE Refreshed[b, a]
BY Zenon DEF RefreshedSalt

\* Any two contributions make a salt.
LEMMA SaltFromBoth ==
    ASSUME NEW p, NEW a \in Contribution, NEW b \in Contribution
    PROVE  RefreshedSalt(p, a, b) \in Salt
<1>1. <<a, b>> \in Contribution \X Contribution
      /\ <<b, a>> \in Contribution \X Contribution
  OBVIOUS
<1>2. \A z \in Contribution \X Contribution : Refreshed[z] \in Salt
  BY SessionAssumption
<1>3. Refreshed[a, b] \in Salt /\ Refreshed[b, a] \in Salt
  BY <1>1, <1>2, Zenon
<1> QED BY <1>3, Zenon DEF RefreshedSalt

LEMMA RecvSaltType ==
    ASSUME TypeOK, NEW p \in Party, RecvSalt(p)
    PROVE  TypeOK'
<1>1. PICK m \in Delivered(p, "salt", {[kind |-> "salt", r |-> 0]}) :
        LET salt == RefreshedSalt(p, loc[p].r, m.r)
            s    == Rebuilt(st[p], salt)
        IN  /\ oracle' = [oracle EXCEPT ![p] = salt]
            /\ st' = [st EXCEPT ![p] = s]
            /\ BeginQuery(p, s, TRUE)
  BY DEF RecvSalt
<1> DEFINE salt == RefreshedSalt(p, loc[p].r, m.r)
           s    == Rebuilt(st[p], salt)
<1>2. m.r \in Contribution
  <2>1. (m \in Message /\ m.kind = "salt") \/ m \in {[kind |-> "salt", r |-> 0]}
    BY DeliveredType DEF TypeOK, Channels
  <2>2. CASE m \in Message /\ m.kind = "salt"
    BY <2>2, MessageFields
  <2>3. CASE m \in {[kind |-> "salt", r |-> 0]}
    BY <2>3, SessionAssumption
  <2> QED BY <2>1, <2>2, <2>3
<1>3. salt \in Salt
  <2>1. loc[p].r \in Contribution
    BY DEF TypeOK, Locals
  <2> QED BY <1>2, <2>1, SaltFromBoth
<1>4. s \in States
  <2>1. st[p] \in States
    BY DEF TypeOK
  <2> HIDE DEF salt
  <2> QED BY <1>3, <2>1, RebuiltType
<1>5. /\ oracle' = [oracle EXCEPT ![p] = salt]
      /\ st' = [st EXCEPT ![p] = s]
      /\ BeginQuery(p, s, TRUE)
  BY <1>1
<1> HIDE DEF s, salt
<1>6. /\ chan' \in Channels
      /\ pc' \in [Party -> Control]
      /\ loc' \in [Party -> Locals]
  BY <1>4, <1>5, BeginQueryType
<1>7. UNCHANGED <<disk, pool, day, answer, why, crashes>> /\ UNCHANGED inputVars
  BY DEF RecvSalt
<1> QED BY <1>3, <1>4, <1>5, <1>6, <1>7 DEF TypeOK, inputVars, Channels

LEMMA PublishType ==
    ASSUME TypeOK, NEW p \in Party, NEW kind \in {"jtilde", "supports"},
           NEW path \in {"full", "incremental"}, NEW n \in Int,
           NEW set \in SUBSET Index, Publish(p, kind, path, n, set)
    PROVE  TypeOK'
<1> DEFINE m == [kind |-> kind, set |-> set]
<1>1. m \in Message
  BY MessageTypes
<1>2. Reply(p, m)
  BY DEF Publish
<1> HIDE DEF m
<1>3. chan' \in Channels
  BY <1>1, <1>2, ChannelStep DEF TypeOK, Channels
<1>4. loc' \in [Party -> Locals]
  <2>1. loc \in [Party -> Locals]
    BY DEF TypeOK
  <2>2. loc' = [loc EXCEPT ![p] = [loc[p] EXCEPT !.peer_size = n, !.path = path,
                                                 !.mine = set]]
    BY <2>1 DEF Publish
  <2>3. [loc[p] EXCEPT !.peer_size = n, !.path = path, !.mine = set] \in Locals
    BY <2>1 DEF Locals
  <2> QED BY <2>1, <2>2, <2>3
<1>5. kind \in Control
  BY DEF Control, Waiting
<1> QED BY <1>3, <1>4, <1>5 DEF TypeOK, Publish, Goto, inputVars, Channels

LEMMA PadsIn ==
    ASSUME NEW k, NEW S, NEW pad \in Pads(k, S)
    PROVE  /\ pad \subseteq Bucket \ S /\ pad \subseteq Index
           /\ Cardinality(pad) = k
<1>1. Bucket \subseteq Index
  BY ConstantsAssumption DEF Bucket, Index
<1> QED BY <1>1 DEF Pads, kSubset

LEMMA RecvRound0Type ==
    ASSUME TypeOK, NEW p \in Party, RecvRound0(p)
    PROVE  TypeOK'
<1>1. PICK m \in Delivered(p, "round0",
                           [kind : {"round0"}, size : AnySize, announce : BOOLEAN]) :
        PublishSupports(p, m.size) \/ PublishDirty(p, m.size)
  BY DEF RecvRound0
<1>2. m.size \in Int
  <2>1. (m \in Message /\ m.kind = "round0")
           \/ m \in [kind : {"round0"}, size : AnySize, announce : BOOLEAN]
    BY DeliveredType DEF TypeOK, Channels
  <2>2. CASE m \in Message /\ m.kind = "round0"
    BY <2>2, MessageFields
  <2>3. CASE m \in [kind : {"round0"}, size : AnySize, announce : BOOLEAN]
    <3>1. m.size \in AnySize
      BY <2>3
    <3>2. Cardinality(Id) \in Nat
      BY SetSize
    <3> QED BY <3>1, <3>2 DEF AnySize
  <2> QED BY <2>1, <2>2, <2>3
<1>3. CASE PublishSupports(p, m.size)
  <2>1. CASE Stop(p, "occupied")
    BY <2>1, StopType
  <2>2. CASE ~ Stop(p, "occupied")
    <3> DEFINE occupied == Occupied(st[p])
               target == CapM(st[p].my_size)
    <3>1. PICK pad \in Pads(target - Cardinality(occupied), occupied) :
            Publish(p, "supports", "full", m.size, occupied \cup pad)
      BY <1>3, <2>2 DEF PublishSupports
    <3>2. occupied \cup pad \in SUBSET Index
      <4>1. occupied \subseteq Index
        BY DEF Occupied, TypeOK, States
      <4> HIDE DEF occupied, target
      <4> QED BY <4>1, PadsIn
    <3> HIDE DEF occupied, target
    <3> QED BY <1>2, <3>1, <3>2, PublishType
  <2> QED BY <2>1, <2>2
<1>4. CASE PublishDirty(p, m.size)
  <2>1. CASE Stop(p, "umax")
    BY <2>1, StopType
  <2>2. CASE ~ Stop(p, "umax")
    <3>1. PICK pad \in Pads(UMax - Cardinality(st[p].J), st[p].J) :
            Publish(p, "jtilde", "incremental", m.size, st[p].J \cup pad)
      BY <1>4, <2>2 DEF PublishDirty
    <3>2. st[p].J \cup pad \in SUBSET Index
      BY PadsIn DEF TypeOK, States
    <3> QED BY <1>2, <3>1, <3>2, PublishType
  <2> QED BY <2>1, <2>2
<1> QED BY <1>1, <1>3, <1>4

LEMMA RecvIndicesType ==
    ASSUME TypeOK, NEW p \in Party, RecvIndices(p)
    PROVE  TypeOK'
<1>1. PICK m \in Delivered(p, pc[p], EmptyIndices(pc[p])) :
        \/ Stop(p, "length") \/ Stop(p, "exhausted")
        \/ /\ Consume(p)
           /\ loc' = [loc EXCEPT ![p].betas = loc[p].mine \cup m.set]
           /\ Goto(p, "eval")
           /\ UNCHANGED <<st, disk, oracle, pool, day, answer, why, crashes>>
           /\ UNCHANGED inputVars
  BY DEF RecvIndices
<1>2. CASE Stop(p, "length") \/ Stop(p, "exhausted")
  BY <1>2, StopType
<1>3. CASE ~ (Stop(p, "length") \/ Stop(p, "exhausted"))
  <2>1. pc[p] \in {"jtilde", "supports"}
    BY DEF RecvIndices
  <2>2. m.set \in SUBSET Index
    <3>1. (m \in Message /\ m.kind = pc[p]) \/ m \in EmptyIndices(pc[p])
      BY DeliveredType DEF TypeOK, Channels
    <3>2. CASE m \in Message /\ m.kind = pc[p]
      BY <2>1, <3>2, MessageFields
    <3>3. CASE m \in EmptyIndices(pc[p])
      <4>1. 0 \in Index
        BY ConstantsAssumption DEF Index
      <4> QED BY <3>3, <4>1 DEF EmptyIndices
    <3> QED BY <3>1, <3>2, <3>3
  <2>3. chan' \in Channels
    <3>1. \E a : a \in Message
      BY MessageTypes, ZeroShare
    <3> QED BY <1>1, <1>3, <3>1, ChannelStep DEF TypeOK, Channels
  <2>4. loc' \in [Party -> Locals]
    <3>1. loc \in [Party -> Locals]
      BY DEF TypeOK
    <3>2. loc' = [loc EXCEPT ![p] = [loc[p] EXCEPT !.betas = loc[p].mine \cup m.set]]
      BY <1>1, <1>3, <3>1
    <3>3. [loc[p] EXCEPT !.betas = loc[p].mine \cup m.set] \in Locals
      BY <2>2, <3>1 DEF Locals
    <3> QED BY <3>1, <3>2, <3>3
  <2>5. "eval" \in Control
    BY DEF Control
  <2>6. /\ Goto(p, "eval")
        /\ UNCHANGED <<st, disk, oracle, pool, day, answer, why, crashes>>
        /\ UNCHANGED inputVars
    BY <1>1, <1>3
  <2> QED BY <2>3, <2>4, <2>5, <2>6 DEF TypeOK, Goto, inputVars, Channels
<1> QED BY <1>2, <1>3

\* What one party's locals are after an evaluation.
LEMMA FreshSharesType ==
    ASSUME NEW l \in Locals, NEW betas, NEW share \in [betas -> Fp]
    PROVE  [l EXCEPT !.fresh = [b \in Index |-> IF b \in betas THEN share[b] ELSE 0]]
             \in Locals
<1> DEFINE fresh == [b \in Index |-> IF b \in betas THEN share[b] ELSE 0]
<1>1. fresh \in [Index -> Fp]
  BY ZeroShare
<1> HIDE DEF fresh
<1>2. [l EXCEPT !.fresh = fresh] \in Locals
  BY <1>1 DEF Locals
<1> QED BY <1>2 DEF fresh

LEMMA BetasSize ==
    ASSUME TypeOK, NEW p \in Party
    PROVE  Cardinality(loc[p].betas) \in Int
BY IndexFinite, FS_CardinalityType DEF TypeOK, Locals

\* The shares an evaluation deals out.
LEMMA DealtType ==
    ASSUME NEW t \in 0..T, NEW mask \in Fp
    PROVE  (t - mask) % P \in Fp
<1>1. t \in Int /\ mask \in Int
  BY FpInt, ConstantsAssumption
<1> QED BY <1>1, ResidueIn

\* What Evaluate does, with the shares as functions.
Shares(p, mask, t) ==
    [b \in Index |-> IF b \notin loc["R"].betas THEN 0
                     ELSE IF p = "R" THEN mask[b] ELSE (t[b] - mask[b]) % P]

LEMMA SharesType ==
    ASSUME NEW p, NEW mask \in [loc["R"].betas -> Masks],
           NEW t \in [loc["R"].betas -> 0..T]
    PROVE  Shares(p, mask, t) \in [Index -> Fp]
<1>1. \A b \in loc["R"].betas : mask[b] \in Fp /\ (t[b] - mask[b]) % P \in Fp
  BY DealtType, SessionAssumption
<1> QED BY <1>1, ZeroShare DEF Shares

LEMMA EvaluateType ==
    ASSUME TypeOK, Evaluate
    PROVE  TypeOK'
<1>1. PICK mask \in [loc["R"].betas -> Masks], t \in [loc["R"].betas -> 0..T] :
        loc' = [p \in Party |-> [loc[p] EXCEPT !.fresh = Shares(p, mask, t)]]
  BY DEF Evaluate, Shares
<1>2. ASSUME NEW p \in Party
      PROVE  [loc[p] EXCEPT !.fresh = Shares(p, mask, t)] \in Locals
  <2>1. loc[p] \in Locals /\ Shares(p, mask, t) \in [Index -> Fp]
    BY SharesType DEF TypeOK
  <2> QED BY <2>1 DEF Locals
<1>3. loc' \in [Party -> Locals]
  BY <1>1, <1>2
<1>4. pool' \in [Party -> Int]
  <2>1. Cardinality(loc["R"].betas) \in Int
    BY BetasSize DEF Party
  <2>2. pool' = [p \in Party |-> pool[p] - Cardinality(loc["R"].betas)]
    BY DEF Evaluate
  <2> QED BY <2>1, <2>2 DEF TypeOK
<1>5. "commit" \in Control
  BY DEF Control
<1> QED BY <1>3, <1>4, <1>5 DEF TypeOK, Evaluate, inputVars

LEMMA EvaluateAloneType ==
    ASSUME TypeOK, NEW p \in Party, EvaluateAlone(p)
    PROVE  TypeOK'
<1>1. loc \in [Party -> Locals]
  BY DEF TypeOK
<1>2. PICK junk \in [loc[p].betas -> Masks] :
        loc' = [loc EXCEPT ![p] = [loc[p] EXCEPT !.fresh =
                  [b \in Index |-> IF b \in loc[p].betas THEN junk[b] ELSE 0]]]
  BY <1>1 DEF EvaluateAlone
<1>3. junk \in [loc[p].betas -> Fp]
  BY SessionAssumption
<1>4. loc' \in [Party -> Locals]
  BY <1>1, <1>2, <1>3, FreshSharesType
<1>5. pool' \in [Party -> Int]
  BY BetasSize DEF EvaluateAlone, TypeOK
<1>6. "commit" \in Control
  BY DEF Control
<1>7. /\ Goto(p, "commit")
      /\ UNCHANGED <<st, disk, oracle, chan, day, answer, why, crashes>>
      /\ UNCHANGED inputVars
  BY DEF EvaluateAlone
<1> QED BY <1>4, <1>5, <1>6, <1>7 DEF TypeOK, Goto, inputVars

LEMMA CommitQueryType ==
    ASSUME TypeOK, NEW p \in Party, CommitQuery(p)
    PROVE  TypeOK'
<1> DEFINE s == Commit(st[p], loc[p].path, loc[p].betas, loc[p].fresh)
           c == Convert(p, s.t_share, s.my_size, loc[p].peer_size)
           m == [kind |-> "open", share |-> c]
<1>1. s \in States
  <2>1. st[p] \in States /\ loc[p].betas \in SUBSET Index
          /\ loc[p].fresh \in [Index -> Fp]
    BY DEF TypeOK, Locals
  <2> QED BY <2>1, CommitType
<1>2. /\ st' = [st EXCEPT ![p] = s]
      /\ disk' = [disk EXCEPT ![p] = s]
      /\ loc' = [loc EXCEPT ![p] = [NoLocals EXCEPT !.share = c]]
      /\ Send(p, m)
      /\ Goto(p, "open")
      /\ UNCHANGED <<oracle, pool, day, answer, why, crashes>>
      /\ UNCHANGED inputVars
  BY DEF CommitQuery
<1> HIDE DEF s
<1>3. c \in Fp
  <2>1. s.t_share \in Fp /\ s.my_size \in Int /\ loc[p].peer_size \in Int
    BY <1>1 DEF States, TypeOK, Locals
  <2> QED BY <2>1, ConvertType
<1> HIDE DEF c
<1>4. m \in Message
  BY <1>3, MessageTypes
<1> HIDE DEF m
<1>5. chan' \in Channels
  BY <1>2, <1>4, ChannelStep DEF TypeOK, Channels
<1>6. [NoLocals EXCEPT !.share = c] \in Locals
  BY <1>3, LocalsType
<1>7. "open" \in Control
  BY DEF Control, Waiting
<1> QED BY <1>1, <1>2, <1>5, <1>6, <1>7 DEF TypeOK, Goto, inputVars, Channels

LEMMA RecvOpenType ==
    ASSUME TypeOK, NEW p \in Party, RecvOpen(p)
    PROVE  TypeOK'
<1> DEFINE c == (loc[p].share + Head(chan[p]).share) % P
<1>1. c \in Fp
  <2>1. loc[p].share \in Fp
    BY DEF TypeOK, Locals
  <2>2. Head(chan[p]).share \in Fp
    BY RestType, MessageFields DEF RecvOpen, Incoming, TypeOK, Channels
  <2>3. loc[p].share + Head(chan[p]).share \in Int
    BY <2>1, <2>2, FpInt
  <2> QED BY <2>3, ResidueIn
<1>2. /\ answer' = [answer EXCEPT ![p] = c]
      /\ Consume(p)
      /\ loc' = [loc EXCEPT ![p] = NoLocals]
      /\ day' = [day EXCEPT ![p] = @ + 1]
      /\ Goto(p, "idle")
      /\ UNCHANGED <<st, disk, oracle, pool, why, crashes>>
      /\ UNCHANGED inputVars
  BY DEF RecvOpen
<1> HIDE DEF c
<1>3. chan' \in Channels
  <2>1. \E a : a \in Message
    BY MessageTypes, ZeroShare
  <2> QED BY <1>2, <2>1, ChannelStep DEF TypeOK, Channels
<1>4. day' \in [Party -> Nat \ {0}]
  <2>1. day \in [Party -> Nat \ {0}] /\ day[p] + 1 \in Nat \ {0}
    BY DEF TypeOK
  <2> QED BY <1>2, <2>1
<1>5. "idle" \in Control
  BY DEF Control
<1> QED BY <1>1, <1>2, <1>3, <1>4, <1>5, LocalsType
        DEF TypeOK, Goto, inputVars, Channels

LEMMA EndType ==
    ASSUME TypeOK, NEW p \in Party, Exit(p) \/ LosePeer(p) \/ Crash(p)
    PROVE  TypeOK'
<1>1. {"done", "crashed"} \subseteq Control
  BY DEF Control, Ended
<1>2. CASE Exit(p)
  BY <1>1, <1>2 DEF TypeOK, Exit, Goto, procVars, inputVars
<1>3. CASE LosePeer(p)
  BY <1>3, StopType DEF LosePeer
<1>4. CASE Crash(p)
  <2>1. chan' \in Channels
    <3>1. CASE UNCHANGED chan
      BY <3>1 DEF TypeOK, Channels
    <3>2. CASE ~ UNCHANGED chan
      <4> DEFINE q == Peer(p)
                 c == chan[q]
      <4>1. /\ c \in Seq(Message) /\ c # <<>>
            /\ chan' = [chan EXCEPT ![q] = SubSeq(c, 1, Len(c) - 1)]
        BY <1>4, <3>2, PeerIn DEF Crash, TypeOK
      <4>2. SubSeq(c, 1, Len(c) - 1) \in Seq(Message)
        <5> HIDE DEF c
        <5>1. Len(c) \in Nat /\ \A i \in 1..Len(c) : c[i] \in Message
          BY <4>1
        <5>2. Len(c) - 1 \in Int /\ \A i \in 1..(Len(c) - 1) : c[i] \in Message
          BY <5>1
        <5> QED BY <4>1, <5>1, <5>2
      <4> HIDE DEF c
      <4> QED BY <4>1, <4>2 DEF TypeOK, Channels
    <3> QED BY <3>1, <3>2
  <2>2. crashes' \in Nat
    BY <1>4 DEF Crash, TypeOK
  <2> QED BY <1>1, <1>4, <2>1, <2>2
          DEF TypeOK, Crash, Goto, procVars, inputVars, Channels
<1> QED BY <1>2, <1>3, <1>4

LEMMA StartSessionType ==
    ASSUME TypeOK, StartSession
    PROVE  TypeOK'
<1>1. PICK sched \in [Party -> Schedules], f \in Forced : schedule' = sched /\ force' = f
  BY DEF StartSession
<1>2. schedule' \in [Party -> Schedules \cup {<<>>}] /\ force' \in [Party -> BOOLEAN]
  BY <1>1, SessionAssumption
<1>3. oracle' \in [Party -> Salt] /\ st' \in [Party -> States]
  BY DEF StartSession, TypeOK, States
<1>4. chan' \in Channels
  BY DEF StartSession, Channels
<1>5. session' \in Nat
  BY DEF StartSession, TypeOK
<1>6. "idle" \in Control
  BY DEF Control
<1>7. /\ pc' = [p \in Party |-> "idle"]
      /\ loc' = [p \in Party |-> NoLocals]
      /\ pool' = [p \in Party |-> 0]
      /\ day' = [p \in Party |-> 1]
      /\ answer' = [p \in Party |-> NoAnswer]
      /\ why' = [p \in Party |-> "none"]
      /\ UNCHANGED <<disk, crashes, offline>>
  BY DEF StartSession
<1> QED BY <1>2, <1>3, <1>4, <1>5, <1>6, <1>7, LocalsType DEF TypeOK, Channels

LEMMA UpdateOnlyType ==
    ASSUME TypeOK, NEW p \in Party, UpdateOnly(p)
    PROVE  TypeOK'
<1>1. PICK I \in SUBSET Id, D \in SUBSET Id :
        disk' = [disk EXCEPT ![p] = Apply(@, I, D, @.oracle_salt)]
  BY DEF UpdateOnly
<1>2. Apply(disk[p], I, D, disk[p].oracle_salt) \in States
  <2>1. disk[p] \in States /\ disk[p].oracle_salt \in Salt
    BY DEF TypeOK, States
  <2> QED BY <2>1, ApplyType
<1>3. disk' \in [Party -> States]
  <2>1. disk' = [disk EXCEPT ![p] = Apply(disk[p], I, D, disk[p].oracle_salt)]
    BY <1>1
  <2> QED BY <1>2, <2>1 DEF TypeOK
<1>4. offline' \in Nat
  BY DEF UpdateOnly, TypeOK
<1>5. UNCHANGED <<chan, pc, why, crashes, schedule, force, session>>
        /\ UNCHANGED procVars
  BY DEF UpdateOnly
<1> QED BY <1>3, <1>4, <1>5 DEF TypeOK, procVars

LEMMA TypeInit == Init => TypeOK
<1> SUFFICES ASSUME Init PROVE TypeOK
  OBVIOUS
<1>1. PICK ids \in [Party -> InitIds] :
        disk = [p \in Party |-> LoadedWith(ids[p])]
  BY DEF Init
<1>2. disk \in [Party -> States]
  <2>1. \A p \in Party : ids[p] \in SUBSET Id
    BY SessionAssumption
  <2>2. \A p \in Party : LoadedWith(ids[p]) \in States
    BY <2>1, FreshType, ApplyType, ConstantsAssumption DEF LoadedWith
  <2> QED BY <1>1, <2>2
<1>3. "done" \in Control
  BY DEF Control, Ended
<1>4. chan \in Channels
  BY DEF Init, Channels
<1>5. EpochZero \in Salt
  BY ConstantsAssumption
<1> QED BY <1>2, <1>3, <1>4, <1>5, LocalsType DEF TypeOK, Init, Channels

LEMMA TypeNext == TypeOK /\ [Next]_vars => TypeOK'
<1> SUFFICES ASSUME TypeOK, [Next]_vars PROVE TypeOK'
  OBVIOUS
<1>1. CASE UNCHANGED vars \/ Quiescent
  BY <1>1 DEF TypeOK, vars, Quiescent
<1>2. CASE \E p \in Party :
             \/ BeginDay(p) \/ RecvSync(p) \/ RecvProvision(p) \/ RecvSalt(p)
             \/ RecvRound0(p) \/ RecvIndices(p) \/ EvaluateAlone(p)
             \/ CommitQuery(p) \/ RecvOpen(p) \/ LosePeer(p)
             \/ Exit(p) \/ Crash(p) \/ UpdateOnly(p)
  BY <1>2, BeginDayType, RecvSyncType, RecvProvisionType, RecvSaltType,
     RecvRound0Type, RecvIndicesType, EvaluateAloneType, CommitQueryType,
     RecvOpenType, EndType, UpdateOnlyType
<1>3. CASE Evaluate \/ StartSession
  BY <1>3, EvaluateType, StartSessionType
<1> QED BY <1>1, <1>2, <1>3 DEF Next

\* Every variable of the day loop stays in its type: states are of the shape
\* State declares (state.hpp:28-47), shares are field elements, messages are of
\* the seven exchanges, whatever crashes.
THEOREM TypeCorrect == Spec => []TypeOK
BY TypeInit, TypeNext, PTL DEF Spec

-------------------------------------------------------------------------------
(* AnswerDurable.                                                            *)
(*                                                                           *)
(* A party sends one message when it enters an exchange and takes one when   *)
(* it leaves, so that as long as both live there are as many messages under  *)
(* way as there are parties waiting.  That is why nobody can get from the    *)
(* opening of one count to the edits of the next day before the peer has     *)
(* taken its half, however far the two have drifted apart.  Nothing is       *)
(* assumed: the parties may be given any flags and schedules, a failed       *)
(* exchange may deliver anything, ids may be edited offline.                 *)

Live(p) == pc[p] \notin Ended
StateSaved(p) == disk[p] = st[p] \/ (pc[p] \in Ended /\ offline > 0)
Told(p) == pc[p] = "idle" /\ answer[p] # NoAnswer

Last(c) == c[Len(c)]

\* p knows the peer's half of a count, or has it waiting.
HasHalf(p) == Told(p) \/ \E i \in DOMAIN chan[p] : chan[p][i].kind = "open"

Awaits(p) == IF pc[p] \in Waiting THEN 1 ELSE 0

Balanced ==
    (\A p \in Party : Live(p)) =>
        Len(chan["R"]) + Len(chan["S"]) = Awaits("R") + Awaits("S")

\* What p has sent last tells where it is.
LastWord(p) ==
    Live(p) /\ chan[Peer(p)] # <<>> =>
        /\ pc[p] \in Waiting => Last(chan[Peer(p)]).kind = pc[p]
        /\ pc[p] \in {"eval", "commit"} =>
              Last(chan[Peer(p)]).kind \in {"jtilde", "supports"}
        /\ Told(p) => Last(chan[Peer(p)]).kind = "open"

\* As long as q may still use p's half, p keeps the state it is about.
KeptFor(q, p) ==
    Live(q) /\ HasHalf(q) => pc[p] \in {"open", "idle", "sync"} \cup Ended /\ StateSaved(p)

OwnDay(p) ==
    /\ pc[p] = "open" \/ Told(p) => disk[p] = st[p]
    /\ pc[p] \notin Ended \cup {"idle"} => answer[p] = NoAnswer
    /\ pc[p] = "sync" => day[p] <= Len(schedule[p])

DurabilityInv ==
    /\ TypeOK
    /\ Balanced
    /\ \A p \in Party : LastWord(p) /\ OwnDay(p) /\ KeptFor(Peer(p), p)

-------------------------------------------------------------------------------
(* Messages.                                                                 *)

LEMMA Two == \A p \in Party : \A q \in Party : q = p \/ q = Peer(p)
BY DEF Party, Peer

LEMMA Queue ==
    ASSUME TypeOK, NEW p \in Party
    PROVE  /\ chan[p] \in Seq(Message) /\ Len(chan[p]) \in Nat
           /\ chan[p] = <<>> <=> Len(chan[p]) = 0
           /\ DOMAIN chan[p] = 1..Len(chan[p])
BY DEF TypeOK

LEMMA UnderWay ==
    ASSUME DurabilityInv, NEW p \in Party, Live(p), Live(Peer(p))
    PROVE  /\ Len(chan[p]) \in Nat /\ Len(chan[Peer(p)]) \in Nat
           /\ Awaits(p) \in {0, 1} /\ Awaits(Peer(p)) \in {0, 1}
           /\ Len(chan[p]) + Len(chan[Peer(p)]) = Awaits(p) + Awaits(Peer(p))
<1> DEFINE n(x) == Len(chan[x])
<1>1. n("R") \in Nat /\ n("S") \in Nat
  BY Queue DEF DurabilityInv, Party
<1>2. \A x \in Party : Awaits(x) \in {0, 1}
  BY DEF Awaits
<1>3. n("R") + n("S") = Awaits("R") + Awaits("S")
  BY Two DEF DurabilityInv, Balanced
<1>4. Awaits("R") \in {0, 1} /\ Awaits("S") \in {0, 1}
  BY <1>2 DEF Party
<1>5. (p = "R" /\ Peer(p) = "S") \/ (p = "S" /\ Peer(p) = "R")
  BY DEF Party, Peer
<1>6. /\ n(p) \in Nat /\ n(Peer(p)) \in Nat
      /\ n(p) + n(Peer(p)) = Awaits(p) + Awaits(Peer(p))
  <2> HIDE DEF n
  <2> QED BY <1>1, <1>3, <1>4, <1>5
<1> QED BY <1>2, <1>6, PeerIn

LEMMA Grown ==
    ASSUME NEW c \in Seq(Message), NEW m \in Message
    PROVE  /\ Append(c, m) # <<>> /\ Last(Append(c, m)) = m
           /\ Len(Append(c, m)) = Len(c) + 1
           /\ m.kind # "open" =>
                ((\E i \in DOMAIN Append(c, m) : Append(c, m)[i].kind = "open")
                   => \E i \in DOMAIN c : c[i].kind = "open")
<1>1. /\ Len(c) \in Nat /\ DOMAIN c = 1..Len(c)
      /\ Len(Append(c, m)) = Len(c) + 1 /\ DOMAIN Append(c, m) = 1..(Len(c) + 1)
      /\ Append(c, m)[Len(c) + 1] = m
      /\ \A i \in 1..Len(c) : Append(c, m)[i] = c[i]
  OBVIOUS
<1>2. Append(c, m) # <<>>
  BY <1>1
<1>3. ASSUME m.kind # "open", NEW i \in 1..(Len(c) + 1), Append(c, m)[i].kind = "open"
      PROVE  i \in DOMAIN c /\ c[i].kind = "open"
  <2>1. i # Len(c) + 1
    BY <1>1, <1>3
  <2>2. i \in 1..Len(c)
    BY <1>1, <1>3, <2>1
  <2> QED BY <1>1, <1>3, <2>2
<1> QED BY <1>1, <1>2, <1>3 DEF Last

LEMMA Shrunk ==
    ASSUME NEW c \in Seq(Message), c # <<>>
    PROVE  /\ Tail(c) \in Seq(Message) /\ Len(Tail(c)) = Len(c) - 1
           /\ Tail(c) # <<>> => Last(Tail(c)) = Last(c)
           /\ (\E i \in DOMAIN Tail(c) : Tail(c)[i].kind = "open")
                => \E i \in DOMAIN c : c[i].kind = "open"
<1>1. /\ Len(c) \in Nat /\ DOMAIN c = 1..Len(c) /\ Len(c) > 0
      /\ Tail(c) \in Seq(Message) /\ Len(Tail(c)) = Len(c) - 1
      /\ DOMAIN Tail(c) = 1..(Len(c) - 1)
      /\ \A i \in 1..(Len(c) - 1) : Tail(c)[i] = c[i + 1]
  OBVIOUS
<1>2. Tail(c) # <<>> => Last(Tail(c)) = Last(c)
  <2>1. Tail(c) # <<>> => Len(c) - 1 \in 1..(Len(c) - 1)
    BY <1>1
  <2> QED BY <1>1, <2>1 DEF Last
<1>3. ASSUME NEW i \in 1..(Len(c) - 1), Tail(c)[i].kind = "open"
      PROVE  i + 1 \in DOMAIN c /\ c[i + 1].kind = "open"
  BY <1>1, <1>3
<1> QED BY <1>1, <1>2, <1>3

\* What a live peer lets a party do is take a message off its queue.
LEMMA TakesOne ==
    ASSUME TypeOK, NEW p \in Party, pc[p] \in Waiting, Live(Peer(p)),
           NEW kind, NEW untouched, NEW m \in Delivered(p, kind, untouched)
    PROVE  chan[p] # <<>>
<1>1. pc[p] # "eval"
  BY DEF Waiting
<1> QED BY <1>1 DEF Delivered, Incoming, Failed, Live

-------------------------------------------------------------------------------
(* A party cannot leave the schedule check of a day while its half of the    *)
(* last count is still wanted, nor be anywhere behind it.                    *)

LEMMA HalfTaken ==
    ASSUME DurabilityInv, NEW p \in Party, Live(p), Live(Peer(p)),
           pc[p] \notin {"open", "idle", "sync"},
           HasHalf(Peer(p))
    PROVE  FALSE
BY DEF DurabilityInv, KeptFor, Live

LEMMA SyncWaits ==
    ASSUME DurabilityInv, NEW p \in Party, Live(Peer(p)), pc[p] = "sync",
           chan[p] # <<>>, Head(chan[p]).kind = "sync",
           HasHalf(Peer(p))
    PROVE  FALSE
<1> DEFINE q == Peer(p)
           c == chan[p]
           d == chan[q]
<1>1. q \in Party /\ Peer(q) = p /\ {"R", "S"} = {p, q} /\ p # q
  BY PeerIn DEF Party, Peer
<1>2. Live(p) /\ pc[p] \in Waiting
  BY DEF Live, Waiting, Ended
<1>3. /\ c \in Seq(Message) /\ d \in Seq(Message) /\ Len(c) \in Nat /\ Len(d) \in Nat
      /\ Len(c) > 0 /\ c[1].kind = "sync" /\ DOMAIN d = 1..Len(d)
  BY <1>1, Queue DEF DurabilityInv
<1> DEFINE n == Len(c)
           l == Len(d)
           w == Awaits(q)
<1>4. n \in Nat /\ l \in Nat /\ w \in {0, 1} /\ n > 0 /\ n + l = 1 + w
  <2>1. Awaits(p) = 1
    BY <1>2 DEF Awaits
  <2>2. n \in Nat /\ l \in Nat /\ w \in {0, 1} /\ n + l = Awaits(p) + w
    BY <1>2, UnderWay
  <2>3. n > 0
    BY <1>3
  <2> QED BY <2>1, <2>2, <2>3
<1>5. CASE Told(q)
  <2>1. w = 0
    BY <1>5 DEF Told, Awaits, Waiting
  <2>2. n = 1
    <3> HIDE DEF n, l, w
    <3> QED BY <1>4, <2>1
  <2>3. Last(c).kind = "open"
    BY <1>1, <1>5 DEF DurabilityInv, LastWord
  <2> QED BY <1>3, <2>2, <2>3 DEF Last
<1>6. CASE \E i \in DOMAIN d : d[i].kind = "open"
  <2>1. PICK i \in DOMAIN d : d[i].kind = "open"
    BY <1>6
  <2>2. d # <<>>
    BY <1>3, <2>1
  <2>3. d[Len(d)].kind = "sync"
    BY <1>1, <1>2, <2>2 DEF DurabilityInv, LastWord, Last
  <2>4. i # Len(d) /\ i \in 1..Len(d)
    BY <1>3, <2>1, <2>3
  <2>5. l >= 2
    BY <1>3, <2>4
  <2> HIDE DEF n, l, w
  <2> QED BY <1>4, <2>5
<1> QED BY <1>5, <1>6 DEF HasHalf

-------------------------------------------------------------------------------
(* The shapes a step can have.  TypeOK' comes from SessionProofs.            *)

\* What party p does leaves the other party as it is.
Alone(p) ==
    LET q == Peer(p) IN
    /\ pc'[q] = pc[q] /\ answer'[q] = answer[q] /\ st'[q] = st[q] /\ disk'[q] = disk[q]
    /\ day'[q] = day[q] /\ UNCHANGED <<schedule, offline>>

\* p leaves one exchange for the next with a message.
LEMMA ReplyShape ==
    ASSUME DurabilityInv, TypeOK', NEW p \in Party, Alone(p),
           pc[p] \in Waiting \ {"open"}, pc'[p] \in Waiting \ {"sync", "open"},
           NEW m \in Message, m.kind = pc'[p], Reply(p, m),
           Live(Peer(p)) => chan[p] # <<>>,
           pc[p] = "sync" /\ Live(Peer(p)) => Head(chan[p]).kind = "sync",
           answer'[p] = answer[p]
    PROVE  DurabilityInv'
<1> DEFINE q == Peer(p)
           c == chan[p]
           d == chan[q]
<1>1. q \in Party /\ Peer(q) = p /\ p # q /\ Party = {p, q}
  BY PeerIn, Two
<1>2. /\ chan \in Channels /\ c \in Seq(Message) /\ d \in Seq(Message)
      /\ chan' = [chan EXCEPT ![p] = Rest(p), ![q] = Append(d, m)]
  BY <1>1 DEF DurabilityInv, TypeOK, Reply, Channels
<1>3. chan'[p] = Rest(p) /\ chan'[q] = Append(d, m)
  BY <1>1, <1>2 DEF Channels
<1>4. /\ Live(p) /\ Live(p)' /\ Live(q)' = Live(q)
      /\ pc'[q] = pc[q] /\ answer'[q] = answer[q] /\ Told(q)' = Told(q) /\ ~ Told(p)'
      /\ Awaits(p) = 1 /\ Awaits(p)' = 1 /\ Awaits(q)' = Awaits(q)
      /\ ~ Told(p) /\ pc[p] \notin Ended \cup {"idle"} /\ pc'[p] \notin Ended \cup {"idle"}
  BY DEF Alone, Live, Told, Awaits, Waiting, Ended
<1>5. m.kind # "open" /\ chan'[q] # <<>> /\ Last(chan'[q]) = m
      /\ Len(chan'[q]) = Len(d) + 1
  BY <1>2, <1>3, Grown
<1>6. \/ c = <<>> /\ chan'[p] = <<>>
      \/ c # <<>> /\ chan'[p] = Tail(c)
  BY <1>3 DEF Rest
<1>7. Balanced'
  <2> SUFFICES ASSUME Live(q)
               PROVE  Len(chan'["R"]) + Len(chan'["S"]) = Awaits("R")' + Awaits("S")'
    BY <1>1, <1>4 DEF Balanced
  <2> DEFINE n == Len(c)
             l == Len(d)
             n1 == Len(chan'[p])
             l1 == Len(chan'[q])
             w == Awaits(q)
  <2>1. c # <<>> /\ n1 = n - 1 /\ l1 = l + 1
    BY <1>2, <1>5, <1>6, Shrunk
  <2>2. n \in Nat /\ l \in Nat /\ w \in {0, 1} /\ n + l = 1 + w
    BY <1>4, UnderWay
  <2>3. n1 + l1 = Awaits(p)' + Awaits(q)' /\ l1 + n1 = Awaits(q)' + Awaits(p)'
    <3>1. Awaits(p)' = 1 /\ Awaits(q)' = w
      BY <1>4
    <3> HIDE DEF n, l, n1, l1, w
    <3> QED BY <2>1, <2>2, <3>1
  <2>4. (p = "R" /\ q = "S") \/ (p = "S" /\ q = "R")
    BY DEF Party, Peer
  <2> QED BY <2>3, <2>4
<1>8. LastWord(p)' /\ LastWord(q)'
  <2>1. LastWord(p)'
    BY <1>1, <1>4, <1>5 DEF LastWord, Waiting
  <2>2. chan'[p] # <<>> => c # <<>> /\ Last(chan'[p]) = Last(c)
    BY <1>2, <1>6, Shrunk
  <2>3. LastWord(q)'
    BY <1>1, <1>4, <2>2 DEF DurabilityInv, LastWord
  <2> QED BY <2>1, <2>3
<1>9. OwnDay(p)' /\ OwnDay(q)'
  <2>1. OwnDay(p)'
    BY <1>1, <1>4 DEF DurabilityInv, OwnDay
  <2>2. OwnDay(q)'
    BY <1>1, <1>4 DEF DurabilityInv, OwnDay, Alone
  <2> QED BY <2>1, <2>2
<1>10. KeptFor(q, p)'
  <2>1. HasHalf(q)' => HasHalf(q)
    <3>1. (\E i \in DOMAIN chan'[q] : chan'[q][i].kind = "open")
             => \E i \in DOMAIN d : d[i].kind = "open"
      <4>1. chan'[q] = Append(d, m)
        BY <1>3
      <4>2. m.kind # "open"
        BY <1>5
      <4>3. d \in Seq(Message)
        BY <1>2
      <4> HIDE DEF d
      <4> QED BY ONLY <4>1, <4>2, <4>3, m \in Message, Grown
    <3> QED BY <1>4, <3>1 DEF HasHalf
  <2>2. Live(q) => ~ HasHalf(q)
    <3>1. CASE pc[p] = "sync"
      BY <3>1, SyncWaits
    <3>2. CASE pc[p] # "sync"
      BY <1>4, <3>2, HalfTaken
    <3> QED BY <3>1, <3>2
  <2> QED BY <1>4, <2>1, <2>2 DEF KeptFor
<1>11. KeptFor(p, q)'
  <2>1. HasHalf(p)' => HasHalf(p)
    BY <1>2, <1>4, <1>6, Shrunk DEF HasHalf
  <2> QED BY <1>1, <1>4, <2>1 DEF DurabilityInv, KeptFor, StateSaved, Alone
<1> QED BY <1>1, <1>7, <1>8, <1>9, <1>10, <1>11 DEF DurabilityInv

\* p takes a message and waits for nothing more.
LEMMA ConsumeShape ==
    ASSUME DurabilityInv, TypeOK', NEW p \in Party, Alone(p),
           pc[p] \in Waiting, pc'[p] \in {"idle", "eval"}, Consume(p),
           Live(Peer(p)) => chan[p] # <<>>,
           \/ /\ pc[p] = "sync" /\ pc'[p] = "idle" /\ answer'[p] = answer[p]
              /\ Live(Peer(p)) => Head(chan[p]).kind = "sync"
           \/ pc[p] \in {"jtilde", "supports"} /\ pc'[p] = "eval" /\ answer'[p] = answer[p]
           \/ /\ pc[p] = "open" /\ pc'[p] = "idle" /\ st'[p] = st[p] /\ disk'[p] = disk[p]
              /\ chan[p] # <<>> /\ Head(chan[p]).kind = "open"
    PROVE  DurabilityInv'
<1> DEFINE q == Peer(p)
           c == chan[p]
           d == chan[q]
<1>1. q \in Party /\ Peer(q) = p /\ p # q /\ Party = {p, q}
  BY PeerIn, Two
<1>2. /\ chan \in Channels /\ c \in Seq(Message) /\ d \in Seq(Message)
      /\ chan' = [chan EXCEPT ![p] = Rest(p)]
  BY <1>1 DEF DurabilityInv, TypeOK, Consume, Channels
<1>3. chan'[p] = Rest(p) /\ chan'[q] = d
  BY <1>1, <1>2 DEF Channels
<1>4. /\ Live(p) /\ Live(p)' /\ Live(q)' = Live(q)
      /\ pc'[q] = pc[q] /\ answer'[q] = answer[q] /\ Told(q)' = Told(q)
      /\ Awaits(p) = 1 /\ Awaits(p)' = 0 /\ Awaits(q)' = Awaits(q)
      /\ ~ Told(p) /\ pc[p] \notin Ended \cup {"idle"}
  BY DEF Alone, Live, Told, Awaits, Waiting, Ended
<1>5. answer[p] = NoAnswer /\ (Told(p)' => pc[p] = "open")
  <2>1. answer[p] = NoAnswer
    BY <1>4 DEF DurabilityInv, OwnDay
  <2> QED BY <2>1 DEF Told
<1>6. \/ c = <<>> /\ chan'[p] = <<>>
      \/ c # <<>> /\ chan'[p] = Tail(c)
  BY <1>3 DEF Rest
<1>7. Balanced'
  <2> SUFFICES ASSUME Live(q)
               PROVE  Len(chan'["R"]) + Len(chan'["S"]) = Awaits("R")' + Awaits("S")'
    BY <1>1, <1>4 DEF Balanced
  <2> DEFINE n == Len(c)
             l == Len(d)
             n1 == Len(chan'[p])
             l1 == Len(chan'[q])
             w == Awaits(q)
  <2>1. c # <<>> /\ n1 = n - 1 /\ l1 = l
    BY <1>2, <1>3, <1>6, Shrunk
  <2>2. n \in Nat /\ l \in Nat /\ w \in {0, 1} /\ n + l = 1 + w
    BY <1>4, UnderWay
  <2>3. n1 + l1 = Awaits(p)' + Awaits(q)' /\ l1 + n1 = Awaits(q)' + Awaits(p)'
    <3>1. Awaits(p)' = 0 /\ Awaits(q)' = w
      BY <1>4
    <3> HIDE DEF n, l, n1, l1, w
    <3> QED BY <2>1, <2>2, <3>1
  <2>4. (p = "R" /\ q = "S") \/ (p = "S" /\ q = "R")
    BY DEF Party, Peer
  <2> QED BY <2>3, <2>4
<1>8. LastWord(p)' /\ LastWord(q)'
  <2>1. d # <<>> => Last(d).kind = pc[p]
    BY <1>4 DEF DurabilityInv, LastWord
  <2>2. LastWord(p)'
    BY <1>3, <1>4, <1>5, <2>1 DEF LastWord, Waiting
  <2>3. chan'[p] # <<>> => c # <<>> /\ Last(chan'[p]) = Last(c)
    BY <1>2, <1>6, Shrunk
  <2>4. LastWord(q)'
    BY <1>1, <1>4, <2>3 DEF DurabilityInv, LastWord
  <2> QED BY <2>2, <2>4
<1>9. OwnDay(p)' /\ OwnDay(q)'
  <2>1. OwnDay(p)'
    <3>1. Told(p)' => disk'[p] = st'[p]
      BY <1>5 DEF DurabilityInv, OwnDay
    <3>2. pc'[p] = "eval" => answer'[p] = NoAnswer
      BY <1>5
    <3> QED BY <3>1, <3>2 DEF OwnDay
  <2>2. OwnDay(q)'
    BY <1>1, <1>4 DEF DurabilityInv, OwnDay, Alone
  <2> QED BY <2>1, <2>2
<1>10. KeptFor(q, p)'
  <2>1. HasHalf(q)' => HasHalf(q)
    BY <1>3, <1>4 DEF HasHalf
  <2>2. Live(q) /\ HasHalf(q) => pc[p] = "open" /\ StateSaved(p)
    <3>1. CASE pc[p] = "sync"
      BY <3>1, SyncWaits
    <3>2. CASE pc[p] \in {"jtilde", "supports"}
      BY <1>4, <3>2, HalfTaken
    <3>3. CASE pc[p] = "open"
      BY <3>3 DEF DurabilityInv, KeptFor
    <3> QED BY <3>1, <3>2, <3>3
  <2>3. pc[p] = "open" /\ StateSaved(p) => pc'[p] = "idle" /\ StateSaved(p)'
    BY <1>4 DEF StateSaved
  <2> QED BY <1>4, <2>1, <2>2, <2>3 DEF KeptFor
<1>11. KeptFor(p, q)'
  <2>1. HasHalf(p)' => HasHalf(p)
    <3>1. CASE Told(p)'
      <4>1. c # <<>> /\ Head(c).kind = "open"
        BY <1>5, <3>1
      <4>2. 1 \in DOMAIN c /\ c[1].kind = "open"
        BY <1>2, <4>1
      <4> QED BY <4>2 DEF HasHalf
    <3>2. CASE ~ Told(p)'
      <4>1. (\E i \in DOMAIN chan'[p] : chan'[p][i].kind = "open")
               => \E i \in DOMAIN c : c[i].kind = "open"
        BY <1>2, <1>6, Shrunk
      <4> QED BY <3>2, <4>1 DEF HasHalf
    <3> QED BY <3>1, <3>2
  <2> QED BY <1>1, <1>4, <2>1 DEF DurabilityInv, KeptFor, StateSaved, Alone
<1> QED BY <1>1, <1>7, <1>8, <1>9, <1>10, <1>11 DEF DurabilityInv

\* p begins a day, or gives out its half of a count it has saved.
LEMMA SendShape ==
    ASSUME DurabilityInv, TypeOK', NEW p \in Party, Alone(p),
           NEW m \in Message, Send(p, m), m.kind = pc'[p],
           answer'[p] = NoAnswer,
           \/ /\ pc[p] = "idle" /\ pc'[p] = "sync" /\ st'[p] = st[p] /\ disk'[p] = disk[p]
              /\ day'[p] <= Len(schedule[p])
           \/ pc[p] = "commit" /\ pc'[p] = "open" /\ disk'[p] = st'[p]
    PROVE  DurabilityInv'
<1> DEFINE q == Peer(p)
           c == chan[p]
           d == chan[q]
<1>1. q \in Party /\ Peer(q) = p /\ p # q /\ Party = {p, q}
  BY PeerIn, Two
<1>2. /\ chan \in Channels /\ c \in Seq(Message) /\ d \in Seq(Message)
      /\ chan' = [chan EXCEPT ![q] = Append(d, m)]
  BY <1>1 DEF DurabilityInv, TypeOK, Send, Channels
<1>3. chan'[p] = c /\ chan'[q] = Append(d, m)
  BY <1>1, <1>2 DEF Channels
<1>4. /\ Live(p) /\ Live(p)' /\ Live(q)' = Live(q)
      /\ pc'[q] = pc[q] /\ answer'[q] = answer[q] /\ Told(q)' = Told(q) /\ ~ Told(p)'
      /\ Awaits(p) = 0 /\ Awaits(p)' = 1 /\ Awaits(q)' = Awaits(q)
      /\ pc[p] \notin Ended
  BY DEF Alone, Live, Told, Awaits, Waiting, Ended
<1>5. chan'[q] # <<>> /\ Last(chan'[q]) = m /\ Len(chan'[q]) = Len(d) + 1
  BY <1>2, <1>3, Grown
<1>6. Balanced'
  <2> SUFFICES ASSUME Live(q)
               PROVE  Len(chan'["R"]) + Len(chan'["S"]) = Awaits("R")' + Awaits("S")'
    BY <1>1, <1>4 DEF Balanced
  <2> DEFINE n == Len(c)
             l == Len(d)
             n1 == Len(chan'[p])
             l1 == Len(chan'[q])
             w == Awaits(q)
  <2>1. n1 = n /\ l1 = l + 1
    BY <1>3, <1>5
  <2>2. n \in Nat /\ l \in Nat /\ w \in {0, 1} /\ n + l = 0 + w
    BY <1>4, UnderWay
  <2>3. n1 + l1 = Awaits(p)' + Awaits(q)' /\ l1 + n1 = Awaits(q)' + Awaits(p)'
    <3>1. Awaits(p)' = 1 /\ Awaits(q)' = w
      BY <1>4
    <3> HIDE DEF n, l, n1, l1, w
    <3> QED BY <2>1, <2>2, <3>1
  <2>4. (p = "R" /\ q = "S") \/ (p = "S" /\ q = "R")
    BY DEF Party, Peer
  <2> QED BY <2>3, <2>4
<1>7. LastWord(p)' /\ LastWord(q)'
  <2>1. LastWord(p)'
    BY <1>1, <1>4, <1>5 DEF LastWord, Waiting
  <2>2. LastWord(q)'
    BY <1>1, <1>3, <1>4 DEF DurabilityInv, LastWord
  <2> QED BY <2>1, <2>2
<1>8. OwnDay(p)' /\ OwnDay(q)'
  <2>1. OwnDay(p)'
    BY <1>4 DEF OwnDay, Alone
  <2>2. OwnDay(q)'
    BY <1>1, <1>4 DEF DurabilityInv, OwnDay, Alone
  <2> QED BY <2>1, <2>2
<1>9. KeptFor(q, p)'
  <2>1. CASE pc'[p] = "open"
    BY <2>1 DEF KeptFor, StateSaved
  <2>2. CASE pc'[p] = "sync"
    <3>1. HasHalf(q)' => HasHalf(q)
      BY <1>2, <1>3, <1>4, <2>2, Grown DEF HasHalf
    <3>2. Live(q) /\ HasHalf(q) => disk[p] = st[p]
      BY <1>1, <1>4 DEF DurabilityInv, KeptFor, StateSaved
    <3> QED BY <1>4, <2>2, <3>1, <3>2 DEF KeptFor, StateSaved
  <2> QED BY <2>1, <2>2
<1>10. KeptFor(p, q)'
  <2>1. HasHalf(p)' => HasHalf(p)
    BY <1>3, <1>4 DEF HasHalf
  <2> QED BY <1>1, <1>4, <2>1 DEF DurabilityInv, KeptFor, StateSaved, Alone
<1> QED BY <1>1, <1>6, <1>7, <1>8, <1>9, <1>10 DEF DurabilityInv

\* p has ended; the last message it sent may be lost.
LEMMA EndShape ==
    ASSUME DurabilityInv, TypeOK', NEW p \in Party, Alone(p), Live(p), pc'[p] \in Ended,
           st'[p] = st[p], disk'[p] = disk[p],
           \/ UNCHANGED chan
           \/ /\ chan[Peer(p)] # <<>>
              /\ chan' = [chan EXCEPT ![Peer(p)] = SubSeq(@, 1, Len(@) - 1)]
    PROVE  DurabilityInv'
<1> DEFINE q == Peer(p)
           d == chan[q]
<1>1. q \in Party /\ Peer(q) = p /\ p # q /\ Party = {p, q}
  BY PeerIn, Two
<1>2. d \in Seq(Message) /\ chan'[p] = chan[p]
      /\ (chan'[q] = d \/ (d # <<>> /\ chan'[q] = SubSeq(d, 1, Len(d) - 1)))
  BY <1>1 DEF DurabilityInv, TypeOK
<1>3. (\E i \in DOMAIN chan'[q] : chan'[q][i].kind = "open")
         => \E i \in DOMAIN d : d[i].kind = "open"
  <2>1. CASE chan'[q] = d
    BY <2>1
  <2>2. CASE d # <<>> /\ chan'[q] = SubSeq(d, 1, Len(d) - 1)
    <3>1. /\ Len(d) \in Nat /\ Len(d) > 0 /\ DOMAIN d = 1..Len(d)
          /\ DOMAIN chan'[q] = 1..(Len(d) - 1)
          /\ \A i \in 1..(Len(d) - 1) : chan'[q][i] = d[i]
      BY <1>2, <2>2
    <3> QED BY <3>1
  <2> QED BY <1>2, <2>1, <2>2
<1>4. /\ ~ Live(p)' /\ ~ Told(p)' /\ Live(q)' = Live(q) /\ Told(q)' = Told(q)
      /\ pc'[p] # "open" /\ pc'[p] # "sync" /\ pc'[q] = pc[q]
  BY DEF Alone, Live, Told, Ended
<1>5. Balanced'
  BY <1>4 DEF Balanced
<1>6. LastWord(p)' /\ LastWord(q)'
  BY <1>1, <1>2, <1>4 DEF DurabilityInv, LastWord
<1>7. OwnDay(p)' /\ OwnDay(q)'
  <2>1. OwnDay(p)'
    BY <1>4 DEF OwnDay
  <2>2. OwnDay(q)'
    BY <1>1, <1>4 DEF DurabilityInv, OwnDay, Alone
  <2> QED BY <2>1, <2>2
<1>8. KeptFor(q, p)'
  <2>1. HasHalf(q)' => HasHalf(q)
    BY <1>3, <1>4 DEF HasHalf
  <2>2. StateSaved(p) => StateSaved(p)'
    BY DEF StateSaved, Live
  <2> QED BY <1>1, <1>4, <2>1, <2>2 DEF DurabilityInv, KeptFor
<1>9. KeptFor(p, q)'
  BY <1>4 DEF KeptFor
<1> QED BY <1>1, <1>5, <1>6, <1>7, <1>8, <1>9 DEF DurabilityInv

\* The evaluation, jointly or alone.
LEMMA EvalShape ==
    ASSUME DurabilityInv, TypeOK',
           \A p \in Party : pc'[p] = pc[p] \/ (pc[p] = "eval" /\ pc'[p] = "commit"),
           UNCHANGED <<st, disk, chan, day, answer, schedule, offline>>
    PROVE  DurabilityInv'
<1>1. \A p \in Party : /\ Live(p)' = Live(p) /\ Told(p)' = Told(p)
                       /\ Awaits(p)' = Awaits(p) /\ HasHalf(p)' = HasHalf(p)
                       /\ (pc[p] \in Ended \/ pc'[p] \in Ended => pc'[p] = pc[p])
  BY DEF Live, Told, Awaits, HasHalf, Waiting, Ended
<1>2. Balanced'
  BY <1>1 DEF DurabilityInv, Balanced, Party
<1>3. ASSUME NEW p \in Party PROVE LastWord(p)' /\ OwnDay(p)'
  <2>1. LastWord(p) /\ OwnDay(p)
    BY DEF DurabilityInv
  <2>2. LastWord(p)'
    BY <1>1, <2>1 DEF LastWord, Waiting
  <2>3. OwnDay(p)'
    BY <1>1, <2>1 DEF OwnDay, Ended
  <2> QED BY <2>2, <2>3
<1>4. ASSUME NEW p \in Party PROVE KeptFor(Peer(p), p)'
  <2>1. Peer(p) \in Party
    BY PeerIn
  <2>2. KeptFor(Peer(p), p)
    BY DEF DurabilityInv
  <2> QED BY <1>1, <2>1, <2>2 DEF KeptFor, StateSaved, Ended
<1> QED BY <1>2, <1>3, <1>4 DEF DurabilityInv

-------------------------------------------------------------------------------
(* The steps.                                                                *)

\* Only messages get onto the channels.
LEMMA SentTyped ==
    ASSUME TypeOK, TypeOK', NEW p \in Party, NEW m, Send(p, m) \/ Reply(p, m)
    PROVE  m \in Message
<1> DEFINE d == chan[Peer(p)]
<1>1. d \in Seq(Message) /\ chan'[Peer(p)] \in Seq(Message)
  BY PeerIn DEF TypeOK
<1>2. chan'[Peer(p)] = Append(d, m)
  BY PeerIn DEF TypeOK, Send, Reply
<1>3. Append(d, m) \in Seq(Message) /\ Len(Append(d, m)) = Len(d) + 1 /\ Len(d) \in Nat
      /\ Append(d, m)[Len(d) + 1] = m
  BY <1>1, <1>2
<1> HIDE DEF d
<1> QED BY <1>3

LEMMA BeginDayDurable ==
    ASSUME DurabilityInv, TypeOK', NEW p \in Party, BeginDay(p)
    PROVE  DurabilityInv'
<1> DEFINE m == [kind |-> "sync", day |-> Today(p)]
<1>1. /\ pc[p] = "idle" /\ day[p] <= Len(schedule[p]) /\ Send(p, m)
      /\ pc' = [pc EXCEPT ![p] = "sync"] /\ answer' = [answer EXCEPT ![p] = NoAnswer]
      /\ UNCHANGED <<st, disk, day, schedule, offline>>
  BY DEF BeginDay, Goto, inputVars
<1>2. Alone(p) /\ pc'[p] = "sync" /\ answer'[p] = NoAnswer
  BY <1>1, PeerIn DEF Alone, DurabilityInv, TypeOK
<1>3. m \in Message
  <2> HIDE DEF m
  <2> QED BY <1>1, SentTyped DEF DurabilityInv
<1>4. m.kind = "sync"
  OBVIOUS
<1> HIDE DEF m
<1> QED BY <1>1, <1>2, <1>3, <1>4, SendShape

LEMMA StopDurable ==
    ASSUME DurabilityInv, TypeOK', NEW p \in Party, NEW r, Stop(p, r), Live(p)
    PROVE  DurabilityInv'
<1>1. /\ pc' = [pc EXCEPT ![p] = "stopped"]
      /\ UNCHANGED <<st, disk, chan, day, answer, schedule, offline>>
  BY DEF Stop, Goto, procVars, inputVars
<1>2. Alone(p) /\ pc'[p] \in Ended
  BY <1>1, PeerIn DEF Alone, DurabilityInv, TypeOK, Ended
<1> QED BY <1>1, <1>2, EndShape

LEMMA RecvSyncDurable ==
    ASSUME DurabilityInv, TypeOK', NEW p \in Party, RecvSync(p)
    PROVE  DurabilityInv'
<1> DEFINE nothing == [kind |-> "sync", day |-> NoDay]
<1>1. pc[p] = "sync" /\ pc[p] \in Waiting /\ Live(p)
  BY DEF RecvSync, Waiting, Live, Ended
<1>2. PICK m \in Delivered(p, "sync", {nothing}) :
         \/ Stop(p, "drift") \/ Stop(p, "salt")
         \/ /\ SameDay(m.day, Today(p))
            /\ \E I, D \in SUBSET Id : ApplyEdits(p, I, D)
  <2> HIDE DEF Stop, ApplyEdits, Delivered
  <2> QED BY DEF RecvSync
<1>3. CASE Stop(p, "drift") \/ Stop(p, "salt")
  BY <1>1, <1>3, StopDurable
<1>4. ASSUME NEW I, NEW D, ApplyEdits(p, I, D), SameDay(m.day, Today(p))
      PROVE  DurabilityInv'
  <2>1. m # nothing
    <3>1. day[p] \in 1..Len(schedule[p]) /\ schedule[p] \in Seq(Day)
      <4>1. day[p] <= Len(schedule[p]) /\ day[p] \in Nat \ {0}
        BY <1>1 DEF DurabilityInv, OwnDay, TypeOK
      <4>2. schedule[p] \in Seq(Day)
        <5>1. schedule[p] \in Schedules \cup {<<>>} /\ Schedules \subseteq Seq(Day)
          BY SessionAssumption DEF DurabilityInv, TypeOK
        <5>2. <<>> \in Seq(Day)
          OBVIOUS
        <5> QED BY <5>1, <5>2
      <4> QED BY <4>1, <4>2
    <3>2. Today(p) \in Day
      BY <3>1 DEF Today
    <3>3. Today(p).label # 0
      BY <3>2, SessionAssumption
    <3> QED BY <1>4, <3>3 DEF SameDay, NoDay
  <2>2. chan[p] # <<>> /\ Head(chan[p]).kind = "sync"
    BY <1>2, <2>1 DEF Delivered, Incoming
  <2> DEFINE s == Apply(st[p], I, D, oracle[p])
             o == [kind |-> "provision", size |-> s.my_size]
  <2>3. /\ st' = [st EXCEPT ![p] = s]
        /\ UNCHANGED <<disk, answer, schedule, offline>>
    BY <1>4 DEF ApplyEdits, inputVars
  <2>4. CASE Today(p).query
    <3>1. Reply(p, o) /\ pc' = [pc EXCEPT ![p] = "provision"] /\ UNCHANGED day
      BY <1>4, <2>4 DEF ApplyEdits, Goto
    <3>2. Alone(p) /\ pc'[p] = "provision" /\ answer'[p] = answer[p]
      BY <2>3, <3>1, PeerIn DEF Alone, DurabilityInv, TypeOK
    <3>3. o.kind = "provision"
      OBVIOUS
    <3> HIDE DEF o
    <3>4. o \in Message
      BY <3>1, SentTyped DEF DurabilityInv
    <3>5. "provision" \in Waiting \ {"sync", "open"} /\ pc[p] \in Waiting \ {"open"}
      BY <1>1 DEF Waiting
    <3> QED BY <2>2, <3>1, <3>2, <3>3, <3>4, <3>5, ReplyShape
  <2>5. CASE ~ Today(p).query
    <3>1. /\ Consume(p) /\ pc' = [pc EXCEPT ![p] = "idle"]
          /\ day' = [day EXCEPT ![p] = @ + 1]
      BY <1>4, <2>5 DEF ApplyEdits, Goto
    <3>2. Alone(p) /\ pc'[p] = "idle" /\ answer'[p] = answer[p]
      BY <2>3, <3>1, PeerIn DEF Alone, DurabilityInv, TypeOK
    <3> QED BY <1>1, <2>2, <3>1, <3>2, ConsumeShape
  <2> QED BY <2>4, <2>5
<1> QED BY <1>2, <1>3, <1>4

LEMMA BeginQueryDurable ==
    ASSUME DurabilityInv, TypeOK', NEW p \in Party, NEW s, NEW forced,
           BeginQuery(p, s, forced), pc[p] \in {"provision", "salt"},
           Live(Peer(p)) => chan[p] # <<>>,
           st' = [st EXCEPT ![p] = s], UNCHANGED <<disk, day, answer, schedule, offline>>
    PROVE  DurabilityInv'
<1> DEFINE o == [kind |-> "round0", size |-> s.my_size, announce |-> Announces(s)]
<1>1. Reply(p, o) /\ pc' = [pc EXCEPT ![p] = "round0"]
  BY DEF BeginQuery, Goto
<1>2. Alone(p) /\ pc'[p] = "round0" /\ answer'[p] = answer[p]
  BY <1>1, PeerIn DEF Alone, DurabilityInv, TypeOK
<1>3. o.kind = "round0"
  OBVIOUS
<1> HIDE DEF o
<1>4. o \in Message
  BY <1>1, SentTyped DEF DurabilityInv
<1>5. "round0" \in Waiting \ {"sync", "open"} /\ pc[p] \in Waiting \ {"open"} /\ pc[p] # "sync"
  BY DEF Waiting
<1> QED BY <1>1, <1>2, <1>3, <1>4, <1>5, ReplyShape

LEMMA RecvProvisionDurable ==
    ASSUME DurabilityInv, TypeOK', NEW p \in Party, RecvProvision(p)
    PROVE  DurabilityInv'
<1>1. pc[p] = "provision" /\ pc[p] \in Waiting \ {"open"} /\ Live(p)
  BY DEF RecvProvision, Waiting, Live, Ended
<1>2. PICK m \in Delivered(p, "provision", [kind : {"provision"}, size : AnySize]) :
         \/ Stop(p, "salt")
         \/ /\ BeginRefresh(p) \/ BeginQuery(p, st[p], FALSE)
            /\ UNCHANGED <<st, disk, day, answer, schedule, offline>>
  <2> HIDE DEF Stop, BeginRefresh, BeginQuery, Delivered
  <2> QED BY DEF RecvProvision, inputVars
<1>3. Live(Peer(p)) => chan[p] # <<>>
  BY <1>1, <1>2, TakesOne DEF DurabilityInv
<1>4. CASE Stop(p, "salt")
  BY <1>1, <1>4, StopDurable
<1>5. CASE BeginQuery(p, st[p], FALSE) /\ UNCHANGED <<st, disk, day, answer, schedule, offline>>
  <2>1. st' = [st EXCEPT ![p] = st[p]]
    BY <1>5 DEF DurabilityInv, TypeOK
  <2> QED BY <1>1, <1>3, <1>5, <2>1, BeginQueryDurable
<1>6. CASE BeginRefresh(p) /\ UNCHANGED <<st, disk, day, answer, schedule, offline>>
  <2>1. PICK r : Reply(p, [kind |-> "salt", r |-> r]) /\ pc' = [pc EXCEPT ![p] = "salt"]
    BY <1>6 DEF BeginRefresh, Goto
  <2> DEFINE o == [kind |-> "salt", r |-> r]
  <2>2. Alone(p) /\ pc'[p] = "salt" /\ answer'[p] = answer[p]
    BY <1>6, <2>1, PeerIn DEF Alone, DurabilityInv, TypeOK
  <2>3. o.kind = "salt" /\ Reply(p, o)
    BY <2>1
  <2> HIDE DEF o
  <2>4. o \in Message
    BY <2>3, SentTyped DEF DurabilityInv
  <2>5. "salt" \in Waiting \ {"sync", "open"} /\ pc[p] # "sync"
    BY <1>1 DEF Waiting
  <2> QED BY <1>1, <1>3, <2>2, <2>3, <2>4, <2>5, ReplyShape
<1> QED BY <1>2, <1>4, <1>5, <1>6

LEMMA RecvSaltDurable ==
    ASSUME DurabilityInv, TypeOK', NEW p \in Party, RecvSalt(p)
    PROVE  DurabilityInv'
<1>1. pc[p] = "salt" /\ pc[p] \in Waiting
  BY DEF RecvSalt, Waiting
<1>2. PICK m \in Delivered(p, "salt", {[kind |-> "salt", r |-> 0]}) :
         \E s : st' = [st EXCEPT ![p] = s] /\ BeginQuery(p, s, TRUE)
  <2> HIDE DEF BeginQuery, Delivered, Rebuilt, RefreshedSalt
  <2> QED BY DEF RecvSalt
<1>3. Live(Peer(p)) => chan[p] # <<>>
  BY <1>1, <1>2, TakesOne DEF DurabilityInv
<1>4. UNCHANGED <<disk, day, answer, schedule, offline>>
  BY DEF RecvSalt, inputVars
<1> QED BY <1>1, <1>2, <1>3, <1>4, BeginQueryDurable

LEMMA PublishDurable ==
    ASSUME DurabilityInv, TypeOK', NEW p \in Party, NEW kind \in {"jtilde", "supports"},
           NEW path, NEW size, NEW set, Publish(p, kind, path, size, set),
           pc[p] = "round0", Live(Peer(p)) => chan[p] # <<>>
    PROVE  DurabilityInv'
<1> DEFINE o == [kind |-> kind, set |-> set]
<1>1. /\ Reply(p, o) /\ pc' = [pc EXCEPT ![p] = kind]
      /\ UNCHANGED <<st, disk, day, answer, schedule, offline>>
  BY DEF Publish, Goto, inputVars
<1>2. Alone(p) /\ pc'[p] = kind /\ answer'[p] = answer[p]
  BY <1>1, PeerIn DEF Alone, DurabilityInv, TypeOK
<1>3. o.kind = kind
  OBVIOUS
<1> HIDE DEF o
<1>4. o \in Message
  BY <1>1, SentTyped DEF DurabilityInv
<1>5. kind \in Waiting \ {"sync", "open"} /\ pc[p] \in Waiting \ {"open"} /\ pc[p] # "sync"
  BY DEF Waiting
<1> QED BY <1>1, <1>2, <1>3, <1>4, <1>5, ReplyShape

LEMMA RecvRound0Durable ==
    ASSUME DurabilityInv, TypeOK', NEW p \in Party, RecvRound0(p)
    PROVE  DurabilityInv'
<1>1. pc[p] = "round0" /\ pc[p] \in Waiting /\ Live(p)
  BY DEF RecvRound0, Waiting, Live, Ended
<1>2. PICK m \in Delivered(p, "round0",
                           [kind : {"round0"}, size : AnySize, announce : BOOLEAN]) :
         PublishSupports(p, m.size) \/ PublishDirty(p, m.size)
  <2> HIDE DEF PublishSupports, PublishDirty, Delivered
  <2> QED BY DEF RecvRound0
<1>3. Live(Peer(p)) => chan[p] # <<>>
  BY <1>1, <1>2, TakesOne DEF DurabilityInv
<1>4. \/ Stop(p, "occupied") \/ Stop(p, "umax")
      \/ \E kind \in {"jtilde", "supports"} : \E path, set : Publish(p, kind, path, m.size, set)
  <2> HIDE DEF Stop, Publish, Pads, Occupied, CapM
  <2> QED BY <1>2 DEF PublishSupports, PublishDirty
<1>5. CASE Stop(p, "occupied") \/ Stop(p, "umax")
  BY <1>1, <1>5, StopDurable
<1> QED BY <1>1, <1>3, <1>4, <1>5, PublishDurable

LEMMA RecvIndicesDurable ==
    ASSUME DurabilityInv, TypeOK', NEW p \in Party, RecvIndices(p)
    PROVE  DurabilityInv'
<1>1. pc[p] \in {"jtilde", "supports"} /\ pc[p] \in Waiting /\ Live(p)
  BY DEF RecvIndices, Waiting, Live, Ended
<1>2. PICK m \in Delivered(p, pc[p], EmptyIndices(pc[p])) :
         \/ Stop(p, "length") \/ Stop(p, "exhausted")
         \/ /\ Consume(p) /\ Goto(p, "eval")
            /\ UNCHANGED <<st, disk, day, answer, schedule, offline>>
  <2> HIDE DEF Stop, Consume, Delivered, CapM, Goto, EmptyIndices
  <2> QED BY DEF RecvIndices, inputVars
<1>3. Live(Peer(p)) => chan[p] # <<>>
  BY <1>1, <1>2, TakesOne DEF DurabilityInv
<1>4. CASE Stop(p, "length") \/ Stop(p, "exhausted")
  BY <1>1, <1>4, StopDurable
<1>5. CASE Consume(p) /\ Goto(p, "eval") /\ UNCHANGED <<st, disk, day, answer, schedule, offline>>
  <2>1. Alone(p) /\ pc'[p] = "eval" /\ answer'[p] = answer[p]
    BY <1>5, PeerIn DEF Alone, DurabilityInv, TypeOK, Goto
  <2> QED BY <1>1, <1>3, <1>5, <2>1, ConsumeShape
<1> QED BY <1>2, <1>4, <1>5

LEMMA CommitQueryDurable ==
    ASSUME DurabilityInv, TypeOK', NEW p \in Party, CommitQuery(p)
    PROVE  DurabilityInv'
<1>1. PICK s, c : /\ st' = [st EXCEPT ![p] = s] /\ disk' = [disk EXCEPT ![p] = s]
                  /\ Send(p, [kind |-> "open", share |-> c])
  <2> HIDE DEF Commit, Convert, Send
  <2> QED BY DEF CommitQuery
<1>2. /\ pc[p] = "commit" /\ pc' = [pc EXCEPT ![p] = "open"]
      /\ UNCHANGED <<day, answer, schedule, offline>>
  BY DEF CommitQuery, Goto, inputVars
<1> DEFINE o == [kind |-> "open", share |-> c]
<1>3. Alone(p) /\ pc'[p] = "open" /\ disk'[p] = st'[p]
  BY <1>1, <1>2, PeerIn DEF Alone, DurabilityInv, TypeOK
<1>4. answer'[p] = NoAnswer
  BY <1>2 DEF DurabilityInv, OwnDay, Ended
<1>5. o.kind = "open" /\ Send(p, o)
  BY <1>1
<1> HIDE DEF o
<1>6. o \in Message
  BY <1>5, SentTyped DEF DurabilityInv
<1> QED BY <1>2, <1>3, <1>4, <1>5, <1>6, SendShape

LEMMA RecvOpenDurable ==
    ASSUME DurabilityInv, TypeOK', NEW p \in Party, RecvOpen(p)
    PROVE  DurabilityInv'
<1>1. /\ pc[p] = "open" /\ pc[p] \in Waiting
      /\ chan[p] # <<>> /\ Head(chan[p]).kind = "open"
      /\ Consume(p) /\ pc' = [pc EXCEPT ![p] = "idle"]
      /\ UNCHANGED <<st, disk, schedule, offline>>
      /\ answer' = [answer EXCEPT ![p] = (loc[p].share + Head(chan[p]).share) % P]
      /\ day' = [day EXCEPT ![p] = @ + 1]
  BY DEF RecvOpen, Incoming, Goto, Waiting, inputVars
<1>2. /\ Alone(p) /\ pc'[p] = "idle" /\ st'[p] = st[p] /\ disk'[p] = disk[p]
  BY <1>1, PeerIn DEF Alone, DurabilityInv, TypeOK
<1> QED BY <1>1, <1>2, ConsumeShape

LEMMA EndDurable ==
    ASSUME DurabilityInv, TypeOK', NEW p \in Party, Exit(p) \/ Crash(p) \/ LosePeer(p)
    PROVE  DurabilityInv'
<1>1. CASE Exit(p)
  <2>1. /\ pc[p] = "idle" /\ pc' = [pc EXCEPT ![p] = "done"]
        /\ UNCHANGED <<st, disk, chan, day, answer, schedule, offline>>
    BY <1>1 DEF Exit, Goto, procVars, inputVars
  <2>2. Alone(p) /\ pc'[p] \in Ended /\ Live(p)
    BY <2>1, PeerIn DEF Alone, DurabilityInv, TypeOK, Ended, Live
  <2> QED BY <2>1, <2>2, EndShape
<1>2. CASE Crash(p)
  <2>1. /\ Live(p) /\ pc' = [pc EXCEPT ![p] = "crashed"]
        /\ UNCHANGED <<st, disk, day, answer, schedule, offline>>
        /\ \/ UNCHANGED chan
           \/ /\ chan[Peer(p)] # <<>>
              /\ chan' = [chan EXCEPT ![Peer(p)] = SubSeq(@, 1, Len(@) - 1)]
    BY <1>2 DEF Crash, Goto, procVars, inputVars, Live
  <2>2. Alone(p) /\ pc'[p] \in Ended
    BY <2>1, PeerIn DEF Alone, DurabilityInv, TypeOK, Ended
  <2> QED BY <2>1, <2>2, EndShape
<1>3. CASE LosePeer(p)
  <2>1. Live(p) /\ Stop(p, "peer")
    BY <1>3 DEF LosePeer, Failed, Live, Waiting, Ended
  <2> QED BY <2>1, StopDurable
<1> QED BY <1>1, <1>2, <1>3

LEMMA EvaluateDurable ==
    ASSUME DurabilityInv, TypeOK', Evaluate \/ \E p \in Party : EvaluateAlone(p)
    PROVE  DurabilityInv'
<1>1. UNCHANGED <<st, disk, chan, day, answer, schedule, offline>>
  BY DEF Evaluate, EvaluateAlone, inputVars
<1>2. \A p \in Party : pc'[p] = pc[p] \/ (pc[p] = "eval" /\ pc'[p] = "commit")
  <2>1. CASE Evaluate
    BY <2>1 DEF Evaluate
  <2>2. ASSUME NEW q \in Party, EvaluateAlone(q)
        PROVE  \A p \in Party : pc'[p] = pc[p] \/ (pc[p] = "eval" /\ pc'[p] = "commit")
    BY <2>2 DEF EvaluateAlone, Goto, DurabilityInv, TypeOK
  <2> QED BY <2>1, <2>2
<1> QED BY <1>1, <1>2, EvalShape

LEMMA UpdateOnlyDurable ==
    ASSUME DurabilityInv, TypeOK', NEW p \in Party, UpdateOnly(p)
    PROVE  DurabilityInv'
<1> DEFINE q == Peer(p)
<1>1. q \in Party /\ Peer(q) = p /\ p # q /\ Party = {p, q}
  BY PeerIn, Two
<1>2. /\ pc[p] \in Ended /\ offline' = offline + 1 /\ offline \in Nat
      /\ UNCHANGED <<chan, pc, st, day, answer, schedule>>
      /\ disk'[q] = disk[q]
  BY <1>1 DEF UpdateOnly, procVars, DurabilityInv, TypeOK
<1>3. /\ \A x \in Party : Live(x)' = Live(x) /\ Told(x)' = Told(x) /\ Awaits(x)' = Awaits(x)
                          /\ HasHalf(x)' = HasHalf(x)
      /\ ~ Told(p) /\ pc[p] # "open" /\ pc[p] # "sync"
  BY <1>2 DEF Live, Told, Awaits, HasHalf, Ended
<1>4. Balanced'
  BY <1>1, <1>2, <1>3 DEF DurabilityInv, Balanced, Awaits, Live
<1>5. LastWord(p)' /\ LastWord(q)'
  BY <1>1, <1>2, <1>3 DEF DurabilityInv, LastWord
<1>6. OwnDay(p)' /\ OwnDay(q)'
  <2>1. OwnDay(p)'
    BY <1>2, <1>3 DEF OwnDay
  <2>2. OwnDay(q)'
    BY <1>1, <1>2, <1>3 DEF DurabilityInv, OwnDay
  <2> QED BY <2>1, <2>2
<1>7. KeptFor(q, p)' /\ KeptFor(p, q)'
  <2>1. StateSaved(p)'
    BY <1>2 DEF StateSaved
  <2>2. StateSaved(q) => StateSaved(q)'
    BY <1>2 DEF StateSaved
  <2> QED BY <1>1, <1>2, <1>3, <2>1, <2>2 DEF DurabilityInv, KeptFor
<1> QED BY <1>1, <1>4, <1>5, <1>6, <1>7 DEF DurabilityInv

\* Nothing is under way and nothing has been told, as when a session begins.
LEMMA Untold ==
    ASSUME TypeOK, \A p \in Party : chan[p] = <<>> /\ answer[p] = NoAnswer,
           \/ \A p \in Party : pc[p] = "idle"
           \/ \A p \in Party : pc[p] \in Ended
    PROVE  DurabilityInv
<1>1. "R" \in Party /\ "S" \in Party /\ \A p \in Party : Peer(p) \in Party
  BY PeerIn DEF Party
<1>2. \A p \in Party : ~ Told(p) /\ Awaits(p) = 0 /\ ~ HasHalf(p)
  <2>1. DOMAIN <<>> = {}
    OBVIOUS
  <2> QED BY <2>1 DEF Told, Awaits, HasHalf, Waiting, Ended
<1>3. Balanced
  <2>1. Len(<<>>) = 0
    OBVIOUS
  <2> QED BY <1>1, <1>2, <2>1 DEF Balanced
<1>4. ASSUME NEW p \in Party PROVE LastWord(p) /\ OwnDay(p) /\ KeptFor(Peer(p), p)
  BY <1>1, <1>2 DEF LastWord, OwnDay, KeptFor, Ended
<1> QED BY <1>3, <1>4 DEF DurabilityInv

LEMMA DurabilityStart == Init => DurabilityInv
<1> SUFFICES ASSUME Init PROVE DurabilityInv
  OBVIOUS
<1>1. TypeOK
  BY TypeInit
<1>2. \A p \in Party : chan[p] = <<>> /\ answer[p] = NoAnswer /\ pc[p] \in Ended
  BY DEF Init, Ended
<1> QED BY <1>1, <1>2, Untold

LEMMA StartSessionDurable ==
    ASSUME TypeOK', StartSession
    PROVE  DurabilityInv'
<1>1. \A p \in Party : chan'[p] = <<>> /\ answer'[p] = NoAnswer /\ pc'[p] = "idle"
  BY DEF StartSession
<1>2. "R" \in Party /\ "S" \in Party /\ \A p \in Party : Peer(p) \in Party
  BY PeerIn DEF Party
<1>3. \A p \in Party : ~ Told(p)' /\ Awaits(p)' = 0 /\ ~ HasHalf(p)'
  <2>1. DOMAIN <<>> = {}
    OBVIOUS
  <2> QED BY <1>1, <2>1 DEF Told, Awaits, HasHalf, Waiting
<1>4. Balanced'
  <2>1. Len(<<>>) = 0
    OBVIOUS
  <2> QED BY <1>1, <1>2, <1>3, <2>1 DEF Balanced
<1>5. ASSUME NEW p \in Party PROVE LastWord(p)' /\ OwnDay(p)' /\ KeptFor(Peer(p), p)'
  BY <1>1, <1>2, <1>3 DEF LastWord, OwnDay, KeptFor, Waiting
<1> QED BY <1>4, <1>5 DEF DurabilityInv

LEMMA DurabilityStep == DurabilityInv /\ [Next]_vars => DurabilityInv'
<1> SUFFICES ASSUME DurabilityInv, [Next]_vars PROVE DurabilityInv'
  OBVIOUS
<1>1. TypeOK'
  BY TypeNext DEF DurabilityInv
<1>2. ASSUME NEW p \in Party, BeginDay(p) PROVE DurabilityInv'
  BY <1>1, <1>2, BeginDayDurable
<1>3. ASSUME NEW p \in Party, RecvSync(p) PROVE DurabilityInv'
  BY <1>1, <1>3, RecvSyncDurable
<1>4. ASSUME NEW p \in Party, RecvProvision(p) PROVE DurabilityInv'
  BY <1>1, <1>4, RecvProvisionDurable
<1>5. ASSUME NEW p \in Party, RecvSalt(p) PROVE DurabilityInv'
  BY <1>1, <1>5, RecvSaltDurable
<1>6. ASSUME NEW p \in Party, RecvRound0(p) PROVE DurabilityInv'
  BY <1>1, <1>6, RecvRound0Durable
<1>7. ASSUME NEW p \in Party, RecvIndices(p) PROVE DurabilityInv'
  BY <1>1, <1>7, RecvIndicesDurable
<1>8. ASSUME NEW p \in Party, CommitQuery(p) PROVE DurabilityInv'
  BY <1>1, <1>8, CommitQueryDurable
<1>9. ASSUME NEW p \in Party, RecvOpen(p) PROVE DurabilityInv'
  BY <1>1, <1>9, RecvOpenDurable
<1>10. ASSUME NEW p \in Party, Exit(p) \/ Crash(p) \/ LosePeer(p) PROVE DurabilityInv'
  BY <1>1, <1>10, EndDurable
<1>11. CASE Evaluate \/ \E p \in Party : EvaluateAlone(p)
  BY <1>1, <1>11, EvaluateDurable
<1>12. ASSUME NEW p \in Party, UpdateOnly(p) PROVE DurabilityInv'
  BY <1>1, <1>12, UpdateOnlyDurable
<1>13. CASE StartSession
  BY <1>1, <1>13, StartSessionDurable
<1>14. CASE Quiescent \/ UNCHANGED vars
  <2>1. UNCHANGED vars
    BY <1>14 DEF Quiescent
  <2>2. /\ \A p \in Party : /\ Live(p)' = Live(p) /\ Told(p)' = Told(p)
                            /\ Awaits(p)' = Awaits(p) /\ HasHalf(p)' = HasHalf(p)
                            /\ StateSaved(p)' = StateSaved(p)
    BY <2>1 DEF vars, Live, Told, Awaits, HasHalf, StateSaved
  <2>3. Balanced'
    BY <2>1, <2>2 DEF vars, DurabilityInv, Balanced, Party
  <2>4. ASSUME NEW p \in Party PROVE LastWord(p)' /\ OwnDay(p)' /\ KeptFor(Peer(p), p)'
    BY <2>1, <2>2, PeerIn DEF vars, DurabilityInv, LastWord, OwnDay, KeptFor
  <2> QED BY <1>1, <2>3, <2>4 DEF DurabilityInv
<1> HIDE DEF BeginDay, RecvSync, RecvProvision, RecvSalt, RecvRound0, RecvIndices,
             EvaluateAlone, CommitQuery, RecvOpen, LosePeer, Exit, Crash, UpdateOnly,
             Evaluate, StartSession, Quiescent
<1> QED BY <1>2, <1>3, <1>4, <1>5, <1>6, <1>7, <1>8, <1>9, <1>10, <1>11, <1>12, <1>13,
           <1>14 DEF Next

\* AnswerDurable, unconditionally: once a party has opened a count, the states
\* it is about are on both disks, whatever crashes, restarts, flags, schedules
\* and failed exchanges there have been (query.cpp:264, party_main.cpp:626).
THEOREM AnswerDurableHolds == Spec => []AnswerDurable
<1>1. DurabilityInv => AnswerDurable
  <2> SUFFICES ASSUME DurabilityInv, NEW p \in Party, NEW q \in Party, Told(p)
               PROVE  disk[q] = st[q] \/ (pc[q] \in Ended /\ offline > 0)
    BY DEF AnswerDurable, Told
  <2>1. Live(p)
    BY DEF Told, Live, Ended
  <2>2. CASE q = p
    BY <2>2 DEF DurabilityInv, OwnDay
  <2>3. CASE q = Peer(p)
    <3>1. KeptFor(p, q)
      BY <2>3, PeerIn DEF DurabilityInv
    <3> QED BY <2>1, <2>3, <3>1, PeerIn DEF KeptFor, HasHalf, StateSaved
  <2> QED BY <2>2, <2>3, Two
<1> QED BY <1>1, DurabilityStart, DurabilityStep, PTL DEF Spec

-------------------------------------------------------------------------------
(* Queries that only one party makes a maintenance query of.  Such a party   *)
(* enters one exchange more that day, so each takes the other's messages one *)
(* too early or one too late for the rest of it, and its half of the count   *)
(* is never at the head of the queue when the other waits for it.  The       *)
(* invariant counts the messages of the day a party has taken and sent.      *)

OfQuery == {"provision", "salt", "round0", "jtilde", "supports", "eval", "commit",
            "open"}

Flag(b) == IF b THEN 1 ELSE 0

\* Whether x was due in the last query it committed, if that was on day d.
Did(x, d) == Due(LastNumber(x), Phi, d.maintenance, force[x])

Does(x) == Due(st[x].query_no, Phi, Today(x).maintenance, force[x])

TodayDue(p) == IF pc[p] = "open" THEN Did(p, Today(p)) ELSE Does(p)

\* The messages of the day p has taken off its queue, and those it has sent.
Taken(p) ==
    CASE pc[p] \in {"idle", "sync"} -> 0
      [] pc[p] = "provision" -> 1
      [] pc[p] = "salt" -> 2
      [] pc[p] = "round0" -> 2 + Flag(TodayDue(p))
      [] pc[p] \in {"jtilde", "supports"} -> 3 + Flag(TodayDue(p))
      [] OTHER -> 4 + Flag(TodayDue(p))

Dispatched(p) == Taken(p) + Awaits(p)

SameDays ==
    /\ day["R"] = day["S"]
    /\ \A p \in Party : Len(chan[p]) = Dispatched(Peer(p)) - Taken(p)

\* p has finished a day the peer has not.
NextDay(p) ==
    LET q == Peer(p) IN
    /\ day[p] = day[q] + 1
    /\ pc[p] \in {"idle", "sync"} /\ chan[p] = <<>>
    /\ Len(chan[q]) = 1 + Awaits(p)
    /\ chan[q][1].kind = pc[q]
    /\ \/ pc[q] = "open"
       \/ /\ pc[q] = "sync"
          /\ schedule[p][day[q]] = schedule[q][day[q]] /\ ~ schedule[q][day[q]].query

Abreast == (\A p \in Party : Live(p)) => SameDays \/ \E p \in Party : NextDay(p)

AgreedDay(p) ==
    pc[p] \in OfQuery => schedule[p][day[p]] = schedule[Peer(p)][day[p]] /\ Today(p).query

\* What is said in the schedule checks p has yet to make.
SyncSays(p) ==
    LET q == Peer(p) IN
    Live(p) => \A i \in DOMAIN chan[p] : chan[p][i].kind = "sync" =>
      \/ i = 1 /\ pc[p] \in {"idle", "sync"} /\ chan[p][i].day = schedule[q][day[p]]
      \/ /\ i = 2 /\ chan[p][i].day = schedule[q][day[p] + 1]
         /\ (pc[p] = "open" \/ (pc[p] \in {"idle", "sync"} /\ ~ schedule[q][day[p]].query))

\* The half of a count comes as far behind as the peer's path through the query
\* puts it.
OpenSays(p) ==
    Live(p) => \A i \in DOMAIN chan[p] : chan[p][i].kind = "open" =>
        pc[p] \in OfQuery /\ i + Taken(p) = 5 + Flag(Did(Peer(p), Today(p)))

ToldAlike(p) ==
    Told(p) => (Did(p, schedule[p][day[p] - 1]) <=> Did(Peer(p), schedule[p][day[p] - 1]))

TellInv ==
    /\ DurabilityInv
    /\ Abreast
    /\ \A p \in Party : /\ pc[p] = "salt" => TodayDue(p)
                        /\ AgreedDay(p) /\ SyncSays(p) /\ OpenSays(p) /\ ToldAlike(p)

LEMMA FlagIs == \A b : Flag(b) \in {0, 1}
BY DEF Flag

LEMMA FlagTells == ASSUME NEW a \in BOOLEAN, NEW b \in BOOLEAN, Flag(a) = Flag(b) PROVE a <=> b
BY DEF Flag

LEMMA DidIn == \A x, d : Did(x, d) \in BOOLEAN /\ Does(x) \in BOOLEAN
<1>1. ASSUME NEW n, NEW m, NEW f PROVE (Due(n, Phi, m, f)) \in BOOLEAN
  BY DEF Due
<1> QED BY <1>1 DEF Did, Does

LEMMA TakenIs ==
    ASSUME NEW p \in Party
    PROVE  /\ Taken(p) \in 0..5 /\ Awaits(p) \in {0, 1}
           /\ pc[p] \in {"idle", "sync"} <=> Taken(p) = 0
           /\ pc[p] = "provision" => Taken(p) = 1
           /\ pc[p] = "salt" => Taken(p) = 2
           /\ pc[p] = "round0" => Taken(p) = 2 + Flag(Does(p))
           /\ pc[p] \in {"jtilde", "supports"} => Taken(p) = 3 + Flag(Does(p))
           /\ pc[p] \in {"eval", "commit"} => Taken(p) = 4 + Flag(Does(p))
           /\ pc[p] = "open" => Taken(p) = 4 + Flag(Did(p, Today(p)))
           /\ pc[p] # "open" => TodayDue(p) = Does(p)
<1> DEFINE f == Flag(TodayDue(p))
<1>1. f \in {0, 1}
  BY FlagIs
<1>2. TodayDue(p) = IF pc[p] = "open" THEN Did(p, Today(p)) ELSE Does(p)
  BY DEF TodayDue
<1>3. /\ Taken(p) = CASE pc[p] \in {"idle", "sync"} -> 0
                      [] pc[p] = "provision" -> 1
                      [] pc[p] = "salt" -> 2
                      [] pc[p] = "round0" -> 2 + f
                      [] pc[p] \in {"jtilde", "supports"} -> 3 + f
                      [] OTHER -> 4 + f
  BY DEF Taken
<1>4. Awaits(p) \in {0, 1}
  BY DEF Awaits
<1> HIDE DEF f
<1>5. /\ Taken(p) \in 0..5
      /\ pc[p] \in {"idle", "sync"} <=> Taken(p) = 0
      /\ pc[p] = "provision" => Taken(p) = 1
      /\ pc[p] = "salt" => Taken(p) = 2
      /\ pc[p] = "round0" => Taken(p) = 2 + f
      /\ pc[p] \in {"jtilde", "supports"} => Taken(p) = 3 + f
      /\ pc[p] \in {"eval", "commit", "open"} => Taken(p) = 4 + f
  BY <1>1, <1>3
<1> QED BY <1>2, <1>4, <1>5 DEF f

\* What p has done does not depend on anything but p.
LEMMA TakenKept ==
    ASSUME NEW p \in Party, pc'[p] = pc[p], day'[p] = day[p],
           st'[p].query_no = st[p].query_no, UNCHANGED <<schedule, force>>
    PROVE  /\ Taken(p)' = Taken(p) /\ Awaits(p)' = Awaits(p)
           /\ Dispatched(p)' = Dispatched(p) /\ TodayDue(p)' = TodayDue(p)
           /\ Today(p)' = Today(p) /\ Live(p)' = Live(p)
           /\ \A d : Did(p, d)' = Did(p, d)
<1>1. Today(p)' = Today(p) /\ \A d : Did(p, d)' = Did(p, d)
  BY DEF Today, Did, LastNumber
<1>2. TodayDue(p)' = TodayDue(p)
  BY <1>1 DEF TodayDue, Does
<1> QED BY <1>1, <1>2 DEF Taken, Awaits, Dispatched, Live

LEMMA DidKept ==
    ASSUME NEW p, st'[p].query_no = st[p].query_no, UNCHANGED force
    PROVE  \A d : Did(p, d)' = Did(p, d)
BY DEF Did, LastNumber

\* Both parties are in the middle of the same day.
LEMMA MidDay ==
    ASSUME TellInv, NEW p \in Party, Live(p), Live(Peer(p)),
           pc[p] \in OfQuery \ {"open"}
    PROVE  SameDays
<1>1. Abreast /\ \A x \in Party : Live(x)
  BY Two DEF TellInv
<1>2. ASSUME NEW x \in Party, NextDay(x) PROVE FALSE
  <2>1. x = p \/ (x = Peer(p) /\ Peer(x) = p)
    BY Two, PeerIn
  <2> QED BY <1>2, <2>1 DEF NextDay, OfQuery
<1> QED BY <1>1, <1>2 DEF Abreast

LEMMA Lengths2 ==
    ASSUME SameDays, NEW p \in Party
    PROVE  /\ day[p] = day[Peer(p)]
           /\ Len(chan[p]) = Dispatched(Peer(p)) - Taken(p)
           /\ Len(chan[Peer(p)]) = Dispatched(p) - Taken(Peer(p))
BY PeerIn, Two DEF SameDays, Party, Peer

LEMMA SameDaysIf ==
    ASSUME NEW p \in Party, day[p] = day[Peer(p)],
           Len(chan[p]) = Dispatched(Peer(p)) - Taken(p),
           Len(chan[Peer(p)]) = Dispatched(p) - Taken(Peer(p))
    PROVE  SameDays
<1>1. \A x \in Party : x = p \/ (x = Peer(p) /\ Peer(x) = p)
  BY PeerIn, Two
<1>2. day["R"] = day["S"]
  BY DEF Party, Peer
<1> QED BY <1>1, <1>2 DEF SameDays

LEMMA FirstTaken ==
    ASSUME NEW c \in Seq(Message), c # <<>>
    PROVE  /\ Len(c) \in Nat /\ Len(c) > 0 /\ Len(Tail(c)) = Len(c) - 1
           /\ 1 \in DOMAIN c /\ c[1] = Head(c)
           /\ \A i \in DOMAIN Tail(c) :
                 i + 1 \in DOMAIN c /\ Tail(c)[i] = c[i + 1] /\ i \in Nat \ {0}
           /\ Len(c) = 1 => Tail(c) = <<>>
<1>1. /\ Len(c) \in Nat /\ Len(c) > 0 /\ Len(Tail(c)) = Len(c) - 1 /\ c[1] = Head(c)
      /\ Tail(c) \in Seq(Message) /\ DOMAIN c = 1..Len(c) /\ DOMAIN Tail(c) = 1..(Len(c) - 1)
      /\ \A i \in 1..(Len(c) - 1) : Tail(c)[i] = c[i + 1]
  OBVIOUS
<1>2. \A s \in Seq(Message) : Len(s) = 0 => s = <<>>
  OBVIOUS
<1>3. Len(c) = 1 => Tail(c) = <<>>
  BY <1>1, <1>2
<1> QED BY <1>1, <1>3

\* p goes on through a query with the message it has taken.
LEMMA MovesOn ==
    ASSUME TellInv, DurabilityInv', NEW p \in Party, Alone(p), UNCHANGED force,
           day'[p] = day[p], st'[p].query_no = st[p].query_no,
           pc[p] \in {"sync", "provision", "salt", "round0", "jtilde", "supports"},
           pc'[p] \in OfQuery \ {"commit", "open"},
           Taken(p)' = Taken(p) + 1, pc'[p] = "salt" => TodayDue(p)', AgreedDay(p)',
           NEW m \in Message, m.kind \notin {"sync", "open"},
           IF pc'[p] = "eval" THEN Consume(p) ELSE Reply(p, m) /\ pc'[p] \in Waiting,
           Live(Peer(p)) => chan[p] # <<>>,
           pc[p] = "sync" => chan[p] # <<>> /\ Head(chan[p]).kind = "sync"
    PROVE  TellInv'
<1> DEFINE q == Peer(p)
           c == chan[p]
           d == chan[q]
<1>1. q \in Party /\ Peer(q) = p /\ p # q /\ Party = {p, q}
  BY PeerIn, Two
<1>2. /\ TypeOK /\ chan \in Channels /\ c \in Seq(Message) /\ d \in Seq(Message)
  BY <1>1 DEF TellInv, DurabilityInv, TypeOK, Channels
<1>3. /\ chan'[p] = Rest(p)
      /\ chan'[q] = IF pc'[p] = "eval" THEN d ELSE Append(d, m)
  BY <1>1, <1>2 DEF Channels, Consume, Reply
<1>4. /\ Taken(q)' = Taken(q) /\ Awaits(q)' = Awaits(q) /\ Dispatched(q)' = Dispatched(q)
      /\ TodayDue(q)' = TodayDue(q) /\ Today(q)' = Today(q) /\ Live(q)' = Live(q)
      /\ \A x : Did(q, x)' = Did(q, x)
      /\ pc'[q] = pc[q] /\ day'[q] = day[q] /\ UNCHANGED schedule
  BY <1>1, TakenKept DEF Alone
<1>5. /\ \A x : Did(p, x)' = Did(p, x)
      /\ Today(p)' = Today(p)
  BY DidKept DEF Today, Alone
<1>6. /\ Live(p) /\ Live(p)' /\ Awaits(p) = 1
      /\ Awaits(p)' = IF pc'[p] = "eval" THEN 0 ELSE 1
      /\ pc'[p] \notin {"idle", "sync"} /\ ~ Told(p)' /\ Told(q)' = Told(q)
  BY DEF Live, Awaits, Waiting, Ended, OfQuery, Told, Alone
<1>7. /\ AgreedDay(p) /\ SyncSays(p) /\ OpenSays(p)
      /\ AgreedDay(q) /\ SyncSays(q) /\ OpenSays(q) /\ ToldAlike(q)
      /\ pc[q] = "salt" => TodayDue(q)
  BY <1>1 DEF TellInv
<1>8. Today(p).query /\ schedule[p][day[p]] = schedule[q][day[p]]
  BY <1>4, <1>5 DEF AgreedDay, Today, OfQuery
<1>9. /\ \A i \in DOMAIN chan'[p] : i + 1 \in DOMAIN c /\ chan'[p][i] = c[i + 1] /\ i \in Nat \ {0}
      /\ c # <<>> => Len(chan'[p]) = Len(c) - 1
  <2>1. CASE c = <<>>
    BY <1>3, <2>1 DEF Rest
  <2>2. CASE c # <<>>
    <3>1. chan'[p] = Tail(c)
      BY <1>3, <2>2 DEF Rest
    <3> QED BY <1>2, <2>2, <3>1
  <2> QED BY <2>1, <2>2
<1>10. /\ Len(chan'[q]) = Len(d) + Awaits(p)' /\ Len(d) \in Nat /\ Len(c) \in Nat
       /\ \A i \in DOMAIN chan'[q] :
            chan'[q][i].kind \in {"sync", "open"} => i \in DOMAIN d /\ chan'[q][i] = d[i]
  <2>1. CASE pc'[p] = "eval"
    BY <1>2, <1>3, <1>6, <2>1
  <2>2. CASE pc'[p] # "eval"
    <3>1. chan'[q] = Append(d, m) /\ Awaits(p)' = 1
      BY <1>3, <1>6, <2>2
    <3>2. \A i \in DOMAIN Append(d, m) :
             \/ i \in DOMAIN d /\ Append(d, m)[i] = d[i]
             \/ Append(d, m)[i] = m
      BY <1>2
    <3> QED BY <1>2, <3>1, <3>2
  <2> QED BY <2>1, <2>2
<1>11. Abreast'
  <2> SUFFICES ASSUME Live(q) PROVE SameDays'
    BY <1>1, <1>4 DEF Abreast
  <2>1. SameDays
    <3>1. Abreast /\ \A x \in Party : Live(x)
      BY <1>1, <1>6 DEF TellInv
    <3>2. ~ NextDay(p)
      BY <1>6 DEF NextDay
    <3>3. ~ NextDay(q)
      BY <1>1, <1>8 DEF NextDay, Today
    <3> QED BY <1>1, <3>1, <3>2, <3>3 DEF Abreast
  <2>2. /\ day[p] = day[q] /\ Len(c) = Dispatched(q) - Taken(p)
        /\ Len(d) = Dispatched(p) - Taken(q)
    BY <2>1, Lengths2
  <2>3. Taken(p) \in Nat /\ Taken(q) \in Nat /\ Awaits(q) \in {0, 1}
    BY <1>1, TakenIs
  <2>4. Dispatched(p)' = Taken(p)' + Awaits(p)' /\ Dispatched(p) = Taken(p) + 1
        /\ Dispatched(q) = Taken(q) + Awaits(q)
    BY <1>6 DEF Dispatched
  <2>5. Len(chan'[p]) = Dispatched(q)' - Taken(p)'
    BY <1>4, <1>9, <2>2, <2>3, <2>4
  <2>6. Len(chan'[q]) = Dispatched(p)' - Taken(q)'
    <3>1. Len(chan'[q]) = Len(d) + Awaits(p)'
      BY <1>10
    <3> HIDE DEF d
    <3> QED BY <1>4, <1>6, <2>2, <2>3, <2>4, <3>1
  <2>7. day'["R"] = day'["S"]
    BY <1>4, <2>2 DEF Party, Peer
  <2> QED BY <1>1, <2>5, <2>6, <2>7 DEF SameDays
<1>12. SyncSays(p)'
  <2> SUFFICES ASSUME NEW i \in DOMAIN chan'[p], chan'[p][i].kind = "sync" PROVE FALSE
    BY DEF SyncSays
  <2>1. i + 1 \in DOMAIN c /\ c[i + 1].kind = "sync" /\ i \in Nat \ {0}
    BY <1>9
  <2>2. \/ i + 1 = 1
        \/ i + 1 = 2 /\ pc[p] = "sync" /\ ~ schedule[q][day[p]].query
    BY <1>6, <1>7, <2>1 DEF SyncSays
  <2> QED BY <1>8, <2>1, <2>2 DEF Today
<1>13. SyncSays(q)'
  <2> SUFFICES ASSUME Live(q), NEW i \in DOMAIN chan'[q], chan'[q][i].kind = "sync"
               PROVE  \/ i = 1 /\ pc[q] \in {"idle", "sync"}
                         /\ d[i].day = schedule[p][day[q]]
                      \/ /\ i = 2 /\ d[i].day = schedule[p][day[q] + 1]
                         /\ (pc[q] = "open" \/ (pc[q] \in {"idle", "sync"} /\ ~ schedule[p][day[q]].query))
    BY <1>1, <1>4, <1>10 DEF SyncSays
  <2>1. i \in DOMAIN d /\ d[i].kind = "sync"
    BY <1>10
  <2> QED BY <1>1, <1>7, <2>1 DEF SyncSays
<1>14. OpenSays(p)'
  <2> SUFFICES ASSUME NEW i \in DOMAIN chan'[p], chan'[p][i].kind = "open"
               PROVE  pc'[p] \in OfQuery /\ i + Taken(p)' = 5 + Flag(Did(q, Today(p)))
    BY <1>4, <1>5 DEF OpenSays
  <2>1. i + 1 \in DOMAIN c /\ c[i + 1].kind = "open" /\ i \in Nat \ {0}
    BY <1>9
  <2>2. i + 1 + Taken(p) = 5 + Flag(Did(q, Today(p)))
    BY <1>6, <1>7, <2>1 DEF OpenSays
  <2>3. Taken(p) \in Nat /\ Flag(Did(q, Today(p))) \in {0, 1}
    BY TakenIs, FlagIs
  <2> QED BY <2>1, <2>2, <2>3
<1>15. OpenSays(q)'
  <2> SUFFICES ASSUME Live(q), NEW i \in DOMAIN chan'[q], chan'[q][i].kind = "open"
               PROVE  pc[q] \in OfQuery /\ i + Taken(q) = 5 + Flag(Did(p, Today(q)))
    BY <1>1, <1>4, <1>5 DEF OpenSays
  <2>1. i \in DOMAIN d /\ d[i].kind = "open"
    BY <1>10
  <2> QED BY <1>1, <1>7, <2>1 DEF OpenSays
<1>16. ToldAlike(p)' /\ ToldAlike(q)'
  BY <1>1, <1>4, <1>5, <1>6, <1>7 DEF ToldAlike
<1>17. AgreedDay(q)' /\ (pc'[q] = "salt" => TodayDue(q)')
  BY <1>1, <1>4, <1>7 DEF AgreedDay
<1> QED BY <1>1, <1>11, <1>12, <1>13, <1>14, <1>15, <1>16, <1>17 DEF TellInv

\* The day p and the peer have just agreed on has no query.
LEMMA QuietlyOn ==
    ASSUME TellInv, DurabilityInv', NEW p \in Party, Alone(p), UNCHANGED force,
           st'[p].query_no = st[p].query_no, answer'[p] = answer[p],
           pc[p] = "sync", pc'[p] = "idle", day'[p] = day[p] + 1, Consume(p),
           chan[p] # <<>>, Head(chan[p]).kind = "sync", Head(chan[p]).day = Today(p),
           ~ Today(p).query
    PROVE  TellInv'
<1> DEFINE q == Peer(p)
           c == chan[p]
           d == chan[q]
<1>1. q \in Party /\ Peer(q) = p /\ p # q /\ Party = {p, q}
  BY PeerIn, Two
<1>2. /\ TypeOK /\ chan \in Channels /\ c \in Seq(Message) /\ d \in Seq(Message)
      /\ day[p] \in Nat /\ day[q] \in Nat
  BY <1>1 DEF TellInv, DurabilityInv, TypeOK, Channels
<1>3. /\ chan'[p] = Tail(c) /\ chan'[q] = d
  BY <1>1, <1>2 DEF Channels, Consume, Rest
<1>4. /\ Taken(q)' = Taken(q) /\ Awaits(q)' = Awaits(q) /\ Dispatched(q)' = Dispatched(q)
      /\ TodayDue(q)' = TodayDue(q) /\ Today(q)' = Today(q) /\ Live(q)' = Live(q)
      /\ \A x : Did(q, x)' = Did(q, x)
      /\ pc'[q] = pc[q] /\ day'[q] = day[q] /\ UNCHANGED schedule
  BY <1>1, TakenKept DEF Alone
<1>5. \A x : Did(p, x)' = Did(p, x)
  BY DidKept
<1>6. /\ Live(p) /\ Live(p)' /\ Awaits(p) = 1 /\ Awaits(p)' = 0
      /\ Told(q)' = Told(q)
  BY DEF Live, Awaits, Waiting, Ended, Told, Alone
<1>7. /\ SyncSays(p) /\ OpenSays(p)
      /\ AgreedDay(q) /\ SyncSays(q) /\ OpenSays(q) /\ ToldAlike(q)
      /\ pc[q] = "salt" => TodayDue(q)
  BY <1>1 DEF TellInv
<1>8. /\ Len(c) \in Nat /\ Len(c) > 0 /\ Len(d) \in Nat /\ Len(Tail(c)) = Len(c) - 1
      /\ 1 \in DOMAIN c /\ c[1].kind = "sync" /\ c[1].day = Today(p)
      /\ \A i \in DOMAIN Tail(c) : i + 1 \in DOMAIN c /\ Tail(c)[i] = c[i + 1] /\ i \in Nat \ {0}
      /\ Len(c) = 1 => Tail(c) = <<>>
  <2>1. Len(d) \in Nat
    BY <1>2
  <2>2. c \in Seq(Message) /\ c # <<>> /\ Head(c).kind = "sync" /\ Head(c).day = Today(p)
    BY <1>2
  <2> HIDE DEF c, d
  <2> QED BY <2>1, <2>2, FirstTaken
<1>9. Today(p) = schedule[q][day[p]]
  BY <1>6, <1>7, <1>8 DEF SyncSays
<1>10. Taken(p)' = 0 /\ Taken(p) = 0 /\ Dispatched(p)' = 0 /\ Dispatched(p) = 1
       /\ Taken(q) \in Nat /\ Awaits(q) \in {0, 1} /\ Dispatched(q) = Taken(q) + Awaits(q)
  <2>1. Taken(p)' = 0
    BY DEF Taken
  <2> QED BY <1>1, <1>6, <2>1, TakenIs DEF Dispatched
<1>11. Abreast'
  <2> SUFFICES ASSUME Live(q) PROVE SameDays' \/ NextDay(p)'
    BY <1>1, <1>4 DEF Abreast
  <2>1. SameDays \/ NextDay(q)
    <3>1. Abreast /\ \A x \in Party : Live(x)
      BY <1>1, <1>6 DEF TellInv
    <3>2. ~ NextDay(p)
      BY <1>6 DEF NextDay
    <3> QED BY <1>1, <3>1, <3>2 DEF Abreast
  <2>2. CASE SameDays
    <3>1. /\ day[p] = day[q] /\ Len(c) = Dispatched(q) - Taken(p)
          /\ Len(d) = Dispatched(p) - Taken(q)
      BY <2>2, Lengths2
    <3>2. pc[q] \notin OfQuery
      BY <1>1, <1>7, <1>9, <3>1 DEF AgreedDay, Today
    <3>3. pc[q] \in {"idle", "sync"}
      BY <1>1, <1>2, <3>2 DEF TypeOK, Control, Waiting, OfQuery, Live
    <3>4. Taken(q) = 0
      BY <1>1, <3>3, TakenIs
    <3>5. Awaits(q) = 1 /\ Len(c) = 1 /\ Len(d) = 1
      <4> HIDE DEF c, d
      <4> QED BY <1>8, <1>10, <3>1, <3>4
    <3>6. pc[q] = "sync"
      BY <3>3, <3>5 DEF Awaits, Waiting
    <3>7. d[1].kind = "sync"
      <4>1. LastWord(p) /\ d # <<>>
        BY <1>2, <3>5 DEF TellInv, DurabilityInv
      <4> QED BY <1>6, <3>5, <4>1 DEF LastWord, Last, Waiting
    <3>8. Tail(c) = <<>> /\ chan'[p] = <<>> /\ Len(chan'[q]) = 1 + Awaits(p)'
      BY <1>3, <1>6, <1>8, <3>5
    <3>9. schedule[p][day[q]] = schedule[q][day[q]] /\ ~ schedule[q][day[q]].query
      BY <1>9, <3>1 DEF Today
    <3>10. chan'[q][1].kind = pc'[q] /\ day'[p] = day'[q] + 1
      BY <1>3, <1>4, <3>1, <3>6, <3>7
    <3> QED BY <1>1, <1>4, <3>6, <3>8, <3>9, <3>10 DEF NextDay
  <2>3. CASE NextDay(q)
    <3>1. /\ day[q] = day[p] + 1 /\ pc[q] \in {"idle", "sync"} /\ d = <<>>
          /\ Len(c) = 1 + Awaits(q)
      BY <1>1, <2>3 DEF NextDay
    <3>2. Taken(q) = 0
      BY <1>1, <3>1, TakenIs
    <3>3. Len(d) = 0
      BY <3>1
    <3>4. /\ Len(chan'[p]) = Dispatched(q)' - Taken(p)'
          /\ Len(chan'[q]) = Dispatched(p)' - Taken(q)'
      <4>1. Len(chan'[p]) = Len(c) - 1 /\ Len(chan'[q]) = 0
        BY <1>3, <1>8, <3>3
      <4> HIDE DEF c, d
      <4> QED BY <1>4, <1>8, <1>10, <3>1, <3>2, <4>1
    <3>5. day'["R"] = day'["S"]
      BY <1>4, <3>1 DEF Party, Peer
    <3> QED BY <1>1, <3>4, <3>5 DEF SameDays
  <2> QED BY <2>1, <2>2, <2>3
<1>12. SyncSays(p)'
  <2> SUFFICES ASSUME NEW i \in DOMAIN Tail(c), Tail(c)[i].kind = "sync"
               PROVE  i = 1 /\ Tail(c)[i].day = schedule[q][day[p] + 1]
    BY <1>3, <1>4 DEF SyncSays
  <2>1. i + 1 \in DOMAIN c /\ c[i + 1].kind = "sync" /\ i \in Nat \ {0}
        /\ Tail(c)[i].day = c[i + 1].day
    BY <1>8
  <2>2. i + 1 = 1 \/ (i + 1 = 2 /\ c[i + 1].day = schedule[q][day[p] + 1])
    BY <1>6, <1>7, <2>1 DEF SyncSays
  <2> QED BY <2>1, <2>2
<1>13. SyncSays(q)'
  BY <1>1, <1>3, <1>4, <1>7 DEF SyncSays
<1>14. OpenSays(p)'
  <2> SUFFICES ASSUME NEW i \in DOMAIN Tail(c), Tail(c)[i].kind = "open" PROVE FALSE
    BY <1>3 DEF OpenSays
  <2>1. i + 1 \in DOMAIN c /\ c[i + 1].kind = "open"
    BY <1>8
  <2> QED BY <1>6, <1>7, <2>1 DEF OpenSays, OfQuery
<1>15. OpenSays(q)'
  BY <1>1, <1>3, <1>4, <1>5, <1>7 DEF OpenSays
<1>16. ToldAlike(p)' /\ ToldAlike(q)'
  <2>1. ~ Told(p)'
    BY DEF TellInv, DurabilityInv, OwnDay, Told, Ended
  <2> QED BY <1>1, <1>4, <1>5, <1>6, <1>7, <2>1 DEF ToldAlike
<1>17. AgreedDay(q)' /\ (pc'[q] = "salt" => TodayDue(q)')
  BY <1>1, <1>4, <1>7 DEF AgreedDay
<1>18. AgreedDay(p)' /\ (pc'[p] = "salt" => TodayDue(p)')
  BY DEF AgreedDay, OfQuery
<1> QED BY <1>1, <1>11, <1>12, <1>13, <1>14, <1>15, <1>16, <1>17, <1>18 DEF TellInv

\* p opens the schedule check of its next day.
LEMMA NextMorning ==
    ASSUME TellInv, DurabilityInv', NEW p \in Party, Alone(p), UNCHANGED force,
           st'[p].query_no = st[p].query_no, day'[p] = day[p],
           pc[p] = "idle", pc'[p] = "sync",
           NEW m \in Message, Send(p, m), m.kind = "sync", m.day = Today(p)
    PROVE  TellInv'
<1> DEFINE q == Peer(p)
           c == chan[p]
           d == chan[q]
<1>1. q \in Party /\ Peer(q) = p /\ p # q /\ Party = {p, q}
  BY PeerIn, Two
<1>2. /\ TypeOK /\ chan \in Channels /\ c \in Seq(Message) /\ d \in Seq(Message)
  BY <1>1 DEF TellInv, DurabilityInv, TypeOK, Channels
<1>3. /\ chan'[p] = c /\ chan'[q] = Append(d, m)
  BY <1>1, <1>2 DEF Channels, Send
<1>4. /\ Taken(q)' = Taken(q) /\ Awaits(q)' = Awaits(q) /\ Dispatched(q)' = Dispatched(q)
      /\ TodayDue(q)' = TodayDue(q) /\ Today(q)' = Today(q) /\ Live(q)' = Live(q)
      /\ \A x : Did(q, x)' = Did(q, x)
      /\ pc'[q] = pc[q] /\ day'[q] = day[q] /\ UNCHANGED schedule
  BY <1>1, TakenKept DEF Alone
<1>5. \A x : Did(p, x)' = Did(p, x)
  BY DidKept
<1>6. /\ Live(p) /\ Live(p)' /\ Awaits(p) = 0 /\ Awaits(p)' = 1
      /\ ~ Told(p)' /\ Told(q)' = Told(q)
  BY DEF Live, Awaits, Waiting, Ended, Told, Alone
<1>7. /\ SyncSays(p) /\ OpenSays(p)
      /\ AgreedDay(q) /\ SyncSays(q) /\ OpenSays(q) /\ ToldAlike(q)
      /\ pc[q] = "salt" => TodayDue(q)
  BY <1>1 DEF TellInv
<1>8. /\ Len(c) \in Nat /\ Len(d) \in Nat /\ Len(Append(d, m)) = Len(d) + 1
      /\ \A i \in DOMAIN Append(d, m) : \/ i \in DOMAIN d /\ Append(d, m)[i] = d[i]
                                        \/ i = Len(d) + 1 /\ Append(d, m)[i] = m
      /\ Len(d) > 0 => Append(d, m)[1] = d[1]
  BY <1>2
<1>9. Taken(p)' = 0 /\ Taken(p) = 0 /\ Dispatched(p)' = 1 /\ Dispatched(p) = 0
      /\ Taken(q) \in Nat /\ Awaits(q) \in {0, 1} /\ Dispatched(q) = Taken(q) + Awaits(q)
  <2>1. Taken(p)' = 0
    BY DEF Taken
  <2> QED BY <1>1, <1>6, <2>1, TakenIs DEF Dispatched
<1>10. Live(q) => SameDays \/ NextDay(p)
  <2>1. Abreast
    BY DEF TellInv
  <2>2. ~ NextDay(q)
    BY <1>1 DEF NextDay
  <2> QED BY <1>1, <1>6, <2>1, <2>2 DEF Abreast
<1>11. SameDays => /\ day[p] = day[q] /\ Len(d) = 0 /\ Taken(q) = 0
                   /\ Len(c) = Dispatched(q)
  <2>1. SUFFICES ASSUME SameDays
                 PROVE  day[p] = day[q] /\ Len(d) = 0 /\ Taken(q) = 0 /\ Len(c) = Dispatched(q)
    OBVIOUS
  <2>2. /\ day[p] = day[q] /\ Len(c) = Dispatched(q) - Taken(p)
        /\ Len(d) = Dispatched(p) - Taken(q)
    BY <2>1, Lengths2
  <2> HIDE DEF c, d
  <2> QED BY <1>8, <1>9, <2>2
<1>12. Abreast'
  <2> SUFFICES ASSUME Live(q) PROVE SameDays' \/ NextDay(p)'
    BY <1>1, <1>4 DEF Abreast
  <2>1. CASE SameDays
    <3>1. /\ Len(chan'[p]) = Dispatched(q)' - Taken(p)'
          /\ Len(chan'[q]) = Dispatched(p)' - Taken(q)'
      <4>1. Len(chan'[p]) = Len(c) /\ Len(chan'[q]) = Len(d) + 1
        BY <1>3, <1>8
      <4> HIDE DEF c, d
      <4> QED BY <1>4, <1>8, <1>9, <1>11, <2>1, <4>1
    <3>2. day'["R"] = day'["S"]
      BY <1>4, <1>11, <2>1 DEF Party, Peer
    <3> QED BY <1>1, <3>1, <3>2 DEF SameDays
  <2>2. CASE NextDay(p)
    <3>1. /\ Len(d) = 1 /\ c = <<>> /\ d[1].kind = pc[q]
      BY <1>6, <2>2 DEF NextDay
    <3>2. Len(chan'[q]) = 1 + Awaits(p)' /\ chan'[q][1].kind = pc'[q] /\ chan'[p] = <<>>
      BY <1>3, <1>4, <1>6, <1>8, <3>1
    <3> HIDE DEF c, d
    <3> QED BY <1>1, <1>4, <2>2, <3>2 DEF NextDay
  <2> QED BY <1>10, <2>1, <2>2
<1>13. SyncSays(p)'
  <2>1. \A i \in DOMAIN c : c[i].kind = "sync" =>
            (i = 1 /\ c[i].day = schedule[q][day[p]])
         \/ (i = 2 /\ c[i].day = schedule[q][day[p] + 1] /\ ~ schedule[q][day[p]].query)
    BY <1>6, <1>7 DEF SyncSays
  <2> QED BY <1>3, <1>4, <2>1 DEF SyncSays
<1>14. SyncSays(q)'
  <2> SUFFICES ASSUME Live(q), NEW i \in DOMAIN Append(d, m), Append(d, m)[i].kind = "sync"
               PROVE  \/ i = 1 /\ pc[q] \in {"idle", "sync"}
                         /\ Append(d, m)[i].day = schedule[p][day[q]]
                      \/ /\ i = 2 /\ Append(d, m)[i].day = schedule[p][day[q] + 1]
                         /\ (pc[q] = "open" \/ (pc[q] \in {"idle", "sync"} /\ ~ schedule[p][day[q]].query))
    BY <1>1, <1>3, <1>4 DEF SyncSays
  <2>1. CASE i \in DOMAIN d /\ Append(d, m)[i] = d[i]
    BY <1>1, <1>7, <2>1 DEF SyncSays
  <2>2. CASE i = Len(d) + 1 /\ Append(d, m)[i] = m
    <3>1. CASE SameDays
      <4>1. i = 1 /\ m.day = schedule[p][day[q]]
        BY <1>11, <2>2, <3>1 DEF Today
      <4>2. pc[q] \in {"idle", "sync"}
        BY <1>1, <1>11, <3>1, TakenIs
      <4> QED BY <2>2, <4>1, <4>2
    <3>2. CASE NextDay(p)
      <4>1. /\ day[p] = day[q] + 1 /\ Len(d) = 1
            /\ \/ pc[q] = "open"
               \/ pc[q] = "sync" /\ ~ schedule[q][day[q]].query
                                 /\ schedule[p][day[q]] = schedule[q][day[q]]
        BY <1>6, <3>2 DEF NextDay
      <4> HIDE DEF c, d
      <4> QED BY <2>2, <4>1 DEF Today
    <3> QED BY <1>10, <3>1, <3>2
  <2> QED BY <1>8, <2>1, <2>2
<1>15. OpenSays(p)'
  <2> SUFFICES ASSUME NEW i \in DOMAIN c, c[i].kind = "open" PROVE FALSE
    BY <1>3 DEF OpenSays
  <2> QED BY <1>6, <1>7 DEF OpenSays, OfQuery
<1>16. OpenSays(q)'
  <2> SUFFICES ASSUME Live(q), NEW i \in DOMAIN Append(d, m), Append(d, m)[i].kind = "open"
               PROVE  pc[q] \in OfQuery /\ i + Taken(q) = 5 + Flag(Did(p, Today(q)))
    BY <1>1, <1>3, <1>4, <1>5 DEF OpenSays
  <2>1. i \in DOMAIN d /\ d[i].kind = "open"
    BY <1>8
  <2> QED BY <1>1, <1>7, <2>1 DEF OpenSays
<1>17. ToldAlike(p)' /\ ToldAlike(q)'
  BY <1>1, <1>4, <1>5, <1>6, <1>7 DEF ToldAlike
<1>18. AgreedDay(q)' /\ (pc'[q] = "salt" => TodayDue(q)')
  BY <1>1, <1>4, <1>7 DEF AgreedDay
<1>19. AgreedDay(p)' /\ (pc'[p] = "salt" => TodayDue(p)')
  BY DEF AgreedDay, OfQuery
<1> QED BY <1>1, <1>12, <1>13, <1>14, <1>15, <1>16, <1>17, <1>18, <1>19 DEF TellInv

\* p has committed and gives out its half.
LEMMA HalfOut ==
    ASSUME TellInv, DurabilityInv', NEW p \in Party, Alone(p), UNCHANGED force,
           st'[p].query_no = st[p].query_no + 1, day'[p] = day[p],
           pc[p] = "commit", pc'[p] = "open",
           NEW m \in Message, Send(p, m), m.kind = "open"
    PROVE  TellInv'
<1> DEFINE q == Peer(p)
           c == chan[p]
           d == chan[q]
<1>1. q \in Party /\ Peer(q) = p /\ p # q /\ Party = {p, q}
  BY PeerIn, Two
<1>2. /\ TypeOK /\ chan \in Channels /\ c \in Seq(Message) /\ d \in Seq(Message)
      /\ st[p].query_no \in Nat
  BY <1>1 DEF TellInv, DurabilityInv, TypeOK, Channels, States
<1>3. /\ chan'[p] = c /\ chan'[q] = Append(d, m)
  BY <1>1, <1>2 DEF Channels, Send
<1>4. /\ Taken(q)' = Taken(q) /\ Awaits(q)' = Awaits(q) /\ Dispatched(q)' = Dispatched(q)
      /\ TodayDue(q)' = TodayDue(q) /\ Today(q)' = Today(q) /\ Live(q)' = Live(q)
      /\ \A x : Did(q, x)' = Did(q, x)
      /\ pc'[q] = pc[q] /\ day'[q] = day[q] /\ UNCHANGED schedule
  BY <1>1, TakenKept DEF Alone
<1>5. Today(p)' = Today(p) /\ (\A x : x = Today(p) => Did(p, x)' = Does(p))
  <2>1. Today(p)' = Today(p)
    BY DEF Today, Alone
  <2>2. LastNumber(p)' = st[p].query_no
    BY <1>2 DEF LastNumber
  <2> QED BY <2>1, <2>2 DEF Did, Does
<1>6. /\ Live(p) /\ Live(p)' /\ Awaits(p) = 0 /\ Awaits(p)' = 1
      /\ ~ Told(p)' /\ Told(q)' = Told(q)
  BY DEF Live, Awaits, Waiting, Ended, Told, Alone
<1>7. /\ AgreedDay(p) /\ SyncSays(p) /\ OpenSays(p)
      /\ AgreedDay(q) /\ SyncSays(q) /\ ToldAlike(q)
      /\ pc[q] = "salt" => TodayDue(q)
  BY <1>1 DEF TellInv
<1>8. /\ Len(c) \in Nat /\ Len(d) \in Nat /\ Len(Append(d, m)) = Len(d) + 1
      /\ \A i \in DOMAIN Append(d, m) : \/ i \in DOMAIN d /\ Append(d, m)[i] = d[i]
                                        \/ i = Len(d) + 1 /\ Append(d, m)[i] = m
  BY <1>2
<1>9. /\ Taken(p) = 4 + Flag(Does(p)) /\ Taken(p)' = 4 + Flag(Does(p))
      /\ Dispatched(p) = Taken(p) /\ Dispatched(p)' = Taken(p) + 1
      /\ Flag(Does(p)) \in {0, 1} /\ Taken(p) \in Nat
      /\ Taken(q) \in Nat /\ Awaits(q) \in {0, 1} /\ Dispatched(q) = Taken(q) + Awaits(q)
  <2>1. /\ Flag(Does(p)) \in {0, 1} /\ Taken(p) = 4 + Flag(Does(p)) /\ Taken(p) \in Nat
        /\ Taken(q) \in Nat /\ Awaits(q) \in {0, 1}
    BY <1>1, TakenIs, FlagIs
  <2>2. TodayDue(p)' = Does(p)
    BY <1>5 DEF TodayDue
  <2>3. Taken(p)' = 4 + Flag(Does(p))
    BY <2>2 DEF Taken
  <2>4. Dispatched(p) = Taken(p) + 0 /\ Dispatched(p)' = Taken(p)' + 1
        /\ Dispatched(q) = Taken(q) + Awaits(q)
    BY <1>6 DEF Dispatched
  <2> QED BY <2>1, <2>3, <2>4
<1>10. Live(q) => ~ HasHalf(q)
  BY <1>1, <1>6 DEF TellInv, DurabilityInv, KeptFor, Ended
<1>11. Live(q) => /\ day[p] = day[q] /\ Len(c) = Dispatched(q) - Taken(p)
                  /\ Len(d) = Dispatched(p) - Taken(q)
  BY <1>1, <1>6, MidDay, Lengths2 DEF OfQuery
<1>12. Abreast'
  <2> SUFFICES ASSUME Live(q) PROVE SameDays'
    BY <1>1, <1>4 DEF Abreast
  <2>1. /\ Len(chan'[p]) = Dispatched(q)' - Taken(p)'
        /\ Len(chan'[q]) = Dispatched(p)' - Taken(q)'
    <3>1. Len(chan'[p]) = Len(c) /\ Len(chan'[q]) = Len(d) + 1
      BY <1>3, <1>8
    <3> HIDE DEF c, d
    <3> QED BY <1>4, <1>8, <1>9, <1>11, <3>1
  <2>2. day'["R"] = day'["S"]
    BY <1>4, <1>11 DEF Party, Peer
  <2> QED BY <1>1, <2>1, <2>2 DEF SameDays
<1>13. SyncSays(p)'
  <2> SUFFICES ASSUME NEW i \in DOMAIN c, c[i].kind = "sync" PROVE FALSE
    BY <1>3 DEF SyncSays
  <2> QED BY <1>6, <1>7 DEF SyncSays
<1>14. SyncSays(q)'
  <2> SUFFICES ASSUME Live(q), NEW i \in DOMAIN Append(d, m), Append(d, m)[i].kind = "sync"
               PROVE  \/ i = 1 /\ pc[q] \in {"idle", "sync"} /\ d[i].day = schedule[p][day[q]]
                         /\ d[i] = Append(d, m)[i]
                      \/ /\ i = 2 /\ d[i].day = schedule[p][day[q] + 1]
                         /\ d[i] = Append(d, m)[i]
                         /\ (pc[q] = "open" \/ (pc[q] \in {"idle", "sync"} /\ ~ schedule[p][day[q]].query))
    BY <1>1, <1>3, <1>4 DEF SyncSays
  <2>1. i \in DOMAIN d /\ d[i].kind = "sync" /\ Append(d, m)[i] = d[i]
    BY <1>8
  <2> QED BY <1>1, <1>7, <2>1 DEF SyncSays
<1>15. OpenSays(p)'
  <2> SUFFICES ASSUME NEW i \in DOMAIN c, c[i].kind = "open"
               PROVE  i + Taken(p)' = 5 + Flag(Did(q, Today(p)))
    BY <1>3, <1>4, <1>5 DEF OpenSays, OfQuery
  <2> QED BY <1>6, <1>7, <1>9 DEF OpenSays
<1>16. OpenSays(q)'
  <2> SUFFICES ASSUME Live(q), NEW i \in DOMAIN Append(d, m), Append(d, m)[i].kind = "open"
               PROVE  pc[q] \in OfQuery /\ i + Taken(q) = 5 + Flag(Did(p, Today(q))')
    BY <1>1, <1>3, <1>4 DEF OpenSays
  <2>1. i = Len(d) + 1
    BY <1>8, <1>10 DEF HasHalf
  <2>2. i + Taken(q) = 5 + Flag(Does(p)) /\ Taken(q) # 0
    <3> DEFINE f == Flag(Does(p))
    <3>1. Len(c) \in Nat /\ Len(d) \in Nat /\ f \in {0, 1} /\ Taken(p) = 4 + f
          /\ Dispatched(p) = Taken(p)
      BY <1>8, <1>9
    <3>2. Len(c) = Dispatched(q) - Taken(p) /\ Len(d) = Dispatched(p) - Taken(q)
          /\ Taken(q) \in Nat /\ Awaits(q) \in {0, 1} /\ Dispatched(q) = Taken(q) + Awaits(q)
      BY <1>9, <1>11
    <3>3. i + Taken(q) = 5 + f /\ Taken(q) # 0
      <4> HIDE DEF c, d, f
      <4> QED BY <2>1, <3>1, <3>2
    <3> QED BY <3>3
  <2>3. pc[q] \notin {"idle", "sync"}
    BY <1>1, <2>2, TakenIs
  <2>4. pc[q] \in OfQuery
    BY <1>1, <1>2, <2>3 DEF TypeOK, Control, Waiting, Live, OfQuery
  <2>5. Today(q) = Today(p)
    BY <1>1, <1>7, <1>11 DEF AgreedDay, OfQuery, Today
  <2>6. Did(p, Today(q))' = Does(p)
    BY <1>4, <1>5, <2>5
  <2> QED BY <2>2, <2>4, <2>6
<1>17. ToldAlike(p)' /\ ToldAlike(q)'
  <2>1. ~ Told(q)
    BY <1>10 DEF Told, HasHalf, Live, Ended
  <2> QED BY <1>6, <2>1 DEF ToldAlike
<1>18. AgreedDay(q)' /\ (pc'[q] = "salt" => TodayDue(q)')
  BY <1>1, <1>4, <1>7 DEF AgreedDay
<1>19. AgreedDay(p)' /\ (pc'[p] = "salt" => TodayDue(p)')
  BY <1>4, <1>5, <1>7 DEF AgreedDay, OfQuery
<1> QED BY <1>1, <1>12, <1>13, <1>14, <1>15, <1>16, <1>17, <1>18, <1>19 DEF TellInv

\* p takes the peer's half: it has come in its place, so the peer has gone the
\* same way through the query.
LEMMA HalfIn ==
    ASSUME TellInv, DurabilityInv', NEW p \in Party, Alone(p), UNCHANGED force,
           st'[p].query_no = st[p].query_no, day'[p] = day[p] + 1,
           pc[p] = "open", pc'[p] = "idle", Consume(p),
           chan[p] # <<>>, Head(chan[p]).kind = "open"
    PROVE  TellInv'
<1> DEFINE q == Peer(p)
           c == chan[p]
           d == chan[q]
<1>1. q \in Party /\ Peer(q) = p /\ p # q /\ Party = {p, q}
  BY PeerIn, Two
<1>2. /\ TypeOK /\ chan \in Channels /\ c \in Seq(Message) /\ d \in Seq(Message)
      /\ day[p] \in Nat /\ day[q] \in Nat
  BY <1>1 DEF TellInv, DurabilityInv, TypeOK, Channels
<1>3. /\ chan'[p] = Tail(c) /\ chan'[q] = d
  BY <1>1, <1>2 DEF Channels, Consume, Rest
<1>4. /\ Taken(q)' = Taken(q) /\ Awaits(q)' = Awaits(q) /\ Dispatched(q)' = Dispatched(q)
      /\ TodayDue(q)' = TodayDue(q) /\ Today(q)' = Today(q) /\ Live(q)' = Live(q)
      /\ \A x : Did(q, x)' = Did(q, x)
      /\ pc'[q] = pc[q] /\ day'[q] = day[q] /\ UNCHANGED schedule
  BY <1>1, TakenKept DEF Alone
<1>5. \A x : Did(p, x)' = Did(p, x)
  BY DidKept
<1>6. /\ Live(p) /\ Live(p)' /\ Awaits(p) = 1 /\ Awaits(p)' = 0
      /\ Told(q)' = Told(q)
  BY DEF Live, Awaits, Waiting, Ended, Told, Alone
<1>7. /\ AgreedDay(p) /\ SyncSays(p) /\ OpenSays(p)
      /\ AgreedDay(q) /\ SyncSays(q) /\ OpenSays(q) /\ ToldAlike(q)
      /\ pc[q] = "salt" => TodayDue(q)
  BY <1>1 DEF TellInv
<1>8. /\ Len(c) \in Nat /\ Len(c) > 0 /\ Len(d) \in Nat /\ Len(Tail(c)) = Len(c) - 1
      /\ 1 \in DOMAIN c /\ c[1].kind = "open"
      /\ \A i \in DOMAIN Tail(c) : i + 1 \in DOMAIN c /\ Tail(c)[i] = c[i + 1] /\ i \in Nat \ {0}
      /\ Len(c) = 1 => Tail(c) = <<>>
  <2>1. Len(d) \in Nat
    BY <1>2
  <2>2. c \in Seq(Message) /\ c # <<>> /\ Head(c).kind = "open"
    BY <1>2
  <2> HIDE DEF c, d
  <2> QED BY <2>1, <2>2, FirstTaken
<1> DEFINE f == Flag(Did(p, Today(p)))
           g == Flag(Did(q, Today(p)))
<1>9. /\ Taken(p) = 4 + f /\ f = g /\ f \in {0, 1}
      /\ Did(p, Today(p)) <=> Did(q, Today(p))
  <2>1. Taken(p) = 4 + f /\ f \in {0, 1} /\ g \in {0, 1}
    BY TakenIs, FlagIs
  <2>2. 1 + Taken(p) = 5 + g
    BY <1>6, <1>7, <1>8 DEF OpenSays
  <2>3. f = g
    <3> HIDE DEF f, g
    <3> QED BY <2>1, <2>2
  <2> QED BY <2>1, <2>3, FlagTells, DidIn
<1>10. Taken(p)' = 0 /\ Dispatched(p)' = 0 /\ Dispatched(p) = Taken(p) + 1
       /\ Taken(q) \in Nat /\ Awaits(q) \in {0, 1} /\ Dispatched(q) = Taken(q) + Awaits(q)
  <2>1. Taken(p)' = 0
    BY DEF Taken
  <2> QED BY <1>1, <1>6, <2>1, TakenIs DEF Dispatched
<1>11. Abreast'
  <2> SUFFICES ASSUME Live(q) PROVE SameDays' \/ NextDay(p)'
    BY <1>1, <1>4 DEF Abreast
  <2>1. SameDays \/ NextDay(q)
    <3>1. Abreast /\ \A x \in Party : Live(x)
      BY <1>1, <1>6 DEF TellInv
    <3>2. ~ NextDay(p)
      BY <1>6 DEF NextDay
    <3> QED BY <1>1, <3>1, <3>2 DEF Abreast
  <2>2. CASE SameDays
    <3>1. /\ day[p] = day[q] /\ Len(c) = Dispatched(q) - Taken(p)
          /\ Len(d) = Dispatched(p) - Taken(q)
      BY <2>2, Lengths2
    <3>2. Taken(q) # 0
      <4> HIDE DEF c, d, f, g
      <4> QED BY <1>8, <1>9, <1>10, <3>1
    <3>3. pc[q] = "open"
      <4>1. KeptFor(p, q) /\ HasHalf(p)
        BY <1>1, <1>8 DEF TellInv, DurabilityInv, HasHalf
      <4>2. pc[q] \in {"open", "idle", "sync"}
        BY <1>6, <4>1 DEF KeptFor, Live
      <4> QED BY <1>1, <3>2, <4>2, TakenIs
    <3>4. Today(q) = Today(p)
      BY <1>1, <1>7, <3>1 DEF AgreedDay, OfQuery, Today
    <3>5. Taken(q) = 4 + g
      BY <1>1, <3>3, <3>4, TakenIs
    <3>6. Awaits(q) = 1
      BY <3>3 DEF Awaits, Waiting
    <3>7. Len(c) = 1 /\ Len(d) = 1
      <4> HIDE DEF c, d, f, g
      <4> QED BY <1>8, <1>9, <1>10, <3>1, <3>5, <3>6
    <3>8. d[1].kind = "open"
      <4>1. LastWord(p) /\ d # <<>>
        BY <1>2, <3>7 DEF TellInv, DurabilityInv
      <4> QED BY <1>6, <3>7, <4>1 DEF LastWord, Last, Waiting
    <3>9. Tail(c) = <<>> /\ chan'[p] = <<>> /\ Len(chan'[q]) = 1 + Awaits(p)'
      BY <1>3, <1>6, <1>8, <3>7
    <3>10. chan'[q][1].kind = pc'[q] /\ day'[p] = day'[q] + 1
      BY <1>3, <1>4, <3>1, <3>3, <3>8
    <3> QED BY <1>1, <1>4, <3>3, <3>9, <3>10 DEF NextDay
  <2>3. CASE NextDay(q)
    <3>1. /\ day[q] = day[p] + 1 /\ pc[q] \in {"idle", "sync"} /\ d = <<>>
          /\ Len(c) = 1 + Awaits(q)
      BY <1>1, <2>3 DEF NextDay
    <3>2. Taken(q) = 0
      BY <1>1, <3>1, TakenIs
    <3>3. Len(d) = 0
      BY <3>1
    <3>4. /\ Len(chan'[p]) = Dispatched(q)' - Taken(p)'
          /\ Len(chan'[q]) = Dispatched(p)' - Taken(q)'
      <4>1. Len(chan'[p]) = Len(c) - 1 /\ Len(chan'[q]) = 0
        BY <1>3, <1>8, <3>3
      <4> HIDE DEF c, d
      <4> QED BY <1>4, <1>8, <1>10, <3>1, <3>2, <4>1
    <3>5. day'["R"] = day'["S"]
      BY <1>4, <3>1 DEF Party, Peer
    <3> QED BY <1>1, <3>4, <3>5 DEF SameDays
  <2> QED BY <2>1, <2>2, <2>3
<1>12. SyncSays(p)'
  <2> SUFFICES ASSUME NEW i \in DOMAIN Tail(c), Tail(c)[i].kind = "sync"
               PROVE  i = 1 /\ Tail(c)[i].day = schedule[q][day[p] + 1]
    BY <1>3, <1>4 DEF SyncSays
  <2>1. i + 1 \in DOMAIN c /\ c[i + 1].kind = "sync" /\ i \in Nat \ {0}
        /\ Tail(c)[i].day = c[i + 1].day
    BY <1>8
  <2>2. i + 1 = 1 \/ (i + 1 = 2 /\ c[i + 1].day = schedule[q][day[p] + 1])
    BY <1>6, <1>7, <2>1 DEF SyncSays
  <2> QED BY <2>1, <2>2
<1>13. SyncSays(q)'
  BY <1>1, <1>3, <1>4, <1>7 DEF SyncSays
<1>14. OpenSays(p)'
  <2> SUFFICES ASSUME NEW i \in DOMAIN Tail(c), Tail(c)[i].kind = "open" PROVE FALSE
    BY <1>3 DEF OpenSays
  <2>1. i + 1 \in DOMAIN c /\ c[i + 1].kind = "open" /\ i \in Nat \ {0}
    BY <1>8
  <2>2. i + 1 + Taken(p) = 5 + g
    BY <1>6, <1>7, <2>1 DEF OpenSays
  <2> HIDE DEF f, g
  <2> QED BY <1>9, <2>1, <2>2
<1>15. OpenSays(q)'
  BY <1>1, <1>3, <1>4, <1>5, <1>7 DEF OpenSays
<1>16. ToldAlike(p)' /\ ToldAlike(q)'
  <2>1. day'[p] - 1 = day[p]
    BY <1>2
  <2>2. ToldAlike(p)'
    BY <1>1, <1>4, <1>5, <1>9, <2>1 DEF ToldAlike, Today
  <2>3. ToldAlike(q)'
    BY <1>1, <1>4, <1>5, <1>6, <1>7 DEF ToldAlike
  <2> QED BY <2>2, <2>3
<1>17. AgreedDay(q)' /\ (pc'[q] = "salt" => TodayDue(q)')
  BY <1>1, <1>4, <1>7 DEF AgreedDay
<1>18. AgreedDay(p)' /\ (pc'[p] = "salt" => TodayDue(p)')
  BY DEF AgreedDay, OfQuery
<1> QED BY <1>1, <1>11, <1>12, <1>13, <1>14, <1>15, <1>16, <1>17, <1>18 DEF TellInv

\* The evaluation, jointly or alone, and whatever changes nothing of all this.
LEMMA NothingTold ==
    ASSUME TellInv, DurabilityInv',
           \A p \in Party : pc'[p] = pc[p] \/ (pc[p] = "eval" /\ pc'[p] = "commit"),
           UNCHANGED <<st, chan, day, answer, schedule, force>>
    PROVE  TellInv'
<1>1. ASSUME NEW p \in Party
      PROVE  /\ Taken(p)' = Taken(p) /\ Awaits(p)' = Awaits(p)
             /\ Dispatched(p)' = Dispatched(p) /\ TodayDue(p)' = TodayDue(p)
             /\ Today(p)' = Today(p) /\ Live(p)' = Live(p) /\ Told(p)' = Told(p)
             /\ \A d : Did(p, d)' = Did(p, d)
             /\ \A k \in {"idle", "sync", "open", "salt"} : pc'[p] = k <=> pc[p] = k
             /\ pc'[p] \in OfQuery <=> pc[p] \in OfQuery
  <2>1. \A d : Did(p, d)' = Did(p, d)
    BY DEF Did, LastNumber
  <2>2. Today(p)' = Today(p) /\ Does(p)' = Does(p)
    BY DEF Today, Does
  <2>3. TodayDue(p)' = TodayDue(p)
    BY <2>1, <2>2 DEF TodayDue
  <2>4. Taken(p)' = Taken(p) /\ Awaits(p)' = Awaits(p) /\ Live(p)' = Live(p)
        /\ Told(p)' = Told(p)
    BY <2>3 DEF Taken, Awaits, Waiting, Live, Ended, Told
  <2> QED BY <2>1, <2>2, <2>3, <2>4 DEF Dispatched, OfQuery
<1>2. \A p \in Party : Peer(p) \in Party
  BY PeerIn
<1>3. Abreast'
  <2>1. SameDays => SameDays'
    BY <1>1, <1>2 DEF SameDays
  <2>2. ASSUME NEW p \in Party, NextDay(p) PROVE NextDay(p)'
    <3>1. pc'[Peer(p)] = pc[Peer(p)] /\ pc'[p] = pc[p]
      BY <1>1, <1>2, <2>2 DEF NextDay
    <3> QED BY <1>1, <1>2, <2>2, <3>1 DEF NextDay
  <2> QED BY <1>1, <2>1, <2>2 DEF TellInv, Abreast
<1>4. ASSUME NEW p \in Party
      PROVE  /\ pc'[p] = "salt" => TodayDue(p)'
             /\ AgreedDay(p)' /\ SyncSays(p)' /\ OpenSays(p)' /\ ToldAlike(p)'
  <2>1. /\ pc[p] = "salt" => TodayDue(p)
        /\ AgreedDay(p) /\ SyncSays(p) /\ OpenSays(p) /\ ToldAlike(p)
    BY DEF TellInv
  <2>2. (pc'[p] = "salt" => TodayDue(p)') /\ AgreedDay(p)'
    BY <1>1, <2>1 DEF AgreedDay
  <2>3. SyncSays(p)'
    BY <1>1, <2>1 DEF SyncSays
  <2>4. OpenSays(p)' /\ ToldAlike(p)'
    BY <1>1, <1>2, <2>1 DEF OpenSays, ToldAlike
  <2> QED BY <2>2, <2>3, <2>4
<1> QED BY <1>3, <1>4 DEF TellInv

\* p has ended; the last message it sent may be lost.
LEMMA Silent ==
    ASSUME TellInv, DurabilityInv', NEW p \in Party, Alone(p), UNCHANGED force,
           pc'[p] \in Ended, st'[p] = st[p],
           \/ UNCHANGED chan
           \/ /\ chan[Peer(p)] # <<>>
              /\ chan' = [chan EXCEPT ![Peer(p)] = SubSeq(@, 1, Len(@) - 1)]
    PROVE  TellInv'
<1> DEFINE q == Peer(p)
           d == chan[q]
<1>1. q \in Party /\ Peer(q) = p /\ p # q /\ Party = {p, q}
  BY PeerIn, Two
<1>2. \A i \in DOMAIN chan'[q] : i \in DOMAIN d /\ chan'[q][i] = d[i]
  <2>1. d \in Seq(Message) /\ (chan'[q] = d \/ (d # <<>> /\ chan'[q] = SubSeq(d, 1, Len(d) - 1)))
    BY <1>1 DEF TellInv, DurabilityInv, TypeOK
  <2>2. CASE d # <<>> /\ chan'[q] = SubSeq(d, 1, Len(d) - 1)
    <3>1. /\ Len(d) \in Nat /\ Len(d) > 0 /\ DOMAIN d = 1..Len(d)
          /\ DOMAIN chan'[q] = 1..(Len(d) - 1)
          /\ \A i \in 1..(Len(d) - 1) : chan'[q][i] = d[i]
      BY <2>1, <2>2
    <3> QED BY <3>1
  <2> QED BY <2>1, <2>2
<1>3. /\ Taken(q)' = Taken(q) /\ TodayDue(q)' = TodayDue(q)
      /\ Today(q)' = Today(q) /\ Live(q)' = Live(q)
      /\ \A x : Did(q, x)' = Did(q, x)
      /\ pc'[q] = pc[q] /\ day'[q] = day[q] /\ UNCHANGED schedule
  BY <1>1, TakenKept DEF Alone
<1>4. \A x : Did(p, x)' = Did(p, x)
  BY DidKept
<1>5. ~ Live(p)' /\ ~ Told(p)' /\ Told(q)' = Told(q) /\ pc'[p] \notin OfQuery
      /\ pc'[p] # "salt"
  BY DEF Live, Told, Ended, OfQuery, Alone
<1>6. AgreedDay(q) /\ SyncSays(q) /\ OpenSays(q) /\ ToldAlike(q)
      /\ (pc[q] = "salt" => TodayDue(q))
  BY <1>1 DEF TellInv
<1>7. Abreast'
  BY <1>5 DEF Abreast
<1>8. AgreedDay(p)' /\ SyncSays(p)' /\ OpenSays(p)' /\ ToldAlike(p)'
  BY <1>5 DEF AgreedDay, SyncSays, OpenSays, ToldAlike
<1>9. AgreedDay(q)' /\ ToldAlike(q)' /\ (pc'[q] = "salt" => TodayDue(q)')
  BY <1>1, <1>3, <1>4, <1>5, <1>6 DEF AgreedDay, ToldAlike
<1>10. SyncSays(q)'
  BY <1>1, <1>2, <1>3, <1>6 DEF SyncSays
<1>11. OpenSays(q)'
  BY <1>1, <1>2, <1>3, <1>4, <1>6 DEF OpenSays
<1> QED BY <1>1, <1>5, <1>7, <1>8, <1>9, <1>10, <1>11 DEF TellInv

-------------------------------------------------------------------------------
(* The steps.                                                                *)

LEMMA StopTells ==
    ASSUME TellInv, DurabilityInv', NEW p \in Party, NEW r, Stop(p, r)
    PROVE  TellInv'
<1>1. /\ pc' = [pc EXCEPT ![p] = "stopped"]
      /\ UNCHANGED <<st, disk, chan, day, answer, schedule, force, offline>>
  BY DEF Stop, Goto, procVars, inputVars
<1>2. Alone(p) /\ pc'[p] \in Ended /\ st'[p] = st[p]
  BY <1>1, PeerIn DEF Alone, TellInv, DurabilityInv, TypeOK, Ended
<1> QED BY <1>1, <1>2, Silent

LEMMA BeginDayTells ==
    ASSUME TellInv, DurabilityInv', NEW p \in Party, BeginDay(p)
    PROVE  TellInv'
<1> DEFINE m == [kind |-> "sync", day |-> Today(p)]
<1>1. /\ pc[p] = "idle" /\ Send(p, m)
      /\ pc' = [pc EXCEPT ![p] = "sync"] /\ answer' = [answer EXCEPT ![p] = NoAnswer]
      /\ UNCHANGED <<st, disk, day, schedule, force, offline>>
  BY DEF BeginDay, Goto, inputVars
<1>2. Alone(p) /\ pc'[p] = "sync" /\ st'[p] = st[p] /\ day'[p] = day[p]
  BY <1>1, PeerIn DEF Alone, TellInv, DurabilityInv, TypeOK
<1>3. m.kind = "sync" /\ m.day = Today(p)
  OBVIOUS
<1> HIDE DEF m
<1>4. m \in Message
  BY <1>1, SentTyped DEF TellInv, DurabilityInv
<1> QED BY <1>1, <1>2, <1>3, <1>4, NextMorning

\* The first message p takes that is a schedule check is the peer's for its day.
LEMMA AgreesOn ==
    ASSUME TellInv, NEW p \in Party, pc[p] = "sync", chan[p] # <<>>,
           Head(chan[p]).kind = "sync", Head(chan[p]).day = Today(p)
    PROVE  Today(p) = schedule[Peer(p)][day[p]]
<1>1. 1 \in DOMAIN chan[p] /\ chan[p][1] = Head(chan[p])
  BY FirstTaken DEF TellInv, DurabilityInv, TypeOK
<1> QED BY <1>1 DEF TellInv, SyncSays, Live, Ended

LEMMA RecvSyncTells ==
    ASSUME TellInv, DurabilityInv', NEW p \in Party, RecvSync(p)
    PROVE  TellInv'
<1> DEFINE nothing == [kind |-> "sync", day |-> NoDay]
<1>1. pc[p] = "sync" /\ pc[p] \in Waiting /\ Live(p)
  BY DEF RecvSync, Waiting, Live, Ended
<1>2. PICK m \in Delivered(p, "sync", {nothing}) :
         \/ Stop(p, "drift") \/ Stop(p, "salt")
         \/ /\ SameDay(m.day, Today(p))
            /\ \E I, D \in SUBSET Id : ApplyEdits(p, I, D)
  <2> HIDE DEF Stop, ApplyEdits, Delivered
  <2> QED BY DEF RecvSync
<1>3. CASE Stop(p, "drift") \/ Stop(p, "salt")
  BY <1>3, StopTells
<1>4. ASSUME NEW I, NEW D, ApplyEdits(p, I, D), SameDay(m.day, Today(p))
      PROVE  TellInv'
  <2>1. m # nothing
    <3>1. day[p] \in 1..Len(schedule[p]) /\ schedule[p] \in Seq(Day)
      <4>1. day[p] <= Len(schedule[p]) /\ day[p] \in Nat \ {0}
        BY <1>1 DEF TellInv, DurabilityInv, OwnDay, TypeOK
      <4>2. schedule[p] \in Seq(Day)
        <5>1. schedule[p] \in Schedules \cup {<<>>} /\ Schedules \subseteq Seq(Day)
          BY SessionAssumption DEF TellInv, DurabilityInv, TypeOK
        <5>2. <<>> \in Seq(Day)
          OBVIOUS
        <5> QED BY <5>1, <5>2
      <4> QED BY <4>1, <4>2
    <3>2. Today(p) \in Day
      BY <3>1 DEF Today
    <3>3. Today(p).label # 0
      BY <3>2, SessionAssumption
    <3> QED BY <1>4, <3>3 DEF SameDay, NoDay
  <2>2. chan[p] # <<>> /\ Head(chan[p]).kind = "sync" /\ Head(chan[p]).day = Today(p)
    BY <1>2, <1>4, <2>1 DEF Delivered, Incoming, SameDay
  <2>3. Today(p) = schedule[Peer(p)][day[p]]
    BY <1>1, <2>2, AgreesOn
  <2> DEFINE s == Apply(st[p], I, D, oracle[p])
             o == [kind |-> "provision", size |-> s.my_size]
  <2>4. /\ st' = [st EXCEPT ![p] = s]
        /\ UNCHANGED <<disk, answer, schedule, force, offline>>
    BY <1>4 DEF ApplyEdits, inputVars
  <2>5. st'[p].query_no = st[p].query_no
    <3>1. s.query_no = st[p].query_no
      BY DEF Apply
    <3> HIDE DEF s
    <3> QED BY <2>4, <3>1 DEF TellInv, DurabilityInv, TypeOK
  <2>6. CASE Today(p).query
    <3>1. Reply(p, o) /\ pc' = [pc EXCEPT ![p] = "provision"] /\ UNCHANGED day
      BY <1>4, <2>6 DEF ApplyEdits, Goto
    <3>2. Alone(p) /\ pc'[p] = "provision" /\ day'[p] = day[p]
      BY <2>4, <3>1, PeerIn DEF Alone, TellInv, DurabilityInv, TypeOK
    <3>3. o.kind \notin {"sync", "open"}
      OBVIOUS
    <3> HIDE DEF o, s
    <3>4. o \in Message
      BY <3>1, SentTyped DEF TellInv, DurabilityInv
    <3>5. Taken(p) = 0 /\ Taken(p)' = 1
      BY <1>1, <3>2 DEF Taken
    <3>6. AgreedDay(p)'
      BY <2>3, <2>4, <2>6, <3>2 DEF AgreedDay, Today
    <3>7. "provision" \in Waiting /\ "provision" \in OfQuery \ {"commit", "open"}
      BY DEF Waiting, OfQuery
    <3> QED BY <1>1, <2>2, <2>4, <2>5, <3>1, <3>2, <3>3, <3>4, <3>5, <3>6, <3>7, MovesOn
  <2>7. CASE ~ Today(p).query
    <3>1. /\ Consume(p) /\ pc' = [pc EXCEPT ![p] = "idle"]
          /\ day' = [day EXCEPT ![p] = @ + 1]
      BY <1>4, <2>7 DEF ApplyEdits, Goto
    <3>2. Alone(p) /\ pc'[p] = "idle" /\ answer'[p] = answer[p] /\ day'[p] = day[p] + 1
      BY <2>4, <3>1, PeerIn DEF Alone, TellInv, DurabilityInv, TypeOK
    <3> QED BY <1>1, <2>2, <2>4, <2>5, <2>7, <3>1, <3>2, QuietlyOn
  <2> QED BY <2>6, <2>7
<1> QED BY <1>2, <1>3, <1>4

\* p enters the round of the query proper.
LEMMA BeginQueryTells ==
    ASSUME TellInv, DurabilityInv', NEW p \in Party, NEW s, NEW forced,
           BeginQuery(p, s, forced),
           (pc[p] = "provision" /\ ~ Does(p)) \/ pc[p] = "salt",
           Live(Peer(p)) => chan[p] # <<>>,
           st' = [st EXCEPT ![p] = s], s.query_no = st[p].query_no,
           UNCHANGED <<disk, day, answer, schedule, force, offline>>
    PROVE  TellInv'
<1> DEFINE o == [kind |-> "round0", size |-> s.my_size, announce |-> Announces(s)]
<1>1. Reply(p, o) /\ pc' = [pc EXCEPT ![p] = "round0"]
  BY DEF BeginQuery, Goto
<1>2. Alone(p) /\ pc'[p] = "round0" /\ st'[p].query_no = st[p].query_no /\ day'[p] = day[p]
  BY <1>1, PeerIn DEF Alone, TellInv, DurabilityInv, TypeOK
<1>3. o.kind \notin {"sync", "open"}
  OBVIOUS
<1> HIDE DEF o
<1>4. o \in Message
  BY <1>1, SentTyped DEF TellInv, DurabilityInv
<1>5. Does(p)' = Does(p)
  BY <1>2 DEF Does, Today
<1>6. Taken(p)' = Taken(p) + 1
  <2>1. Taken(p)' = 2 + Flag(Does(p))
    BY <1>2, <1>5 DEF Taken, TodayDue
  <2>2. CASE pc[p] = "provision"
    BY <2>1, <2>2, TakenIs DEF Flag
  <2>3. CASE pc[p] = "salt"
    <3>1. Does(p)
      BY <2>3, TakenIs DEF TellInv
    <3> QED BY <2>1, <2>3, <3>1, TakenIs DEF Flag
  <2> QED BY <2>2, <2>3
<1>7. AgreedDay(p)'
  <2>1. AgreedDay(p) /\ pc[p] \in OfQuery
    BY DEF TellInv, OfQuery
  <2> QED BY <1>2, <2>1 DEF AgreedDay, Today
<1>8. "round0" \in Waiting /\ "round0" \in OfQuery \ {"commit", "open"}
      /\ pc[p] \in {"sync", "provision", "salt", "round0", "jtilde", "supports"} /\ pc[p] # "sync"
  BY DEF Waiting, OfQuery
<1> QED BY <1>1, <1>2, <1>3, <1>4, <1>6, <1>7, <1>8, MovesOn

LEMMA RecvProvisionTells ==
    ASSUME TellInv, DurabilityInv', NEW p \in Party, RecvProvision(p)
    PROVE  TellInv'
<1>1. pc[p] = "provision" /\ pc[p] \in Waiting /\ Live(p)
  BY DEF RecvProvision, Waiting, Live, Ended
<1>2. PICK m \in Delivered(p, "provision", [kind : {"provision"}, size : AnySize]) :
         \/ Stop(p, "salt")
         \/ /\ (Does(p) /\ BeginRefresh(p)) \/ (~ Does(p) /\ BeginQuery(p, st[p], FALSE))
            /\ UNCHANGED <<st, disk, day, answer, schedule, force, offline>>
  <2> HIDE DEF Stop, BeginRefresh, BeginQuery, Delivered, Due
  <2> QED BY DEF RecvProvision, inputVars, Does
<1>3. Live(Peer(p)) => chan[p] # <<>>
  BY <1>1, <1>2, TakesOne DEF TellInv, DurabilityInv
<1>4. CASE Stop(p, "salt")
  BY <1>4, StopTells
<1>5. CASE /\ ~ Does(p) /\ BeginQuery(p, st[p], FALSE)
           /\ UNCHANGED <<st, disk, day, answer, schedule, force, offline>>
  <2>1. st' = [st EXCEPT ![p] = st[p]]
    BY <1>5 DEF TellInv, DurabilityInv, TypeOK
  <2> QED BY <1>1, <1>3, <1>5, <2>1, BeginQueryTells
<1>6. CASE /\ Does(p) /\ BeginRefresh(p)
           /\ UNCHANGED <<st, disk, day, answer, schedule, force, offline>>
  <2>1. PICK r : Reply(p, [kind |-> "salt", r |-> r]) /\ pc' = [pc EXCEPT ![p] = "salt"]
    BY <1>6 DEF BeginRefresh, Goto
  <2> DEFINE o == [kind |-> "salt", r |-> r]
  <2>2. Alone(p) /\ pc'[p] = "salt" /\ day'[p] = day[p] /\ st'[p] = st[p]
    BY <1>6, <2>1, PeerIn DEF Alone, TellInv, DurabilityInv, TypeOK
  <2>3. o.kind \notin {"sync", "open"} /\ Reply(p, o)
    BY <2>1
  <2> HIDE DEF o
  <2>4. o \in Message
    BY <2>3, SentTyped DEF TellInv, DurabilityInv
  <2>5. Does(p)' = Does(p)
    BY <1>6, <2>2 DEF Does, Today
  <2>6. Taken(p) = 1 /\ Taken(p)' = 2 /\ TodayDue(p)'
    BY <1>1, <1>6, <2>2, <2>5 DEF Taken, TodayDue
  <2>7. AgreedDay(p)'
    <3>1. AgreedDay(p) /\ pc[p] \in OfQuery
      BY <1>1 DEF TellInv, OfQuery
    <3> QED BY <1>6, <2>2, <3>1 DEF AgreedDay, Today
  <2>8. "salt" \in Waiting /\ "salt" \in OfQuery \ {"commit", "open"} /\ pc[p] # "sync"
    BY <1>1 DEF Waiting, OfQuery
  <2> QED BY <1>1, <1>3, <1>6, <2>2, <2>3, <2>4, <2>6, <2>7, <2>8, MovesOn
<1> QED BY <1>2, <1>4, <1>5, <1>6

LEMMA RecvSaltTells ==
    ASSUME TellInv, DurabilityInv', NEW p \in Party, RecvSalt(p)
    PROVE  TellInv'
<1>1. pc[p] = "salt" /\ pc[p] \in Waiting
  BY DEF RecvSalt, Waiting
<1>2. PICK m \in Delivered(p, "salt", {[kind |-> "salt", r |-> 0]}) :
         \E salt : /\ st' = [st EXCEPT ![p] = Rebuilt(st[p], salt)]
                   /\ BeginQuery(p, Rebuilt(st[p], salt), TRUE)
  <2> HIDE DEF BeginQuery, Delivered, Rebuilt, RefreshedSalt
  <2> QED BY DEF RecvSalt
<1>3. PICK salt : /\ st' = [st EXCEPT ![p] = Rebuilt(st[p], salt)]
                  /\ BeginQuery(p, Rebuilt(st[p], salt), TRUE)
  BY <1>2
<1> DEFINE s == Rebuilt(st[p], salt)
<1>4. Live(Peer(p)) => chan[p] # <<>>
  BY <1>1, <1>2, TakesOne DEF TellInv, DurabilityInv
<1>5. UNCHANGED <<disk, day, answer, schedule, force, offline>>
  BY DEF RecvSalt, inputVars
<1>6. s.query_no = st[p].query_no
  BY DEF TellInv, DurabilityInv, TypeOK, States, Rebuilt
<1> HIDE DEF s
<1>7. BeginQuery(p, s, TRUE) /\ st' = [st EXCEPT ![p] = s]
  BY <1>3 DEF s
<1> QED BY <1>1, <1>4, <1>5, <1>6, <1>7, BeginQueryTells

\* p goes on within the query, to the exchange of its indices or the evaluation.
LEMMA GoesOnTells ==
    ASSUME TellInv, DurabilityInv', NEW p \in Party, Alone(p), UNCHANGED force,
           day'[p] = day[p], st'[p] = st[p],
           \/ pc[p] = "round0" /\ pc'[p] \in {"jtilde", "supports"}
           \/ pc[p] \in {"jtilde", "supports"} /\ pc'[p] = "eval",
           NEW m \in Message, m.kind \notin {"sync", "open"},
           IF pc'[p] = "eval" THEN Consume(p) ELSE Reply(p, m),
           Live(Peer(p)) => chan[p] # <<>>
    PROVE  TellInv'
<1>1. Does(p)' = Does(p)
  BY DEF Does, Today, Alone
<1>2. Taken(p)' = Taken(p) + 1
  <2>1. Flag(Does(p)) \in {0, 1}
    BY FlagIs
  <2>2. CASE pc[p] = "round0"
    <3>1. Taken(p)' = 3 + Flag(Does(p)) /\ Taken(p) = 2 + Flag(Does(p))
      BY <1>1, <2>2, TakenIs DEF Taken, TodayDue
    <3> QED BY <2>1, <3>1
  <2>3. CASE pc[p] # "round0"
    <3>1. Taken(p)' = 4 + Flag(Does(p)) /\ Taken(p) = 3 + Flag(Does(p))
      BY <1>1, <2>3, TakenIs DEF Taken, TodayDue
    <3> QED BY <2>1, <3>1
  <2> QED BY <2>2, <2>3
<1>3. AgreedDay(p)'
  <2>1. AgreedDay(p) /\ pc[p] \in OfQuery
    BY DEF TellInv, OfQuery
  <2> QED BY <2>1 DEF AgreedDay, Today, Alone
<1>4. /\ pc[p] \in {"sync", "provision", "salt", "round0", "jtilde", "supports"} /\ pc[p] # "sync"
      /\ pc'[p] \in OfQuery \ {"commit", "open"} /\ pc'[p] # "salt"
      /\ pc'[p] # "eval" => pc'[p] \in Waiting
  BY DEF OfQuery, Waiting
<1> QED BY <1>2, <1>3, <1>4, MovesOn

LEMMA RecvRound0Tells ==
    ASSUME TellInv, DurabilityInv', NEW p \in Party, RecvRound0(p)
    PROVE  TellInv'
<1>1. pc[p] = "round0" /\ pc[p] \in Waiting
  BY DEF RecvRound0, Waiting
<1>2. PICK m \in Delivered(p, "round0",
                           [kind : {"round0"}, size : AnySize, announce : BOOLEAN]) :
         PublishSupports(p, m.size) \/ PublishDirty(p, m.size)
  <2> HIDE DEF PublishSupports, PublishDirty, Delivered
  <2> QED BY DEF RecvRound0
<1>3. Live(Peer(p)) => chan[p] # <<>>
  BY <1>1, <1>2, TakesOne DEF TellInv, DurabilityInv
<1>4. \/ Stop(p, "occupied") \/ Stop(p, "umax")
      \/ \E kind \in {"jtilde", "supports"} : \E path, set : Publish(p, kind, path, m.size, set)
  <2> HIDE DEF Stop, Publish, Pads, Occupied, CapM
  <2> QED BY <1>2 DEF PublishSupports, PublishDirty
<1>5. CASE Stop(p, "occupied") \/ Stop(p, "umax")
  BY <1>5, StopTells
<1>6. ASSUME NEW kind \in {"jtilde", "supports"}, NEW path, NEW set,
             Publish(p, kind, path, m.size, set)
      PROVE  TellInv'
  <2> DEFINE o == [kind |-> kind, set |-> set]
  <2>1. /\ Reply(p, o) /\ pc' = [pc EXCEPT ![p] = kind]
        /\ UNCHANGED <<st, disk, day, answer, schedule, force, offline>>
    BY <1>6 DEF Publish, Goto, inputVars
  <2>2. Alone(p) /\ pc'[p] = kind /\ day'[p] = day[p] /\ st'[p] = st[p]
    BY <2>1, PeerIn DEF Alone, TellInv, DurabilityInv, TypeOK
  <2>3. o.kind \notin {"sync", "open"}
    OBVIOUS
  <2> HIDE DEF o
  <2>4. o \in Message
    BY <2>1, SentTyped DEF TellInv, DurabilityInv
  <2> QED BY <1>1, <1>3, <2>1, <2>2, <2>3, <2>4, GoesOnTells
<1> QED BY <1>4, <1>5, <1>6

LEMMA RecvIndicesTells ==
    ASSUME TellInv, DurabilityInv', NEW p \in Party, RecvIndices(p)
    PROVE  TellInv'
<1>1. pc[p] \in {"jtilde", "supports"} /\ pc[p] \in Waiting
  BY DEF RecvIndices, Waiting
<1>2. PICK m \in Delivered(p, pc[p], EmptyIndices(pc[p])) :
         \/ Stop(p, "length") \/ Stop(p, "exhausted")
         \/ /\ Consume(p) /\ Goto(p, "eval")
            /\ UNCHANGED <<st, disk, day, answer, schedule, force, offline>>
  <2> HIDE DEF Stop, Consume, Delivered, CapM, Goto, EmptyIndices
  <2> QED BY DEF RecvIndices, inputVars
<1>3. Live(Peer(p)) => chan[p] # <<>>
  BY <1>1, <1>2, TakesOne DEF TellInv, DurabilityInv
<1>4. CASE Stop(p, "length") \/ Stop(p, "exhausted")
  BY <1>4, StopTells
<1>5. CASE /\ Consume(p) /\ Goto(p, "eval")
           /\ UNCHANGED <<st, disk, day, answer, schedule, force, offline>>
  <2>1. Alone(p) /\ pc'[p] = "eval" /\ day'[p] = day[p] /\ st'[p] = st[p]
    BY <1>5, PeerIn DEF Alone, TellInv, DurabilityInv, TypeOK, Goto
  <2> DEFINE o == [kind |-> "jtilde", set |-> {}]
  <2>2. o \in Message /\ o.kind \notin {"sync", "open"}
    BY DEF Message
  <2> HIDE DEF o
  <2> QED BY <1>1, <1>3, <1>5, <2>1, <2>2, GoesOnTells
<1> QED BY <1>2, <1>4, <1>5

LEMMA CommitQueryTells ==
    ASSUME TellInv, DurabilityInv', NEW p \in Party, CommitQuery(p)
    PROVE  TellInv'
<1> DEFINE s == Commit(st[p], loc[p].path, loc[p].betas, loc[p].fresh)
<1>1. PICK c : st' = [st EXCEPT ![p] = s] /\ Send(p, [kind |-> "open", share |-> c])
  <2> HIDE DEF s, Convert, Send
  <2> QED BY DEF CommitQuery, s
<1>2. /\ pc[p] = "commit" /\ pc' = [pc EXCEPT ![p] = "open"]
      /\ UNCHANGED <<day, answer, schedule, force, offline>>
  BY DEF CommitQuery, Goto, inputVars
<1>3. s.query_no = st[p].query_no + 1
  <2>1. st[p] \in States
    BY DEF TellInv, DurabilityInv, TypeOK
  <2>2. "query_no" \in DOMAIN st[p]
    BY <2>1 DEF States
  <2> QED BY <2>2 DEF Commit, CommitReplace, CommitAccumulate
<1> DEFINE o == [kind |-> "open", share |-> c]
<1>4. o.kind = "open" /\ Send(p, o)
  BY <1>1
<1> HIDE DEF o, s
<1>5. Alone(p) /\ pc'[p] = "open" /\ st'[p] = s /\ day'[p] = day[p]
  <2>1. \A x \in Party : x # p => disk'[x] = disk[x]
    BY DEF CommitQuery, TellInv, DurabilityInv, TypeOK
  <2> QED BY <1>1, <1>2, <2>1, PeerIn DEF Alone, TellInv, DurabilityInv, TypeOK
<1>6. o \in Message
  BY <1>4, SentTyped DEF TellInv, DurabilityInv
<1> QED BY <1>2, <1>3, <1>4, <1>5, <1>6, HalfOut

LEMMA RecvOpenTells ==
    ASSUME TellInv, DurabilityInv', NEW p \in Party, RecvOpen(p)
    PROVE  TellInv'
<1>1. /\ pc[p] = "open" /\ chan[p] # <<>> /\ Head(chan[p]).kind = "open"
      /\ Consume(p) /\ pc' = [pc EXCEPT ![p] = "idle"]
      /\ UNCHANGED <<st, disk, schedule, force, offline>>
      /\ answer' = [answer EXCEPT ![p] = (loc[p].share + Head(chan[p]).share) % P]
      /\ day' = [day EXCEPT ![p] = @ + 1]
  BY DEF RecvOpen, Incoming, Goto, inputVars
<1>2. Alone(p) /\ pc'[p] = "idle" /\ day'[p] = day[p] + 1
  BY <1>1, PeerIn DEF Alone, TellInv, DurabilityInv, TypeOK
<1> QED BY <1>1, <1>2, HalfIn

LEMMA EndTells ==
    ASSUME TellInv, DurabilityInv', NEW p \in Party, Exit(p) \/ Crash(p) \/ LosePeer(p)
    PROVE  TellInv'
<1>1. CASE Exit(p)
  <2>1. /\ pc' = [pc EXCEPT ![p] = "done"]
        /\ UNCHANGED <<st, disk, chan, day, answer, schedule, force, offline>>
    BY <1>1 DEF Exit, Goto, procVars, inputVars
  <2>2. Alone(p) /\ pc'[p] \in Ended
    BY <2>1, PeerIn DEF Alone, TellInv, DurabilityInv, TypeOK, Ended
  <2> QED BY <2>1, <2>2, Silent
<1>2. CASE Crash(p)
  <2>1. /\ pc' = [pc EXCEPT ![p] = "crashed"]
        /\ UNCHANGED <<st, disk, day, answer, schedule, force, offline>>
        /\ \/ UNCHANGED chan
           \/ /\ chan[Peer(p)] # <<>>
              /\ chan' = [chan EXCEPT ![Peer(p)] = SubSeq(@, 1, Len(@) - 1)]
    BY <1>2 DEF Crash, Goto, procVars, inputVars
  <2>2. Alone(p) /\ pc'[p] \in Ended
    BY <2>1, PeerIn DEF Alone, TellInv, DurabilityInv, TypeOK, Ended
  <2> QED BY <2>1, <2>2, Silent
<1>3. CASE LosePeer(p)
  BY <1>3, StopTells DEF LosePeer
<1> QED BY <1>1, <1>2, <1>3

LEMMA StartSessionTells ==
    ASSUME DurabilityInv', StartSession
    PROVE  TellInv'
<1>1. \A p \in Party : chan'[p] = <<>> /\ pc'[p] = "idle" /\ day'[p] = 1 /\ answer'[p] = NoAnswer
  BY DEF StartSession
<1>2. "R" \in Party /\ "S" \in Party /\ \A p \in Party : Peer(p) \in Party
  BY PeerIn DEF Party
<1>3. \A p \in Party : Taken(p)' = 0 /\ Dispatched(p)' = 0 /\ ~ Told(p)'
  BY <1>1 DEF Taken, Dispatched, Awaits, Waiting, Told
<1>4. Abreast'
  <2>1. Len(<<>>) = 0
    OBVIOUS
  <2> QED BY <1>1, <1>2, <1>3, <2>1 DEF Abreast, SameDays
<1>5. ASSUME NEW p \in Party
      PROVE  /\ pc'[p] # "salt"
             /\ AgreedDay(p)' /\ SyncSays(p)' /\ OpenSays(p)' /\ ToldAlike(p)'
  <2>1. DOMAIN chan'[p] = {}
    BY <1>1
  <2> QED BY <1>1, <1>3, <2>1 DEF AgreedDay, SyncSays, OpenSays, ToldAlike, OfQuery
<1> QED BY <1>4, <1>5 DEF TellInv

LEMMA TellInvStart == Init => TellInv
<1> SUFFICES ASSUME Init PROVE TellInv
  OBVIOUS
<1>1. DurabilityInv
  BY DurabilityStart
<1>2. \A p \in Party : pc[p] = "done" /\ ~ Live(p) /\ ~ Told(p) /\ pc[p] \notin OfQuery
  BY DEF Init, Live, Told, Ended, OfQuery
<1>3. "R" \in Party
  BY DEF Party
<1> QED BY <1>1, <1>2, <1>3 DEF TellInv, Abreast, AgreedDay, SyncSays, OpenSays, ToldAlike

LEMMA TellInvStep == TellInv /\ [Next]_vars => TellInv'
<1> SUFFICES ASSUME TellInv, [Next]_vars PROVE TellInv'
  OBVIOUS
<1>1. DurabilityInv'
  BY DurabilityStep DEF TellInv
<1>2. ASSUME NEW p \in Party, BeginDay(p) PROVE TellInv'
  BY <1>1, <1>2, BeginDayTells
<1>3. ASSUME NEW p \in Party, RecvSync(p) PROVE TellInv'
  BY <1>1, <1>3, RecvSyncTells
<1>4. ASSUME NEW p \in Party, RecvProvision(p) PROVE TellInv'
  BY <1>1, <1>4, RecvProvisionTells
<1>5. ASSUME NEW p \in Party, RecvSalt(p) PROVE TellInv'
  BY <1>1, <1>5, RecvSaltTells
<1>6. ASSUME NEW p \in Party, RecvRound0(p) PROVE TellInv'
  BY <1>1, <1>6, RecvRound0Tells
<1>7. ASSUME NEW p \in Party, RecvIndices(p) PROVE TellInv'
  BY <1>1, <1>7, RecvIndicesTells
<1>8. ASSUME NEW p \in Party, CommitQuery(p) PROVE TellInv'
  BY <1>1, <1>8, CommitQueryTells
<1>9. ASSUME NEW p \in Party, RecvOpen(p) PROVE TellInv'
  BY <1>1, <1>9, RecvOpenTells
<1>10. ASSUME NEW p \in Party, Exit(p) \/ Crash(p) \/ LosePeer(p) PROVE TellInv'
  BY <1>1, <1>10, EndTells
<1>11. CASE Evaluate \/ \E p \in Party : EvaluateAlone(p)
  <2>1. UNCHANGED <<st, chan, day, answer, schedule, force>>
    BY <1>11 DEF Evaluate, EvaluateAlone, inputVars
  <2>2. \A p \in Party : pc'[p] = pc[p] \/ (pc[p] = "eval" /\ pc'[p] = "commit")
    <3>1. CASE Evaluate
      BY <3>1 DEF Evaluate
    <3>2. ASSUME NEW q \in Party, EvaluateAlone(q)
          PROVE  \A p \in Party : pc'[p] = pc[p] \/ (pc[p] = "eval" /\ pc'[p] = "commit")
      BY <3>2 DEF EvaluateAlone, Goto, TellInv, DurabilityInv, TypeOK
    <3> QED BY <1>11, <3>1, <3>2
  <2> QED BY <1>1, <2>1, <2>2, NothingTold
<1>12. ASSUME NEW p \in Party, UpdateOnly(p) PROVE TellInv'
  <2>1. UNCHANGED <<st, chan, day, answer, schedule, force, pc>>
    BY <1>12 DEF UpdateOnly, procVars
  <2> QED BY <1>1, <2>1, NothingTold
<1>13. CASE StartSession
  BY <1>1, <1>13, StartSessionTells
<1>14. CASE Quiescent \/ UNCHANGED vars
  <2>1. UNCHANGED <<st, chan, day, answer, schedule, force, pc>>
    BY <1>14 DEF Quiescent, vars
  <2> QED BY <1>1, <2>1, NothingTold
<1> HIDE DEF BeginDay, RecvSync, RecvProvision, RecvSalt, RecvRound0, RecvIndices,
             EvaluateAlone, CommitQuery, RecvOpen, LosePeer, Exit, Crash, UpdateOnly,
             Evaluate, StartSession, Quiescent
<1> QED BY <1>2, <1>3, <1>4, <1>5, <1>6, <1>7, <1>8, <1>9, <1>10, <1>11, <1>12, <1>13,
           <1>14 DEF Next

\* MixedQueriesTellNothing, unconditionally: whatever crashes, restarts, flags,
\* schedules and failed exchanges there have been, nobody is told a count by a
\* query that was a maintenance query for one party only (party_main.cpp:607).
THEOREM MixedQueriesTellNothingHolds == Spec => []MixedQueriesTellNothing
<1>1. TellInv => MixedQueriesTellNothing
  <2> SUFFICES ASSUME TellInv, NEW p \in Party, Told(p)
               PROVE  Changes("R", p) <=> Changes("S", p)
    BY DEF MixedQueriesTellNothing, Told
  <2>1. \A x : Changes(x, p) <=> Did(x, schedule[p][day[p] - 1])
    BY DEF Changes, Did, Due
  <2>2. Did(p, schedule[p][day[p] - 1]) <=> Did(Peer(p), schedule[p][day[p] - 1])
    BY DEF TellInv, ToldAlike
  <2>3. (p = "R" /\ Peer(p) = "S") \/ (p = "S" /\ Peer(p) = "R")
    BY DEF Party, Peer
  <2> QED BY <2>1, <2>2, <2>3
<1> QED BY <1>1, TellInvStart, TellInvStep, PTL DEF Spec

-------------------------------------------------------------------------------
(* The two parties together.                                                 *)

Joint == TypeOK /\ LocalInv /\ SameFlags /\ JointInv

-------------------------------------------------------------------------------
(* Queues, and where a party can be.                                         *)

LEMMA Both == \A p \in Party : Party = {p, Peer(p)} /\ {"R", "S"} = {p, Peer(p)}
BY DEF Party, Peer

LEMMA Queues ==
    ASSUME NEW c \in Seq(Message), NEW m \in Message
    PROVE  /\ Len(c) \in Nat /\ (c = <<>> <=> Len(c) = 0)
           /\ Append(c, m) \in Seq(Message)
           /\ Len(Append(c, m)) = Len(c) + 1
           /\ Append(c, m)[Len(c) + 1] = m
           /\ \A i \in 1..Len(c) : Append(c, m)[i] = c[i]
           /\ c # <<>> => /\ Len(Tail(c)) = Len(c) - 1
                          /\ Tail(c) \in Seq(Message)
                          /\ Head(c) = c[1]
                          /\ \A i \in 1..(Len(c) - 1) : Tail(c)[i] = c[i + 1]
<1>1. Len(c) \in Nat /\ (c = <<>> <=> Len(c) = 0)
  OBVIOUS
<1>2. /\ Append(c, m) \in Seq(Message)
      /\ Len(Append(c, m)) = Len(c) + 1
      /\ Append(c, m)[Len(c) + 1] = m
      /\ \A i \in 1..Len(c) : Append(c, m)[i] = c[i]
  OBVIOUS
<1>3. ASSUME c # <<>>
      PROVE  /\ Len(Tail(c)) = Len(c) - 1
             /\ Tail(c) \in Seq(Message)
             /\ Head(c) = c[1]
             /\ \A i \in 1..(Len(c) - 1) : Tail(c)[i] = c[i + 1]
  BY <1>3
<1> QED BY <1>1, <1>2, <1>3

\* The queue of a party, by its length.
LEMMA Lengths ==
    ASSUME chan \in Channels, NEW p \in Party
    PROVE  /\ chan[p] \in Seq(Message) /\ Len(chan[p]) \in Nat
           /\ chan[p] = <<>> <=> Len(chan[p]) = 0
           /\ chan[p] # <<>> => Head(chan[p]) = chan[p][1] /\ chan[p][1] \in Message
<1>1. chan[p] \in Seq(Message)
  BY DEF Channels
<1> QED BY <1>1

LEMMA Situations ==
    ASSUME Places, NEW p \in Party
    PROVE  \/ Together
           \/ Ahead(p) \/ Ahead(Peer(p))
           \/ Gone(p) \/ Gone(Peer(p))
BY Both DEF Places

\* The places of the party behind and of the one ahead.
Pairs == Leads \cup DayLeads

LEMMA AheadPairs ==
    ASSUME NEW p \in Party, Ahead(p)
    PROVE  /\ <<pc[Peer(p)], pc[p]>> \in Pairs
           /\ pc[p] \in {"sync", "provision", "salt", "round0", "jtilde", "supports",
                         "eval", "open", "idle"}
           /\ pc[Peer(p)] \in {"idle", "sync", "provision", "salt", "round0", "jtilde",
                               "supports", "commit", "open"}
           /\ pc[p] \notin Ended /\ pc[Peer(p)] \notin Ended
BY DEF Ahead, Pairs, Leads, DayLeads, Ended

\* What the party behind has waiting for it.
LEMMA BehindQueue ==
    ASSUME chan \in Channels, NEW p \in Party, Ahead(Peer(p))
    PROVE  /\ chan[Peer(p)] = <<>>
           /\ pc[p] \in Waiting => /\ chan[p] # <<>> /\ chan[p][1].kind = pc[p]
                                   /\ Says(Peer(p), pc[p], day[p], chan[p][1])
<1> DEFINE q == Peer(p)
<1>1. q \in Party /\ Peer(q) = p
  BY PeerIn
<1>2. AheadBy(q, pc[p], pc[q])
  BY <1>1 DEF Ahead
<1>3. chan[q] = <<>>
  BY <1>1, <1>2 DEF AheadBy, NoneFrom
<1>4. pc[p] \in Waiting => Len(chan[p]) # 0 /\ Says(q, pc[p], day[p], chan[p][1])
  BY <1>1, <1>2 DEF AheadBy, OneFrom, TwoFrom
<1> QED BY <1>3, <1>4, Lengths DEF Says

LEMMA TogetherQueue ==
    ASSUME chan \in Channels, NEW p \in Party, Together
    PROVE  IF pc[p] \in Waiting
           THEN /\ Len(chan[p]) = 1 /\ chan[p] # <<>> /\ chan[p][1].kind = pc[p]
                /\ Says(Peer(p), pc[p], day[p], chan[p][1])
           ELSE chan[p] = <<>>
<1> DEFINE q == Peer(p)
<1>1. q \in Party /\ Peer(q) = p
  BY PeerIn
<1>2. pc[p] = pc[q] /\ day[p] = day[q]
  BY Both DEF Together
<1>3. IF pc[q] \in Waiting THEN OneFrom(q, pc[q], day[q]) ELSE NoneFrom(q)
  BY <1>1 DEF Together
<1> QED BY <1>1, <1>2, <1>3, Lengths DEF OneFrom, NoneFrom, Says

\* An exchange of a running pair fails only for a party that begins a day the
\* peer does not take part in any more.
LEMMA OnlyTheLeftFail ==
    ASSUME Joint, NEW p \in Party, Failed(p)
    PROVE  /\ pc[p] = "sync" /\ chan[p] = <<>>
           /\ pc[Peer(p)] \in Ended
           /\ pc[Peer(p)] = "done" => day[Peer(p)] = day[p]
           /\ Gone(Peer(p))
<1> DEFINE q == Peer(p)
<1>1. q \in Party /\ Peer(q) = p /\ chan \in Channels
  BY PeerIn DEF Joint, TypeOK, Channels
<1>2. pc[p] \in Waiting \cup {"eval"} /\ pc[p] \notin Ended
  BY RunningStates DEF Failed, Waiting, Ended
<1>3. CASE Together
  <2>1. pc[p] = pc[q]
    BY Both, <1>3 DEF Together
  <2>2. CASE pc[p] \in Waiting
    <3>1. chan[p] # <<>> /\ chan[p][1].kind = pc[p]
      BY <1>1, <1>3, <2>2, TogetherQueue
    <3> QED BY <1>1, <2>1, <2>2, <3>1, Lengths, RunningStates DEF Failed, Waiting
  <2>3. CASE pc[p] = "eval"
    <3>1. chan[p] = <<>>
      BY <1>1, <1>3, <2>3, TogetherQueue DEF Waiting
    <3>2. loc[p].betas = loc[q].betas
      BY <1>1, <2>1, <2>3 DEF Joint, JointInv, Decisions
    <3> QED BY <1>1, <2>1, <2>3, <3>1, <3>2 DEF Failed, Waiting, Ended
  <2> QED BY <1>2, <2>2, <2>3
<1>4. CASE Ahead(p)
  <2>1. chan[p] = <<>> /\ pc[q] \notin Ended
    BY <1>1, <1>4, AheadPairs DEF Ahead, AheadBy, NoneFrom
  <2>2. pc[p] = "eval" => pc[q] # "eval"
    BY <1>4, AheadPairs
  <2> QED BY <2>1, <2>2 DEF Failed
<1>5. CASE Ahead(q)
  <2>1. /\ pc[p] # "eval"
        /\ pc[q] \notin Ended
    BY <1>1, <1>5, AheadPairs
  <2>2. pc[p] \in Waiting => chan[p] # <<>> /\ chan[p][1].kind = pc[p]
    BY <1>1, <1>5, BehindQueue
  <2> QED BY <1>1, <1>2, <2>1, <2>2, Lengths DEF Failed
<1>6. CASE Gone(p)
  BY <1>2, <1>6 DEF Gone
<1>7. CASE Gone(q)
  <2>1. CASE OneFrom(q, pc[p], day[p])
    <3>1. chan[p] # <<>> /\ chan[p][1].kind = pc[p] /\ pc[p] \in Waiting
      BY <1>1, <1>7, <1>2, <2>1, Lengths DEF OneFrom, Says, Gone, Waiting
    <3> QED BY <1>1, <3>1, Lengths DEF Failed, Waiting
  <2>2. CASE ~ OneFrom(q, pc[p], day[p])
    <3>1. /\ pc[p] \in {"idle", "sync"} /\ NoneFrom(q) /\ pc[q] \in Ended
          /\ pc[q] = "done" => day[q] = day[p]
      BY <1>1, <1>2, <1>7, <2>2 DEF Gone
    <3>2. pc[p] = "sync"
      BY <1>2, <3>1 DEF Waiting
    <3> QED BY <1>1, <1>7, <3>1, <3>2 DEF NoneFrom
  <2> QED BY <2>1, <2>2
<1> QED BY <1>1, <1>3, <1>4, <1>5, <1>6, <1>7, Situations DEF Joint, JointInv

\* What a running exchange delivers is the message the peer sent for it; only a
\* party that is together with its peer, or behind it, gets one.
LEMMA Received ==
    ASSUME Joint, NEW p \in Party, pc[p] \in Waiting, ~ Failed(p),
           NEW untouched, NEW m \in Delivered(p, pc[p], untouched)
    PROVE  /\ chan[p] # <<>> /\ m = chan[p][1] /\ m \in Message
           /\ Says(Peer(p), pc[p], day[p], m)
           /\ Rest(p) = Tail(chan[p])
           /\ \/ Together /\ Len(chan[p]) = 1
              \/ Ahead(Peer(p))
              \/ Gone(Peer(p)) /\ pc[p] \in {"sync", "open"}
<1> DEFINE q == Peer(p)
<1>1. q \in Party /\ Peer(q) = p /\ chan \in Channels
  BY PeerIn DEF Joint, TypeOK, Channels
<1>2. chan[p] # <<>> /\ m = Head(chan[p]) /\ m.kind = pc[p]
  BY DEF Delivered, Incoming
<1>3. m = chan[p][1] /\ m \in Message /\ Rest(p) = Tail(chan[p])
  BY <1>1, <1>2, Lengths DEF Rest
<1>4. CASE Together
  BY <1>1, <1>2, <1>3, <1>4, TogetherQueue
<1>5. CASE Ahead(p)
  BY <1>1, <1>2, <1>5 DEF Ahead, AheadBy, NoneFrom
<1>6. CASE Ahead(q)
  BY <1>1, <1>2, <1>3, <1>6, BehindQueue
<1>7. CASE Gone(p)
  BY <1>7 DEF Gone, Waiting, Ended
<1>8. CASE Gone(q)
  BY <1>1, <1>2, <1>3, <1>8 DEF Gone, NoneFrom, OneFrom, Waiting, Ended
<1> QED BY <1>1, <1>2, <1>3, <1>4, <1>5, <1>6, <1>7, <1>8, Situations
        DEF Joint, JointInv

-------------------------------------------------------------------------------
(* What a step leaves alone.                                                 *)

LEMMA SendQueues ==
    ASSUME chan \in Channels, NEW p \in Party, NEW m \in Message, Send(p, m)
    PROVE  /\ chan'[p] = chan[p]
           /\ Len(chan'[Peer(p)]) = Len(chan[Peer(p)]) + 1
           /\ chan'[Peer(p)][Len(chan[Peer(p)]) + 1] = m
           /\ \A i \in 1..Len(chan[Peer(p)]) : chan'[Peer(p)][i] = chan[Peer(p)][i]
<1> DEFINE c == chan[Peer(p)]
<1>1. Peer(p) \in Party /\ Peer(p) # p /\ c \in Seq(Message)
  BY PeerIn DEF Channels
<1>2. chan'[p] = chan[p] /\ chan'[Peer(p)] = Append(c, m)
  BY <1>1 DEF Send, Channels
<1> HIDE DEF c
<1>3. /\ Len(Append(c, m)) = Len(c) + 1
      /\ Append(c, m)[Len(c) + 1] = m
      /\ \A i \in 1..Len(c) : Append(c, m)[i] = c[i]
  BY <1>1, Queues
<1> QED BY <1>2, <1>3 DEF c

LEMMA ConsumeQueues ==
    ASSUME chan \in Channels, NEW p \in Party, Consume(p), chan[p] # <<>>
    PROVE  /\ chan'[Peer(p)] = chan[Peer(p)]
           /\ Len(chan'[p]) = Len(chan[p]) - 1
           /\ chan'[p] = <<>> <=> Len(chan[p]) = 1
           /\ \A i \in 1..(Len(chan[p]) - 1) : chan'[p][i] = chan[p][i + 1]
<1> DEFINE c == chan[p]
<1>1. Peer(p) \in Party /\ Peer(p) # p /\ c \in Seq(Message)
  BY PeerIn DEF Channels
<1>2. chan'[Peer(p)] = chan[Peer(p)] /\ chan'[p] = Tail(c)
  BY <1>1 DEF Consume, Rest, Channels
<1>3. \E m : m \in Message
  BY MessageTypes, ZeroShare
<1> HIDE DEF c
<1>4. /\ Len(Tail(c)) = Len(c) - 1 /\ Tail(c) \in Seq(Message)
      /\ \A i \in 1..(Len(c) - 1) : Tail(c)[i] = c[i + 1]
  BY <1>1, <1>3, Queues DEF c
<1>5. (Tail(c) = <<>> <=> Len(Tail(c)) = 0) /\ Len(c) \in Nat
  BY <1>1, <1>3, <1>4, Queues
<1> QED BY <1>2, <1>4, <1>5 DEF c

LEMMA ReplyQueues ==
    ASSUME chan \in Channels, NEW p \in Party, NEW m \in Message, Reply(p, m),
           chan[p] # <<>>
    PROVE  /\ Len(chan'[p]) = Len(chan[p]) - 1
           /\ chan'[p] = <<>> <=> Len(chan[p]) = 1
           /\ \A i \in 1..(Len(chan[p]) - 1) : chan'[p][i] = chan[p][i + 1]
           /\ Len(chan'[Peer(p)]) = Len(chan[Peer(p)]) + 1
           /\ chan'[Peer(p)][Len(chan[Peer(p)]) + 1] = m
           /\ \A i \in 1..Len(chan[Peer(p)]) : chan'[Peer(p)][i] = chan[Peer(p)][i]
<1> DEFINE c == chan[p]
           d == chan[Peer(p)]
<1>1. Peer(p) \in Party /\ Peer(p) # p /\ c \in Seq(Message) /\ d \in Seq(Message)
  BY PeerIn DEF Channels
<1>2. chan'[Peer(p)] = Append(d, m) /\ chan'[p] = Tail(c)
  BY <1>1 DEF Reply, Rest, Channels
<1> HIDE DEF c, d
<1>3. /\ Len(Tail(c)) = Len(c) - 1 /\ Tail(c) \in Seq(Message)
      /\ \A i \in 1..(Len(c) - 1) : Tail(c)[i] = c[i + 1]
  BY <1>1, Queues DEF c
<1>4. (Tail(c) = <<>> <=> Len(Tail(c)) = 0) /\ Len(c) \in Nat
  BY <1>1, <1>3, Queues
<1>5. /\ Len(Append(d, m)) = Len(d) + 1
      /\ Append(d, m)[Len(d) + 1] = m
      /\ \A i \in 1..Len(d) : Append(d, m)[i] = d[i]
  BY <1>1, Queues
<1> QED BY <1>2, <1>3, <1>4, <1>5 DEF c, d

\* The decisions of a party that the step does not move.
LEMMA SameDecisions ==
    ASSUME NEW p \in Party, Decisions(p),
           UNCHANGED <<st, day, schedule, force>>,
           pc'[p] = pc[p], loc'[p] = loc[p],
           pc[p] = "eval" => \A q \in Party : loc'[q].mine = loc[q].mine
    PROVE  Decisions(p)'
<1>1. /\ FullPath' <=> FullPath
      /\ AgreedQuery(p)' <=> AgreedQuery(p)
      /\ DueToday(p)' = DueToday(p)
  BY DEF FullPath, AgreedQuery, DueToday, Today
<1>2. Padded(p)' <=> Padded(p)
  BY <1>1 DEF Padded
<1>3. pc[p] = "eval" => loc'["R"].mine = loc["R"].mine /\ loc'["S"].mine = loc["S"].mine
  BY DEF Party
<1>4. st' = st /\ pc'[p] = pc[p] /\ loc'[p] = loc[p]
  OBVIOUS
<1>5. /\ pc'[p] = "eval" => loc'[p].betas = loc'["R"].mine \cup loc'["S"].mine
      /\ pc'[p] = "open" => loc'[p].share = Convert(p, st'[p].t_share, st'[p].my_size,
                                                    st'[Peer(p)].my_size)
  BY <1>3, <1>4 DEF Decisions
<1>6. /\ (pc[p] \in Asked => AgreedQuery(p))'
      /\ (pc[p] = "salt" => DueToday(p))'
      /\ (pc[p] \in {"round0"} \cup Indexing => loc[p].forced = DueToday(p))'
  BY <1>1, <1>4 DEF Decisions
<1>7. /\ (pc[p] \in Indexing =>
           /\ loc[p].path = IF FullPath THEN "full" ELSE "incremental"
           /\ Padded(p))'
      /\ (pc[p] = "jtilde" => ~ FullPath)'
      /\ (pc[p] = "supports" => FullPath)'
      /\ (pc[p] \in Indexing \cup {"commit"} =>
            loc[p].peer_size = st[Peer(p)].my_size)'
  BY <1>1, <1>2, <1>4 DEF Decisions
<1> QED BY <1>5, <1>6, <1>7 DEF Decisions

LEMMA SameCounts ==
    ASSUME UNCHANGED st
    PROVE  \A c : RightCount(c)' <=> RightCount(c)
BY DEF RightCount, NoOverflow, Rank

\* A party's answer and the states it is about stay where they are.
LEMMA SameAnswers ==
    ASSUME NEW p \in Party, Answers(p), UNCHANGED <<st, disk, offline>>,
           pc'[p] = pc[p], answer'[p] = answer[p],
           \A q \in Party : pc[q] \in Ended => pc'[q] \in Ended
    PROVE  Answers(p)'
<1>1. \A q \in Party : Saved(q) => Saved(q)'
  BY DEF Saved
<1> QED BY <1>1, SameCounts DEF Answers

LEMMA SameSettled ==
    ASSUME NEW p \in Party, Settled(p), UNCHANGED <<st, disk, offline>>,
           pc'[p] = "open" => pc[p] = "open",
           \A q \in Party : pc[q] \in Ended => pc'[q] \in Ended,
           \A q \in Party : pc[q] = "commit" => pc'[q] = "commit"
    PROVE  Settled(p)'
<1>1. \A q \in Party : Saved(q) => Saved(q)'
  BY DEF Saved
<1> QED BY <1>1 DEF Settled

\* Memories and disks, when nothing is edited, committed or evaluated.
LEMMA SameKin ==
    ASSUME InMemory, OnDisk, UNCHANGED <<st, disk>>,
           \A x \in Party : (pc'[x] = "commit") <=> (pc[x] = "commit"),
           \A x \in Party : pc[x] = "commit" => loc'[x] = loc[x],
           \A x \in Party : Rebuilding(x) => Rebuilding(x)',
           \A x \in Party : Resalted(x) => Resalted(x)'
    PROVE  InMemory' /\ OnDisk'
<1>1. "R" \in Party /\ "S" \in Party
  BY DEF Party
<1>2. \A x \in Party : Working(x)' = Working(x)
  BY DEF Working
<1>3. \A x \in Party : Durable(x)' = Durable(x)
  BY <1>2 DEF Durable
<1>4. InMemory'
  BY <1>1, <1>2 DEF InMemory
<1>5. OnDisk'
  BY <1>1, <1>3 DEF OnDisk
<1> QED BY <1>4, <1>5

-------------------------------------------------------------------------------
(* The days.                                                                 *)

LEMMA BeginDayJoint ==
    ASSUME Joint, NEW p \in Party, BeginDay(p)
    PROVE  JointInv'
<1> DEFINE q == Peer(p)
           m == [kind |-> "sync", day |-> Today(p)]
<1>1. q \in Party /\ q # p /\ Peer(q) = p /\ chan \in Channels
  BY PeerIn DEF Joint, TypeOK, Channels
<1>2. /\ pc[p] = "idle" /\ pc'[p] = "sync" /\ pc'[q] = pc[q]
      /\ answer'[p] = NoAnswer /\ answer'[q] = answer[q]
      /\ day[p] <= Len(schedule[p])
      /\ Send(p, m)
      /\ UNCHANGED <<st, disk, oracle, loc, pool, day, why, crashes>>
      /\ UNCHANGED <<schedule, force, session, offline>>
  BY <1>1 DEF BeginDay, Goto, inputVars, Joint, TypeOK
<1>3. m \in Message /\ m.kind = "sync" /\ m.day = Today(p)
  <2>1. Today(p) \in Day
    <3>1. schedule[p] \in Seq(Day) /\ day[p] \in 1..Len(schedule[p])
      <4>1. schedule[p] \in Schedules \cup {<<>>} /\ day[p] \in Nat \ {0}
        BY DEF Joint, TypeOK
      <4>2. <<>> \in Seq(Day) /\ Schedules \subseteq Seq(Day)
        BY SessionAssumption
      <4>3. schedule[p] \in Seq(Day)
        BY <4>1, <4>2
      <4> QED BY <1>2, <4>1, <4>3
    <3> QED BY <3>1 DEF Today
  <2> QED BY <2>1, MessageTypes
<1> HIDE DEF m
<1>4. /\ chan'[p] = chan[p]
      /\ Len(chan'[q]) = Len(chan[q]) + 1
      /\ chan'[q][Len(chan[q]) + 1] = m
      /\ \A i \in 1..Len(chan[q]) : chan'[q][i] = chan[q][i]
  BY <1>1, <1>2, <1>3, SendQueues
<1>5. \A n : n = m => Says(p, "sync", day[p], n)'
  BY <1>2, <1>3 DEF Says, Today
<1>6. \A k, d, n : Says(p, k, d, n) /\ k # "salt" => Says(p, k, d, n)'
  BY <1>2 DEF Says
<1>7. \A k, d, n : Says(q, k, d, n) /\ k # "salt" => Says(q, k, d, n)'
  BY <1>2 DEF Says
<1>8. /\ Len(chan[q]) \in Nat /\ (chan[q] = <<>> <=> Len(chan[q]) = 0)
      /\ (chan[p] = <<>> <=> Len(chan[p]) = 0)
  BY <1>1, Lengths
<1>9. Places'
  <2>1. CASE Together
    <3>1. /\ pc[q] = "idle" /\ day[p] = day[q] /\ chan[p] = <<>> /\ chan[q] = <<>>
      BY <1>1, <1>2, <2>1, Both, TogetherQueue DEF Together, Waiting
    <3>2. OneFrom(p, "sync", day[p])'
      BY <1>2, <1>4, <1>5, <1>8, <3>1 DEF OneFrom
    <3>3. Ahead(p)'
      BY <1>1, <1>2, <1>4, <3>1, <3>2 DEF Ahead, AheadBy, Leads, NoneFrom, Waiting
    <3> QED BY <3>3 DEF Places
  <2>2. CASE Ahead(p)
    <3>1. /\ pc[q] \in {"sync", "open"} /\ day[p] = day[q] + 1 /\ chan[p] = <<>>
          /\ OneFrom(p, pc[q], day[q])
          /\ pc[q] = "sync" => QuietDay(p, day[q])
      BY <1>1, <1>2, <2>2 DEF Ahead, AheadBy, NoneFrom, Leads, DayLeads, Waiting
    <3>2. TwoFrom(p, pc[q], day[q], "sync", day[p])'
      <4>1. Len(chan[q]) = 1 /\ Says(p, pc[q], day[q], chan[q][1])
        BY <3>1 DEF OneFrom
      <4>2. /\ \A n : n = chan[q][1] => Says(p, pc[q], day[q], n)'
            /\ chan'[q][1] = chan[q][1] /\ chan'[q][2] = m /\ Len(chan'[q]) = 2
        <5>1. \A n : n = chan[q][1] => Says(p, pc[q], day[q], n)'
          BY <1>2, <1>6, <3>1, <4>1
        <5> QED BY <1>4, <4>1, <5>1
      <4> QED BY <1>1, <1>2, <1>4, <1>5, <4>2 DEF TwoFrom
    <3>3. AheadBy(p, pc[q], "sync")'
      BY <1>1, <1>2, <1>4, <3>1, <3>2 DEF AheadBy, NoneFrom, Waiting
    <3>4. QuietDay(p, day[q])' <=> QuietDay(p, day[q])
      BY <1>2 DEF QuietDay
    <3>5. Ahead(p)'
      BY <1>1, <1>2, <3>1, <3>3, <3>4 DEF Ahead, DayLeads
    <3> QED BY <3>5 DEF Places
  <2>3. CASE Ahead(q)
    <3>1. /\ pc[q] = "sync" /\ day[p] = day[q] /\ chan[q] = <<>>
          /\ OneFrom(q, "sync", day[q])
      BY <1>1, <1>2, <2>3 DEF Ahead, AheadBy, NoneFrom, Leads, DayLeads, Waiting
    <3>2. OneFrom(p, "sync", day[p])'
      BY <1>2, <1>4, <1>5, <1>8, <3>1 DEF OneFrom
    <3>3. OneFrom(q, "sync", day[q])'
      BY <1>1, <1>2, <1>4, <1>7, <3>1 DEF OneFrom
    <3>4. Together'
      BY <1>1, <1>2, <3>1, <3>2, <3>3, Both DEF Together, Waiting, Ended
    <3> QED BY <3>4 DEF Places
  <2>4. CASE Gone(q)
    <3>1. /\ pc[q] \in Ended /\ chan[p] = <<>>
          /\ pc[q] = "done" => day[q] = day[p]
      BY <1>1, <1>2, <2>4 DEF Gone, NoneFrom, Ended
    <3>2. Gone(q)'
      BY <1>1, <1>2, <1>4, <3>1 DEF Gone, NoneFrom
    <3> QED BY <1>1, <3>2 DEF Places
  <2>5. CASE Gone(p)
    BY <1>2, <2>5 DEF Gone, Ended
  <2> QED BY <1>1, <2>1, <2>2, <2>3, <2>4, <2>5, Situations DEF Joint, JointInv
<1>10. Decisions(p)' /\ Decisions(q)'
  <2>1. Decisions(p)'
    BY <1>2 DEF Decisions, Asked, Indexing
  <2>2. Decisions(q)'
    BY <1>1, <1>2, SameDecisions DEF Joint, JointInv
  <2> QED BY <2>1, <2>2
<1>11. Provisions(p)' /\ Provisions(q)'
  <2>1. Provisions(p) /\ Provisions(q)
    BY <1>1 DEF Joint, JointInv
  <2>2. pool[p] = pool[q] /\ Target' = Target
    BY <1>1, <1>2, <2>1 DEF Provisions, Refilled, Target
  <2> QED BY <1>1, <1>2, <2>1, <2>2 DEF Provisions, Refilled, Indexing
<1>12. \A x \in Party : /\ pc[x] \in Ended => pc'[x] \in Ended
                        /\ pc[x] = "commit" <=> pc'[x] = "commit"
                        /\ pc[x] = "open" <=> pc'[x] = "open"
  BY <1>1, <1>2, Both DEF Ended
<1>13. Settled(p)' /\ Settled(q)'
  BY <1>1, <1>2, <1>12, SameSettled DEF Joint, JointInv
<1>14. Answers(p)' /\ Answers(q)'
  <2>1. Answers(p)'
    BY <1>2 DEF Answers
  <2>2. Answers(q)'
    BY <1>1, <1>2, <1>12, SameAnswers DEF Joint, JointInv
  <2> QED BY <2>1, <2>2
<1>15. Endings(p)' /\ Endings(q)'
  BY <1>1, <1>2 DEF Endings, LeftEarly, Joint, JointInv
<1>16. InMemory' /\ OnDisk'
  <2>1. \A x \in Party : /\ Rebuilding(x) => Rebuilding(x)'
                         /\ Resalted(x) => Resalted(x)'
    BY <1>1, <1>2, Both DEF Rebuilding, Resalted, Indexing
  <2> QED BY <1>2, <1>12, <2>1, SameKin DEF Joint, JointInv
<1> QED BY <1>9, <1>10, <1>11, <1>13, <1>14, <1>15, <1>16, Both DEF JointInv

\* p ends while between two days or waiting for the peer to begin one.
LEMMA LeaveJoint ==
    ASSUME Joint, NEW p \in Party, pc[p] \in {"idle", "sync"},
           pc'[p] \in {"done", "stopped"}, pc'[Peer(p)] = pc[Peer(p)],
           UNCHANGED <<st, disk, oracle, loc, pool, day, answer, chan>>,
           UNCHANGED <<schedule, force, session, offline>>
    PROVE  /\ \A x \in Party : /\ Decisions(x)' /\ Provisions(x)' /\ Settled(x)'
                               /\ Answers(x)'
           /\ InMemory' /\ OnDisk'
<1> DEFINE q == Peer(p)
<1>1. q \in Party /\ q # p /\ Peer(q) = p
  BY PeerIn
<1>2. Decisions(p)' /\ Decisions(q)'
  <2>1. Decisions(p)'
    BY DEF Decisions, Asked, Indexing
  <2>2. Decisions(q)'
    BY <1>1, SameDecisions DEF Joint, JointInv
  <2> QED BY <2>1, <2>2
<1>3. Provisions(p)' /\ Provisions(q)'
  <2>1. Provisions(p) /\ Provisions(q)
    BY <1>1 DEF Joint, JointInv
  <2>2. pool[p] = pool[q] /\ Target' = Target
    BY <1>1, <2>1 DEF Provisions, Refilled, Target
  <2> QED BY <1>1, <2>1, <2>2 DEF Provisions, Refilled, Indexing
<1>4. \A x \in Party : /\ pc[x] \in Ended => pc'[x] \in Ended
                       /\ pc[x] = "commit" <=> pc'[x] = "commit"
                       /\ pc[x] = "open" <=> pc'[x] = "open"
  BY <1>1, Both DEF Ended
<1>5. Settled(p)' /\ Settled(q)'
  BY <1>1, <1>4, SameSettled DEF Joint, JointInv
<1>6. Answers(p)' /\ Answers(q)'
  <2>1. Answers(p)'
    BY DEF Answers, Ended
  <2>2. Answers(q)'
    BY <1>1, <1>4, SameAnswers DEF Joint, JointInv
  <2> QED BY <2>1, <2>2
<1>7. InMemory' /\ OnDisk'
  <2>1. \A x \in Party : /\ Rebuilding(x) => Rebuilding(x)'
                         /\ Resalted(x) => Resalted(x)'
    BY <1>1, Both DEF Rebuilding, Resalted, Indexing
  <2> QED BY <1>4, <2>1, SameKin DEF Joint, JointInv
<1> QED BY <1>2, <1>3, <1>5, <1>6, <1>7, Both

LEMMA ExitJoint ==
    ASSUME Joint, NEW p \in Party, Exit(p)
    PROVE  JointInv'
<1> DEFINE q == Peer(p)
<1>1. q \in Party /\ q # p /\ Peer(q) = p /\ chan \in Channels
  BY PeerIn DEF Joint, TypeOK, Channels
<1>2. /\ pc[p] = "idle" /\ pc'[p] = "done" /\ pc'[q] = pc[q]
      /\ day[p] > Len(schedule[p]) \/ BudgetStops
      /\ UNCHANGED <<st, disk, oracle, loc, pool, day, answer, chan, why>>
      /\ UNCHANGED <<schedule, force, session, offline>>
  BY <1>1 DEF Exit, Goto, procVars, inputVars, Joint, TypeOK
<1>3. \A k, d : OneFrom(p, k, d) /\ k # "salt" => OneFrom(p, k, d)'
  BY <1>2 DEF OneFrom, Says
<1>4. Places'
  <2>1. CASE Together
    <3>1. pc[q] = "idle" /\ day[p] = day[q] /\ chan[q] = <<>>
      BY <1>1, <1>2, <2>1, Both, TogetherQueue DEF Together, Waiting
    <3> QED BY <1>1, <1>2, <3>1 DEF Places, Gone, NoneFrom, Ended
  <2>2. CASE Ahead(p)
    <3>1. /\ pc[q] \in {"sync", "open"} /\ day[p] = day[q] + 1
          /\ OneFrom(p, pc[q], day[q])
          /\ pc[q] = "sync" => QuietDay(p, day[q])
      BY <1>1, <1>2, <2>2 DEF Ahead, AheadBy, NoneFrom, Leads, DayLeads, Waiting
    <3>2. OneFrom(p, pc[q], day[q])' /\ (QuietDay(p, day[q])' <=> QuietDay(p, day[q]))
      BY <1>2, <1>3, <3>1 DEF QuietDay
    <3> QED BY <1>1, <1>2, <3>1, <3>2 DEF Places, Gone, Ended
  <2>3. CASE Ahead(q)
    <3>1. pc[q] = "sync" /\ day[p] = day[q] /\ chan[q] = <<>>
      BY <1>1, <1>2, <2>3 DEF Ahead, AheadBy, NoneFrom, Leads, DayLeads, Waiting
    <3> QED BY <1>1, <1>2, <3>1 DEF Places, Gone, NoneFrom, Ended
  <2>4. CASE Gone(q)
    BY <1>1, <1>2, <2>4 DEF Places, Gone, Ended
  <2>5. CASE Gone(p)
    BY <1>2, <2>5 DEF Gone, Ended
  <2> QED BY <1>1, <2>1, <2>2, <2>3, <2>4, <2>5, Situations DEF Joint, JointInv
<1>5. Endings(p)' /\ Endings(q)'
  BY <1>1, <1>2 DEF Endings, LeftEarly, Joint, JointInv
<1>6. /\ \A x \in Party : /\ Decisions(x)' /\ Provisions(x)' /\ Settled(x)'
                          /\ Answers(x)'
      /\ InMemory' /\ OnDisk'
  BY <1>2, LeaveJoint
<1> QED BY <1>4, <1>5, <1>6, Both DEF JointInv

\* The party that the other has left behind gives up.
LEMMA LeftBehindJoint ==
    ASSUME Joint, NEW p \in Party, Failed(p), Stop(p, "drift") \/ Stop(p, "peer")
    PROVE  JointInv'
<1> DEFINE q == Peer(p)
<1>1. q \in Party /\ q # p /\ Peer(q) = p
  BY PeerIn
<1>2. /\ pc[p] = "sync" /\ pc[q] \in Ended
      /\ pc[q] = "done" => day[q] = day[p]
  BY OnlyTheLeftFail
<1>3. /\ pc'[p] = "stopped" /\ pc'[q] = pc[q]
      /\ why'[p] \in {"drift", "peer"} /\ why'[q] = why[q]
      /\ UNCHANGED <<st, disk, oracle, loc, pool, day, answer, chan>>
      /\ UNCHANGED <<schedule, force, session, offline>>
  BY <1>1 DEF Stop, Goto, procVars, inputVars, Joint, TypeOK
<1>4. Places'
  BY <1>1, <1>2, <1>3 DEF Places, Gone, Ended
<1>5. Endings(p)' /\ Endings(q)'
  <2>1. Endings(p) /\ Endings(q)
    BY <1>1 DEF Joint, JointInv
  <2>2. schedule["R"] = schedule["S"] => LeftEarly(q)
    <3>1. SUFFICES ASSUME schedule["R"] = schedule["S"] PROVE LeftEarly(q)
      OBVIOUS
    <3>2. pc[q] = "done"
      BY <1>1, <1>2, <2>1, <3>1 DEF Endings, Ended, LeftEarly
    <3>3. schedule[p] = schedule[q] /\ day[p] <= Len(schedule[p]) /\ day[q] = day[p]
      BY <1>1, <1>2, <2>1, <3>1, <3>2 DEF Endings, Party
    <3> QED BY <3>2, <3>3 DEF LeftEarly
  <2>3. schedule'["R"] = schedule'["S"] => LeftEarly(q)'
    BY <1>3, <2>2 DEF LeftEarly
  <2> QED BY <1>1, <1>2, <1>3, <2>1, <2>3 DEF Endings, LeftEarly, Ended
<1>6. /\ \A x \in Party : /\ Decisions(x)' /\ Provisions(x)' /\ Settled(x)'
                          /\ Answers(x)'
      /\ InMemory' /\ OnDisk'
  BY <1>2, <1>3, LeaveJoint
<1> QED BY <1>4, <1>5, <1>6, Both DEF JointInv

LEMMA LosePeerJoint ==
    ASSUME Joint, NEW p \in Party, LosePeer(p)
    PROVE  JointInv'
BY LeftBehindJoint DEF LosePeer

\* Edits keep the shares of the buckets they leave clean (update.cpp:94-109).
LEMMA ApplyCoherent ==
    ASSUME NEW s \in States, NEW o \in States, NEW I, NEW D, NEW salt
    PROVE  /\ CoherentCaches(s, o) => CoherentCaches(Apply(s, I, D, salt), o)
           /\ CoherentCaches(o, s) => CoherentCaches(o, Apply(s, I, D, salt))
           /\ Apply(s, I, D, salt).query_no = s.query_no
           /\ Apply(s, I, D, salt).oracle_salt = s.oracle_salt
<1> DEFINE t == Apply(s, I, D, salt)
           ins == Inserted(s, I, D)
           del == Deleted(s, I, D)
<1>2. /\ t.table = EditTable(s.table, ins, del, salt)
      /\ t.J = s.J \cup BucketsOf(ins \cup del, salt)
      /\ t.cache = s.cache /\ t.t_share = s.t_share
      /\ t.query_no = s.query_no /\ t.oracle_salt = s.oracle_salt
  BY DEF Apply, States
<1> HIDE DEF t, ins, del
<1>3. ASSUME NEW b \in Index \ t.J, NEW x \in Id
      PROVE  t.table[b][x] = s.table[b][x]
  <2>1. s.table[b][x] \in Int
    BY DEF States, Table
  <2>2. Oracle[salt][x] = b => x \notin ins \cup del
    BY <1>2, <1>3 DEF BucketsOf
  <2>3. t.table[b][x] = IF Oracle[salt][x] # b THEN s.table[b][x]
                        ELSE s.table[b][x] + (IF x \in ins THEN 1 ELSE 0)
                                           - (IF x \in del THEN 1 ELSE 0)
    BY <1>2 DEF EditTable
  <2> QED BY <2>1, <2>2, <2>3
<1>4. \A b \in Index \ t.J : /\ Differences(t, o, b) = Differences(s, o, b)
                             /\ Differences(o, t, b) = Differences(o, s, b)
  BY <1>3 DEF Differences
<1>5. CoherentCaches(s, o) => CoherentCaches(t, o)
  BY <1>2, <1>4 DEF CoherentCaches, Opened
<1>6. CoherentCaches(o, s) => CoherentCaches(o, t)
  BY <1>2, <1>4 DEF CoherentCaches, Opened
<1> QED BY <1>2, <1>5, <1>6 DEF t

\* A party that finds the peer in another day leaves; the peer will, too.
LEMMA DriftJoint ==
    ASSUME Joint, NEW p \in Party, pc[p] = "sync", ~ Failed(p), Stop(p, "drift"),
           NEW untouched, NEW m \in Delivered(p, "sync", untouched),
           ~ SameDay(m.day, Today(p))
    PROVE  JointInv'
<1> DEFINE q == Peer(p)
<1>1. q \in Party /\ q # p /\ Peer(q) = p /\ chan \in Channels
  BY PeerIn DEF Joint, TypeOK, Channels
<1>2. pc[p] \in Waiting /\ pc[p] \notin Ended
  BY RunningStates
<1>3. /\ schedule[q][day[p]] # schedule[p][day[p]]
      /\ chan[p] # <<>>
      /\ Together \/ Ahead(q) \/ Gone(q)
  <2>1. /\ Says(q, "sync", day[p], m) /\ chan[p] # <<>>
        /\ Together \/ Ahead(q) \/ Gone(q)
    BY <1>2, Received
  <2> QED BY <2>1 DEF Says, SameDay, Today
<1>4. /\ pc'[p] = "stopped" /\ pc'[q] = pc[q]
      /\ why'[p] = "drift" /\ why'[q] = why[q]
      /\ UNCHANGED <<st, disk, oracle, loc, pool, day, answer, chan>>
      /\ UNCHANGED <<schedule, force, session, offline>>
  BY <1>1 DEF Stop, Goto, procVars, inputVars, Joint, TypeOK
<1>5. Places'
  <2>1. CASE Together
    <3>1. pc[q] = "sync" /\ day[q] = day[p] /\ OneFrom(p, "sync", day[q])
      BY <1>1, <1>2, <2>1, Both DEF Together
    <3>2. OneFrom(p, "sync", day[q])'
      BY <1>4, <3>1 DEF OneFrom, Says
    <3>3. schedule'[p][day'[q]] # schedule'[q][day'[q]]
      BY <1>3, <1>4, <3>1
    <3> QED BY <1>1, <1>4, <3>1, <3>2, <3>3 DEF Places, Gone, Ended
  <2>2. CASE Ahead(q)
    <3>1. CASE day[q] = day[p] /\ <<"sync", pc[q]>> \in Leads
      <4>1. pc[q] \in Asked
        BY <3>1 DEF Leads, Asked
      <4>2. schedule["R"][day[q]] = schedule["S"][day[q]]
        BY <1>1, <4>1 DEF Decisions, AgreedQuery, Joint, JointInv
      <4> QED BY <1>1, <1>3, <3>1, <4>2 DEF Party
    <3>2. CASE <<"sync", pc[q]>> \in DayLeads
      <4>1. pc[q] \in {"idle", "sync"}
        BY <3>2 DEF DayLeads
      <4>2. QuietDay(q, day[p])
        BY <1>1, <2>2, <4>1 DEF Ahead
      <4> QED BY <1>1, <1>3, <4>2 DEF QuietDay
    <3> QED BY <1>1, <2>2, <3>1, <3>2 DEF Ahead
  <2>3. CASE Gone(q)
    BY <1>1, <1>4, <2>3 DEF Places, Gone, Ended
  <2> QED BY <1>3, <2>1, <2>2, <2>3
<1>6. Endings(p)' /\ Endings(q)'
  <2>1. schedule'["R"] # schedule'["S"]
    BY <1>1, <1>3, <1>4 DEF Party
  <2> QED BY <1>1, <1>4, <2>1 DEF Endings, LeftEarly, Joint, JointInv
<1>7. /\ \A x \in Party : /\ Decisions(x)' /\ Provisions(x)' /\ Settled(x)'
                          /\ Answers(x)'
      /\ InMemory' /\ OnDisk'
  BY <1>4, LeaveJoint
<1> QED BY <1>5, <1>6, <1>7, Both DEF JointInv

\* What p does with a day of its own and the peer's schedule.
LEMMA EditsPlaces ==
    ASSUME Joint, NEW p \in Party, pc[p] = "sync", ~ Failed(p),
           NEW untouched, NEW m \in Delivered(p, "sync", untouched),
           SameDay(m.day, Today(p)),
           NEW I \in SUBSET Id, NEW D \in SUBSET Id, ApplyEdits(p, I, D)
    PROVE  /\ Places'
           /\ schedule["R"][day[p]] = schedule["S"][day[p]]
           /\ pc[Peer(p)] \in {"idle", "sync", "provision"} \cup Ended
           /\ pc[Peer(p)] = "idle" => answer[Peer(p)] = NoAnswer
<1> DEFINE q == Peer(p)
           s == Apply(st[p], I, D, oracle[p])
           n == [kind |-> "provision", size |-> s.my_size]
<1>1. q \in Party /\ q # p /\ Peer(q) = p /\ chan \in Channels
  BY PeerIn DEF Joint, TypeOK, Channels
<1>2. pc[p] \in Waiting /\ pc[p] \notin Ended
  BY RunningStates
<1>3. /\ schedule[q][day[p]] = schedule[p][day[p]]
      /\ chan[p] # <<>>
      /\ (Together /\ Len(chan[p]) = 1) \/ Ahead(q) \/ Gone(q)
  <2>1. /\ Says(q, "sync", day[p], m) /\ chan[p] # <<>>
        /\ (Together /\ Len(chan[p]) = 1) \/ Ahead(q) \/ Gone(q)
    BY <1>2, Received
  <2> QED BY <2>1 DEF Says, SameDay, Today
<1>4. schedule["R"][day[p]] = schedule["S"][day[p]]
  BY <1>1, <1>3 DEF Party
<1>5. s \in States /\ n \in Message /\ n.kind = "provision" /\ n.size = s.my_size
  <2>1. s \in States
    BY ApplyType DEF Joint, TypeOK
  <2>2. s.my_size \in Int
    BY <2>1 DEF States
  <2> QED BY <2>1, <2>2, MessageTypes
<1> HIDE DEF n, s
<1>6. /\ st'[p] = s /\ st'[q] = st[q]
      /\ pc'[q] = pc[q] /\ day'[q] = day[q]
      /\ UNCHANGED <<disk, oracle, loc, pool, answer, why, crashes>>
      /\ UNCHANGED <<schedule, force, session, offline>>
      /\ IF Today(p).query
         THEN Reply(p, n) /\ pc'[p] = "provision" /\ day'[p] = day[p]
         ELSE Consume(p) /\ pc'[p] = "idle" /\ day'[p] = day[p] + 1
  BY <1>1 DEF ApplyEdits, Goto, inputVars, Joint, TypeOK, s, n
<1>7. /\ Len(chan[q]) \in Nat /\ (chan[q] = <<>> <=> Len(chan[q]) = 0)
      /\ Len(chan[p]) \in Nat /\ (chan[p] = <<>> <=> Len(chan[p]) = 0)
  BY <1>1, Lengths
<1>8. \A d, x : /\ Says(p, "sync", d, x) => Says(p, "sync", d, x)'
                /\ Says(q, "sync", d, x) => Says(q, "sync", d, x)'
                /\ Says(q, "provision", d, x) => Says(q, "provision", d, x)'
  BY <1>6 DEF Says
<1>9. \A x : x = n => Says(p, "provision", day[p], x)'
  BY <1>5, <1>6 DEF Says
<1>10. CASE Today(p).query
  <2>1. /\ pc'[p] = "provision" /\ day' [p] = day[p]
        /\ Len(chan'[p]) = Len(chan[p]) - 1
        /\ chan'[p] = <<>> <=> Len(chan[p]) = 1
        /\ \A i \in 1..(Len(chan[p]) - 1) : chan'[p][i] = chan[p][i + 1]
        /\ Len(chan'[q]) = Len(chan[q]) + 1
        /\ chan'[q][Len(chan[q]) + 1] = n
        /\ \A i \in 1..Len(chan[q]) : chan'[q][i] = chan[q][i]
    BY <1>1, <1>3, <1>5, <1>6, <1>10, ReplyQueues
  <2>2. ~ QuietDay(q, day[p])
    BY <1>1, <1>3, <1>10 DEF QuietDay, Today
  <2>3. CASE Together /\ Len(chan[p]) = 1
    <3>1. pc[q] = "sync" /\ day[q] = day[p] /\ OneFrom(p, "sync", day[q])
      BY <1>1, <1>2, <2>3, Both DEF Together
    <3>2. Len(chan[q]) = 1 /\ Says(p, "sync", day[q], chan[q][1])
      BY <1>1, <3>1 DEF OneFrom
    <3>3. \A x : x = chan[q][1] => Says(p, "sync", day[q], x)'
      BY <1>6, <1>8, <3>2
    <3>4. TwoFrom(p, "sync", day[q], "provision", day[p])'
      BY <1>1, <1>6, <1>9, <2>1, <3>2, <3>3 DEF TwoFrom
    <3>5. Ahead(p)'
      BY <1>1, <1>6, <2>1, <2>3, <3>1, <3>4
         DEF Ahead, AheadBy, NoneFrom, Leads, Waiting
    <3> QED BY <1>4, <3>1, <3>5 DEF Places
  <2>4. CASE Ahead(q)
    <3>1. pc[q] = "provision" /\ day[q] = day[p]
      BY <1>1, <2>2, <2>4 DEF Ahead, Leads, DayLeads
    <3>2. chan[q] = <<>> /\ TwoFrom(q, "sync", day[p], "provision", day[q])
      BY <1>1, <2>4, <3>1 DEF Ahead, AheadBy, NoneFrom, Waiting
    <3>3. Len(chan[p]) = 2 /\ Says(q, "provision", day[q], chan[p][2])
      BY <1>1, <3>2 DEF TwoFrom
    <3>4. \A x : x = chan[p][2] => Says(q, "provision", day[q], x)'
      BY <1>6, <1>8, <3>3
    <3>5. OneFrom(q, "provision", day[q])'
      BY <1>1, <1>6, <2>1, <3>3, <3>4 DEF OneFrom
    <3>6. OneFrom(p, "provision", day[p])'
      BY <1>1, <1>7, <1>9, <2>1, <3>2 DEF OneFrom
    <3>7. pc'[p] = "provision" /\ pc'[q] = "provision" /\ day'[p] = day'[q]
      BY <1>6, <2>1, <3>1
    <3>8. \A x \in Party : OneFrom(x, "provision", day[x])'
      BY <1>1, <3>5, <3>6, Both
    <3>9. Together'
      BY <1>1, <3>7, <3>8, Both DEF Together, Waiting, Ended
    <3> QED BY <1>4, <3>1, <3>9 DEF Places
  <2>5. CASE Gone(q)
    BY <1>1, <1>2, <1>3, <2>2, <2>5 DEF Gone, NoneFrom
  <2> QED BY <1>3, <2>3, <2>4, <2>5
<1>11. CASE ~ Today(p).query
  <2>1. /\ pc'[p] = "idle" /\ day'[p] = day[p] + 1
        /\ chan'[q] = chan[q]
        /\ Len(chan'[p]) = Len(chan[p]) - 1
        /\ chan'[p] = <<>> <=> Len(chan[p]) = 1
        /\ \A i \in 1..(Len(chan[p]) - 1) : chan'[p][i] = chan[p][i + 1]
    BY <1>1, <1>3, <1>6, <1>11, ConsumeQueues
  <2>2. \A x : OneFrom(p, "sync", x) => OneFrom(p, "sync", x)'
    BY <1>1, <1>8, <2>1 DEF OneFrom
  <2>3. CASE Together /\ Len(chan[p]) = 1
    <3>1. pc[q] = "sync" /\ day[q] = day[p] /\ OneFrom(p, "sync", day[q])
      BY <1>1, <1>2, <2>3, Both DEF Together
    <3>2. OneFrom(p, "sync", day[q])'
      BY <1>6, <2>2, <3>1
    <3>3. QuietDay(p, day[q])'
      BY <1>1, <1>3, <1>6, <1>11, <3>1 DEF QuietDay, Today
    <3>4. answer'[p] = NoAnswer
      BY <1>2, <1>6 DEF Answers, Joint, JointInv
    <3>5. Ahead(p)'
      BY <1>1, <1>6, <2>1, <2>3, <3>1, <3>2, <3>3, <3>4
         DEF Ahead, AheadBy, NoneFrom, DayLeads, Waiting
    <3> QED BY <1>4, <3>1, <3>5 DEF Places
  <2>4. CASE Ahead(q)
    <3>1. pc[q] # "provision" \/ day[q] # day[p]
      <4>1. pc[q] = "provision" => AgreedQuery(q)
        BY <1>1 DEF Decisions, Asked, Joint, JointInv
      <4> QED BY <1>1, <1>3, <1>11, <4>1 DEF AgreedQuery, Today
    <3>2. /\ pc[q] \in {"idle", "sync"} /\ day[q] = day[p] + 1
          /\ answer[q] = NoAnswer /\ chan[q] = <<>>
      BY <1>1, <2>4, <3>1 DEF Ahead, AheadBy, NoneFrom, Leads, DayLeads
    <3>3. CASE pc[q] = "idle"
      <4>1. OneFrom(q, "sync", day[p])
        BY <1>1, <2>4, <3>3 DEF Ahead, AheadBy, Waiting
      <4>2. chan'[p] = <<>> /\ chan'[q] = <<>>
        BY <1>1, <2>1, <3>2, <4>1 DEF OneFrom
      <4>3. /\ pc'[p] = "idle" /\ pc'[q] = "idle"
            /\ day'[p] = day'[q]
        BY <1>1, <1>6, <2>1, <3>2, <3>3
      <4>4. NoneFrom(p)' /\ NoneFrom(q)'
        BY <1>1, <4>2 DEF NoneFrom
      <4>5. Together'
        BY <1>1, <4>3, <4>4, Both DEF Together, Waiting, Ended
      <4> QED BY <1>4, <3>2, <4>5 DEF Places
    <3>4. CASE pc[q] = "sync"
      <4>1. TwoFrom(q, "sync", day[p], "sync", day[q])
        BY <1>1, <2>4, <3>4 DEF Ahead, AheadBy, Waiting
      <4>2. Len(chan[p]) = 2 /\ Says(q, "sync", day[q], chan[p][2])
        BY <1>1, <4>1 DEF TwoFrom
      <4>3. \A x : x = chan[p][2] => Says(q, "sync", day[q], x)'
        BY <1>6, <1>8, <4>2
      <4>4. OneFrom(q, "sync", day[q])'
        BY <1>1, <1>6, <2>1, <4>2, <4>3 DEF OneFrom
      <4>5. Ahead(q)'
        BY <1>1, <1>6, <2>1, <3>2, <3>4, <4>4
           DEF Ahead, AheadBy, NoneFrom, Leads, Waiting
      <4> QED BY <1>1, <1>4, <3>4, <4>5 DEF Places
    <3> QED BY <3>2, <3>3, <3>4
  <2>5. CASE Gone(q)
    <3>1. /\ pc[q] \in Ended /\ OneFrom(q, "sync", day[p])
          /\ pc[q] = "done" => day[q] = day[p] + 1
      BY <1>1, <1>2, <1>3, <2>5 DEF Gone, NoneFrom
    <3>2. chan'[p] = <<>>
      BY <1>1, <2>1, <3>1 DEF OneFrom
    <3>3. Gone(q)'
      BY <1>1, <1>6, <2>1, <3>1, <3>2 DEF Gone, NoneFrom
    <3> QED BY <1>1, <1>4, <3>1, <3>3 DEF Places, Ended
  <2> QED BY <1>3, <2>3, <2>4, <2>5
<1> QED BY <1>10, <1>11

LEMMA EditsKin ==
    ASSUME Joint, NEW p \in Party, pc[p] = "sync",
           pc[Peer(p)] \in {"idle", "sync", "provision"} \cup Ended,
           NEW I \in SUBSET Id, NEW D \in SUBSET Id, ApplyEdits(p, I, D)
    PROVE  InMemory' /\ OnDisk'
<1> DEFINE q == Peer(p)
           s == Apply(st[p], I, D, oracle[p])
<1>1. q \in Party /\ q # p /\ Peer(q) = p /\ "R" \in Party /\ "S" \in Party
  BY PeerIn DEF Party
<1>2. /\ st'[p] = s /\ st'[q] = st[q] /\ pc'[q] = pc[q] /\ disk' = disk
      /\ pc'[p] \in {"provision", "idle"}
  BY <1>1 DEF ApplyEdits, Goto, Joint, TypeOK, s
<1>3. \A x \in Party : /\ pc[x] \in {"idle", "sync", "provision"} \cup Ended
                       /\ pc'[x] \in {"idle", "sync", "provision"} \cup Ended
  BY <1>1, <1>2, Both
<1>4. \A x \in Party : /\ pc[x] \notin {"commit", "round0"} \cup Indexing
                       /\ pc'[x] \notin {"commit", "round0"} \cup Indexing
  BY <1>3 DEF Ended, Indexing
<1>5. /\ \A x \in Party : Working(x) = st[x] /\ Durable(x) = disk[x]
      /\ \A x \in Party : ~ Rebuilding(x) /\ ~ Resalted(x)
  BY <1>4 DEF Working, Durable, Rebuilding, Resalted
<1>6. /\ \A x \in Party : Working(x)' = st'[x] /\ Durable(x)' = disk'[x]
      /\ \A x \in Party : ~ Rebuilding(x)' /\ ~ Resalted(x)'
  BY <1>4 DEF Working, Durable, Rebuilding, Resalted
<1>7. Related(st["R"], st["S"])
  BY <1>1, <1>5 DEF InMemory, Related, Joint, JointInv
<1>8. st[p] \in States /\ st[q] \in States
  BY <1>1 DEF Joint, TypeOK
<1> HIDE DEF s
<1>9. /\ s.query_no = st[p].query_no /\ s.oracle_salt = st[p].oracle_salt
      /\ CoherentCaches(st[p], st[q]) => CoherentCaches(s, st[q])
      /\ CoherentCaches(st[q], st[p]) => CoherentCaches(st[q], s)
  BY <1>8, ApplyCoherent DEF s
<1>10. Related(st'["R"], st'["S"])
  BY <1>1, <1>2, <1>7, <1>9 DEF Related, Party, Peer
<1>11. InMemory'
  BY <1>1, <1>6, <1>10 DEF InMemory, Related
<1>12. OnDisk'
  BY <1>1, <1>2, <1>5, <1>6 DEF OnDisk, Joint, JointInv
<1> QED BY <1>11, <1>12

LEMMA EditsJoint ==
    ASSUME Joint, NEW p \in Party, pc[p] = "sync", ~ Failed(p),
           NEW untouched, NEW m \in Delivered(p, "sync", untouched),
           SameDay(m.day, Today(p)),
           NEW I \in SUBSET Id, NEW D \in SUBSET Id, ApplyEdits(p, I, D)
    PROVE  JointInv'
<1> DEFINE q == Peer(p)
<1>1. q \in Party /\ q # p /\ Peer(q) = p
  BY PeerIn
<1>2. /\ Places' /\ schedule["R"][day[p]] = schedule["S"][day[p]]
      /\ pc[q] \in {"idle", "sync", "provision"} \cup Ended
      /\ pc[q] = "idle" => answer[q] = NoAnswer
  BY EditsPlaces
<1>3. /\ pc'[q] = pc[q] /\ day'[q] = day[q]
      /\ pc'[p] = IF Today(p).query THEN "provision" ELSE "idle"
      /\ Today(p).query => day'[p] = day[p]
      /\ UNCHANGED <<disk, oracle, loc, pool, answer, why, crashes>>
      /\ UNCHANGED <<schedule, force, session, offline>>
  BY <1>1 DEF ApplyEdits, Goto, inputVars, Joint, TypeOK
<1>4. answer[p] = NoAnswer
  BY RunningStates DEF Answers, Ended, Joint, JointInv
<1>5. Decisions(p)' /\ Decisions(q)'
  <2>1. Decisions(p)'
    <3>1. Today(p).query => AgreedQuery(p)'
      BY <1>2, <1>3 DEF AgreedQuery, Today
    <3> QED BY <1>3, <3>1 DEF Decisions, Asked, Indexing
  <2>2. Decisions(q)'
    <3>1. pc[q] = "provision" => AgreedQuery(q)'
      BY <1>1, <1>3 DEF Decisions, Asked, AgreedQuery, Today, Joint, JointInv
    <3> QED BY <1>2, <1>3, <3>1 DEF Decisions, Asked, Indexing, Ended
  <2> QED BY <2>1, <2>2
<1>6. Provisions(p)' /\ Provisions(q)'
  <2>1. Provisions(p) /\ Provisions(q)
    BY <1>1 DEF Joint, JointInv
  <2>2. pool[p] = pool[q]
    BY <1>1, <1>2, <2>1 DEF Provisions, Refilled, Ended
  <2> QED BY <1>1, <1>2, <1>3, <2>2 DEF Provisions, Refilled, Indexing, Ended
<1>7. Settled(p)' /\ Settled(q)'
  BY <1>2, <1>3 DEF Settled, Ended
<1>8. Answers(p)' /\ Answers(q)'
  BY <1>1, <1>2, <1>3, <1>4 DEF Answers, Joint, JointInv
<1>9. Endings(p)' /\ Endings(q)'
  BY <1>1, <1>3 DEF Endings, LeftEarly, Joint, JointInv
<1>10. InMemory' /\ OnDisk'
  BY <1>2, EditsKin
<1> QED BY <1>2, <1>5, <1>6, <1>7, <1>8, <1>9, <1>10, Both DEF JointInv

LEMMA RecvSyncJoint ==
    ASSUME Joint, NEW p \in Party, RecvSync(p)
    PROVE  JointInv'
<1> DEFINE untouched == {[kind |-> "sync", day |-> NoDay]}
<1>1. pc[p] = "sync" /\ pc[p] \in Waiting /\ pc[p] \notin Ended
  BY RunningStates DEF RecvSync
<1>2. SaltMatches(st[p], oracle[p])
  BY <1>1 DEF SaltMatches, LocalInv, Joint
<1>3. PICK m \in Delivered(p, "sync", untouched) :
        \/ ~ SameDay(m.day, Today(p)) /\ Stop(p, "drift")
        \/ /\ SameDay(m.day, Today(p))
           /\ \E I, D \in SUBSET Id : ApplyEdits(p, I, D)
  BY <1>2 DEF RecvSync
<1> HIDE DEF untouched
<1>4. CASE ~ Failed(p)
  BY <1>1, <1>3, <1>4, DriftJoint, EditsJoint
<1>5. CASE Failed(p)
  <2>1. chan[p] = <<>>
    BY <1>5, OnlyTheLeftFail
  <2>2. m.day = NoDay
    BY <1>3, <2>1 DEF Delivered, Incoming, untouched
  <2>3. day[p] \in 1..Len(schedule[p]) /\ schedule[p] \in Seq(Day)
    <3>1. schedule[p] \in Schedules \cup {<<>>} /\ day[p] \in Nat \ {0}
      BY DEF Joint, TypeOK
    <3>2. <<>> \in Seq(Day) /\ Schedules \subseteq Seq(Day)
      BY SessionAssumption
    <3>3. schedule[p] \in Seq(Day)
      BY <3>1, <3>2
    <3>4. day[p] <= Len(schedule[p])
      BY <1>1 DEF Endings, Joint, JointInv
    <3> QED BY <3>1, <3>3, <3>4
  <2>4. Today(p) \in Day
    BY <2>3 DEF Today
  <2>5. Today(p).label # 0
    BY <2>4, SessionAssumption
  <2>6. Stop(p, "drift")
    BY <1>3, <2>2, <2>5 DEF SameDay, NoDay
  <2> QED BY <1>5, <2>6, LeftBehindJoint
<1> QED BY <1>4, <1>5

-------------------------------------------------------------------------------
(* Up to the joint evaluation.                                               *)

Before == {"provision", "salt", "round0", "jtilde", "supports"}

\* Both parties are in the same query when either gets its peer's next message.
LEMMA MidReceived ==
    ASSUME Joint, NEW p \in Party, pc[p] \in Before,
           NEW untouched, NEW m \in Delivered(p, pc[p], untouched)
    PROVE  /\ m \in Message /\ Says(Peer(p), pc[p], day[p], m)
           /\ chan[p] # <<>> /\ m = chan[p][1]
           /\ Rest(p) = Tail(chan[p])
           /\ day[Peer(p)] = day[p]
           /\ AgreedQuery(p)
           /\ pc[Peer(p)] \in Before \cup {"eval"}
           /\ \/ /\ pc[Peer(p)] = pc[p]
                 /\ OneFrom(p, pc[p], day[p]) /\ OneFrom(Peer(p), pc[p], day[p])
              \/ /\ <<pc[p], pc[Peer(p)]>> \in Leads
                 /\ Ahead(Peer(p)) /\ AheadBy(Peer(p), pc[p], pc[Peer(p)])
<1> DEFINE q == Peer(p)
<1>1. q \in Party /\ q # p /\ Peer(q) = p
  BY PeerIn
<1>2. pc[p] \in Waiting /\ pc[p] \notin Ended /\ pc[p] \notin {"sync", "open"}
  BY DEF Before, Waiting, Ended
<1>3. ~ Failed(p)
  BY <1>2, OnlyTheLeftFail
<1>4. /\ m \in Message /\ Says(q, pc[p], day[p], m)
      /\ chan[p] # <<>> /\ m = chan[p][1] /\ Rest(p) = Tail(chan[p])
      /\ Together \/ Ahead(q)
  BY <1>2, <1>3, Received
<1>5. AgreedQuery(p)
  BY DEF Joint, JointInv, Decisions, Before, Asked
<1>6. CASE Together
  <2>1. pc[q] = pc[p] /\ day[q] = day[p]
    BY <1>1, <1>6, Both DEF Together
  <2>2. OneFrom(p, pc[p], day[p]) /\ OneFrom(q, pc[p], day[p])
    BY <1>1, <1>2, <1>6, <2>1 DEF Together
  <2> QED BY <1>4, <1>5, <2>1, <2>2
<1>7. CASE Ahead(q)
  <2>1. <<pc[p], pc[q]>> \in Leads /\ day[q] = day[p] /\ AheadBy(q, pc[p], pc[q])
    BY <1>1, <1>7 DEF Ahead, DayLeads, Before
  <2>2. pc[q] \in Before \cup {"eval"}
    BY <2>1 DEF Leads, Before
  <2> QED BY <1>4, <1>5, <1>7, <2>1, <2>2
<1> QED BY <1>4, <1>6, <1>7

\* A party that takes the message it waits for and sends the next one.
LEMMA ReplyPlaces ==
    ASSUME Joint, NEW p \in Party, pc[p] \in Before,
           NEW untouched, NEW m \in Delivered(p, pc[p], untouched),
           NEW l \in {"salt", "round0", "jtilde", "supports"}, <<pc[p], l>> \in Leads,
           NEW n \in Message, Reply(p, n),
           pc'[p] = l, pc'[Peer(p)] = pc[Peer(p)], UNCHANGED day,
           \A d, x : x = n => Says(p, l, d, x)',
           pc[Peer(p)] = pc[p] =>
              \A k, d, x : k = pc[p] /\ Says(p, k, d, x) => Says(p, k, d, x)',
           pc[Peer(p)] # pc[p] =>
              /\ pc[Peer(p)] = l
              /\ \A d, x : Says(Peer(p), l, d, x) => Says(Peer(p), l, d, x)',
           <<pc[p], l>> = <<"provision", "round0">> => ~ loc'[p].forced
    PROVE  Places'
<1> DEFINE q == Peer(p)
<1>1. q \in Party /\ q # p /\ Peer(q) = p /\ chan \in Channels
  BY PeerIn DEF Joint, TypeOK, Channels
<1>2. pc[p] \in Waiting /\ l \in Waiting /\ l \notin Ended /\ l # "sync"
  BY DEF Before, Waiting, Ended
<1>3. /\ chan[p] # <<>> /\ day[q] = day[p]
      /\ \/ /\ pc[q] = pc[p] /\ OneFrom(p, pc[p], day[p]) /\ OneFrom(q, pc[p], day[p])
         \/ <<pc[p], pc[q]>> \in Leads /\ AheadBy(q, pc[p], pc[q])
  BY MidReceived
<1>4. /\ Len(chan'[p]) = Len(chan[p]) - 1
      /\ chan'[p] = <<>> <=> Len(chan[p]) = 1
      /\ \A i \in 1..(Len(chan[p]) - 1) : chan'[p][i] = chan[p][i + 1]
      /\ Len(chan'[q]) = Len(chan[q]) + 1
      /\ chan'[q][Len(chan[q]) + 1] = n
      /\ \A i \in 1..Len(chan[q]) : chan'[q][i] = chan[q][i]
  BY <1>1, <1>3, ReplyQueues
<1>5. \A d, x : x = n => Says(p, l, d, x)'
  OBVIOUS
<1>6. CASE pc[q] = pc[p]
  <2>1. /\ Len(chan[p]) = 1 /\ Len(chan[q]) = 1 /\ Says(p, pc[p], day[p], chan[q][1])
    <3>1. pc[p] # l
      BY DEF Leads
    <3>2. OneFrom(p, pc[p], day[p]) /\ OneFrom(q, pc[p], day[p])
      BY <1>1, <1>3, <1>6, <3>1 DEF Leads
    <3> QED BY <1>1, <3>2 DEF OneFrom
  <2>2. \A k, d, x : k = pc[p] /\ d = day[p] /\ x = chan[q][1] => Says(p, k, d, x)'
    BY <1>6, <2>1
  <2>3. TwoFrom(p, pc[q], day[q], l, day[p])'
    BY <1>1, <1>3, <1>4, <1>5, <1>6, <2>1, <2>2 DEF TwoFrom
  <2>4. AheadBy(p, pc[q], l)'
    BY <1>1, <1>2, <1>4, <1>6, <2>1, <2>3 DEF AheadBy, NoneFrom
  <2>5. Ahead(p)'
    BY <1>1, <1>2, <1>3, <1>6, <2>4 DEF Ahead, Leads
  <2> QED BY <2>5 DEF Places
<1>7. CASE pc[q] # pc[p]
  <2>1. pc[q] = l
    BY <1>7
  <2>2. chan[q] = <<>> /\ TwoFrom(q, pc[p], day[p], l, day[q])
    BY <1>1, <1>2, <1>3, <1>7, <2>1 DEF AheadBy, NoneFrom
  <2>3. Len(chan[p]) = 2 /\ Says(q, l, day[q], chan[p][2])
    BY <1>1, <2>2 DEF TwoFrom
  <2>4. \A d, x : d = day[q] /\ x = chan[p][2] => Says(q, l, d, x)'
    BY <1>7, <2>3
  <2>5. OneFrom(q, l, day[q])'
    BY <1>1, <1>3, <1>4, <2>3, <2>4 DEF OneFrom
  <2>6. OneFrom(p, l, day[p])'
    BY <1>1, <1>4, <1>5, <2>2 DEF OneFrom
  <2>7. pc'[p] = l /\ pc'[q] = l /\ day'[p] = day'[q]
    BY <1>3, <2>1
  <2>8. \A x \in Party : OneFrom(x, l, day[x])'
    BY <1>1, <2>5, <2>6, Both
  <2>9. Together'
    BY <1>1, <1>2, <2>7, <2>8, Both DEF Together
  <2> QED BY <2>9 DEF Places
<1> QED BY <1>6, <1>7

\* What such a step has nothing to do with.
LEMMA MidRest ==
    ASSUME Joint, NEW p \in Party, pc[p] \in Before,
           pc[Peer(p)] \in Before \cup {"eval"},
           pc'[p] \in Before \cup {"eval"}, pc'[Peer(p)] = pc[Peer(p)],
           UNCHANGED <<day, answer, why, schedule>>
    PROVE  \A x \in Party : Settled(x)' /\ Answers(x)' /\ Endings(x)'
<1> DEFINE q == Peer(p)
<1>1. \A x \in Party : /\ pc[x] \in Before \cup {"eval"}
                       /\ pc'[x] \in Before \cup {"eval"}
  BY Both
<1>2. \A x \in Party : /\ pc[x] \notin Ended \cup {"idle", "open", "sync"}
                       /\ pc'[x] \notin Ended \cup {"idle", "open", "sync"}
  BY <1>1 DEF Before, Ended
<1>3. \A x \in Party : answer[x] = NoAnswer /\ Endings(x)
  BY <1>2 DEF Joint, JointInv, Answers
<1> QED BY <1>2, <1>3 DEF Settled, Answers, Endings, LeftEarly, Ended

\* The parties agree on whether a query is a maintenance query.
LEMMA DueSame ==
    ASSUME Joint, NEW p \in Party, AgreedQuery(p),
           day[Peer(p)] = day[p],
           \A x \in Party : pc[x] # "commit"
    PROVE  /\ DueToday("R") = DueToday("S")
           /\ DueToday(Peer(p)) = DueToday(p)
           /\ st["R"].query_no = st["S"].query_no
<1>1. "R" \in Party /\ "S" \in Party
  BY DEF Party
<1>2. st["R"].query_no = st["S"].query_no
  BY <1>1 DEF Joint, JointInv, InMemory, Working
<1>3. day["R"] = day[p] /\ day["S"] = day[p]
  BY Both
<1>4. Today("R") = Today("S")
  BY <1>3 DEF AgreedQuery, Today
<1>5. DueToday("R") = DueToday("S")
  BY <1>2, <1>4 DEF DueToday, Due, Joint, SameFlags
<1> QED BY <1>2, <1>5, Both DEF Party, Peer

LEMMA TargetSame ==
    ASSUME TypeOK, NEW p \in Party
    PROVE  /\ Target = EvaluationTarget(st[p].my_size, st[Peer(p)].my_size)
           /\ Target \in Int
<1>1. st["R"].my_size \in Int /\ st["S"].my_size \in Int /\ UMax \in Nat
  BY ConstantsAssumption DEF TypeOK, States, Party
<1> QED BY <1>1 DEF Target, EvaluationTarget, Party, Peer

LEMMA RecvProvisionJoint ==
    ASSUME Joint, NEW p \in Party, RecvProvision(p)
    PROVE  JointInv'
<1> DEFINE q == Peer(p)
           untouched == [kind : {"provision"}, size : AnySize]
<1>1. q \in Party /\ q # p /\ Peer(q) = p /\ chan \in Channels
  BY PeerIn DEF Joint, TypeOK, Channels
<1>2. pc[p] = "provision" /\ pc[p] \in Before /\ pc[p] \notin Ended
  BY DEF RecvProvision, Before, Ended
<1>3. SaltMatches(st[p], oracle[p])
  BY <1>2 DEF SaltMatches, LocalInv, Joint
<1>4. PICK m \in Delivered(p, "provision", untouched) :
        /\ pool' = [pool EXCEPT ![p] =
                      IF @ >= EvaluationTarget(st[p].my_size, m.size) THEN @
                      ELSE EvaluationTarget(st[p].my_size, m.size)]
        /\ IF DueToday(p) THEN BeginRefresh(p) ELSE BeginQuery(p, st[p], FALSE)
        /\ UNCHANGED <<st, disk, oracle, day, answer, why, crashes>>
        /\ UNCHANGED inputVars
  BY <1>3 DEF RecvProvision, DueToday
<1> HIDE DEF untouched
<1>5. /\ Says(q, "provision", day[p], m)
      /\ day[q] = day[p] /\ AgreedQuery(p)
      /\ pc[q] \in Before \cup {"eval"}
      /\ \/ pc[q] = "provision"
         \/ <<"provision", pc[q]>> \in Leads /\ Ahead(q)
  BY <1>2, <1>4, MidReceived
<1>6. pc[q] \in {"provision", "salt", "round0"}
  BY <1>5 DEF Leads
<1>7. /\ pool'[p] = IF pool[p] >= Target THEN pool[p] ELSE Target
      /\ pool'[q] = pool[q]
  BY <1>1, <1>4, <1>5, TargetSame DEF Says, Joint, TypeOK
<1>8. /\ UNCHANGED <<st, disk, oracle, day, answer, why, crashes>>
      /\ UNCHANGED <<schedule, force, session, offline>>
  BY <1>4 DEF inputVars
<1>9. DueToday(q) = DueToday(p)
  BY <1>1, <1>2, <1>5, <1>6, DueSame, Both
<1>10. pc[q] # "provision" => (pc[q] = "salt" <=> DueToday(p))
  <2>1. pc[q] = "salt" => DueToday(q)
    BY <1>1 DEF Joint, JointInv, Decisions
  <2>2. pc[q] = "round0" => ~ DueToday(q)
    BY <1>1, <1>2, <1>5 DEF Joint, JointInv, Decisions, Ahead
  <2> QED BY <1>6, <1>9, <2>1, <2>2
<1>11. /\ pc'[q] = pc[q] /\ loc'[q] = loc[q]
       /\ IF DueToday(p)
          THEN /\ pc'[p] = "salt"
               /\ \E r \in Contribution \ {0} :
                     /\ Reply(p, [kind |-> "salt", r |-> r])
                     /\ loc'[p] = [NoLocals EXCEPT !.r = r]
          ELSE /\ pc'[p] = "round0"
               /\ Reply(p, [kind |-> "round0", size |-> st[p].my_size,
                            announce |-> Announces(st[p])])
               /\ loc'[p] = [NoLocals EXCEPT !.forced = FALSE]
  <2>1. /\ pc \in [Party -> Control] /\ loc \in [Party -> Locals]
    BY DEF Joint, TypeOK
  <2>2. CASE DueToday(p)
    <3>1. PICK r \in Contribution \ {0} :
            /\ Reply(p, [kind |-> "salt", r |-> r])
            /\ loc' = [loc EXCEPT ![p] = [NoLocals EXCEPT !.r = r]]
            /\ Goto(p, "salt")
      BY <1>4, <2>2 DEF BeginRefresh
    <3>2. /\ pc'[q] = pc[q] /\ loc'[q] = loc[q] /\ pc'[p] = "salt"
          /\ loc'[p] = [NoLocals EXCEPT !.r = r]
      BY <1>1, <2>1, <3>1 DEF Goto
    <3> QED BY <2>2, <3>1, <3>2
  <2>3. CASE ~ DueToday(p)
    BY <1>1, <1>4, <2>1, <2>3 DEF BeginQuery, Goto
  <2> QED BY <2>2, <2>3
<1>12. \A k, d, x : k = "provision" /\ Says(p, k, d, x) => Says(p, k, d, x)'
  BY <1>8 DEF Says
<1>13. Places'
  <2>1. CASE DueToday(p)
    <3>1. PICK r \in Contribution \ {0} :
            /\ Reply(p, [kind |-> "salt", r |-> r])
            /\ loc'[p] = [NoLocals EXCEPT !.r = r]
      BY <1>11, <2>1
    <3> DEFINE n == [kind |-> "salt", r |-> r]
    <3>2. n \in Message /\ n.kind = "salt" /\ n.r = r /\ loc'[p].r = r
      BY <3>1, MessageTypes DEF NoLocals
    <3>3. pc'[p] = "salt"
      BY <1>11, <2>1
    <3> HIDE DEF n
    <3>4. \A d, x : x = n => Says(p, "salt", d, x)'
      BY <3>2, <3>3 DEF Says
    <3>5. pc[q] # pc[p] => /\ pc[q] = "salt"
                           /\ \A d, x : Says(q, "salt", d, x) => Says(q, "salt", d, x)'
      BY <1>1, <1>2, <1>10, <1>11, <2>1 DEF Says
    <3>6. <<pc[p], "salt">> \in Leads
      BY <1>2 DEF Leads
    <3>7. Reply(p, n) /\ m \in Delivered(p, pc[p], untouched)
      BY <1>2, <1>4, <3>1 DEF n
    <3>8. pc[q] = pc[p] => \A k, d, x : k = pc[p] /\ Says(p, k, d, x) => Says(p, k, d, x)'
      BY <1>2, <1>12
    <3> QED BY <1>2, <1>8, <1>11, <3>2, <3>3, <3>4, <3>5, <3>6, <3>7, <3>8, ReplyPlaces
  <2>2. CASE ~ DueToday(p)
    <3> DEFINE n == [kind |-> "round0", size |-> st[p].my_size,
                     announce |-> Announces(st[p])]
    <3>1. /\ n \in Message /\ n.kind = "round0" /\ n.size = st[p].my_size
          /\ n.announce = Announces(st[p])
      <4>1. st[p].my_size \in Int /\ Announces(st[p]) \in BOOLEAN
        BY DEF Joint, TypeOK, States, Announces
      <4> QED BY <4>1, MessageTypes
    <3>2. Reply(p, n) /\ pc'[p] = "round0" /\ ~ loc'[p].forced
      BY <1>11, <2>2 DEF NoLocals
    <3> HIDE DEF n
    <3>4. \A d, x : x = n => Says(p, "round0", d, x)'
      BY <1>8, <3>1 DEF Says
    <3>5. pc[q] # pc[p] =>
            /\ pc[q] = "round0"
            /\ \A d, x : Says(q, "round0", d, x) => Says(q, "round0", d, x)'
      BY <1>1, <1>2, <1>6, <1>8, <1>10, <1>11, <2>2 DEF Says
    <3>6. <<pc[p], "round0">> \in Leads
      BY <1>2 DEF Leads
    <3>7. m \in Delivered(p, pc[p], untouched)
      BY <1>2, <1>4
    <3>8. pc[q] = pc[p] => \A k, d, x : k = pc[p] /\ Says(p, k, d, x) => Says(p, k, d, x)'
      BY <1>2, <1>12
    <3> QED BY <1>2, <1>8, <1>11, <3>1, <3>2, <3>4, <3>5, <3>6, <3>7, <3>8, ReplyPlaces
  <2> QED BY <2>1, <2>2
<1>14. Decisions(p)' /\ Decisions(q)'
  <2>1. AgreedQuery(p)' /\ DueToday(p)' = DueToday(p)
    BY <1>5, <1>8 DEF AgreedQuery, DueToday, Today
  <2>2. Decisions(p)'
    <3>1. CASE DueToday(p)
      <4>1. pc'[p] = "salt"
        BY <1>11, <3>1
      <4> QED BY <2>1, <3>1, <4>1 DEF Decisions, Indexing
    <3>2. CASE ~ DueToday(p)
      <4>1. pc'[p] = "round0" /\ loc'[p].forced = FALSE
        BY <1>11, <3>2 DEF NoLocals
      <4>2. DueToday(p) = FALSE
        BY <3>2 DEF DueToday, Due
      <4> QED BY <2>1, <4>1, <4>2 DEF Decisions, Indexing
    <3> QED BY <3>1, <3>2
  <2>3. Decisions(q)'
    BY <1>1, <1>6, <1>8, <1>11, SameDecisions DEF Joint, JointInv
  <2> QED BY <2>2, <2>3
<1>15. Provisions(p)' /\ Provisions(q)'
  <2>1. Provisions(p) /\ Provisions(q) /\ Target' = Target
    BY <1>1, <1>8 DEF Joint, JointInv, Target
  <2>2. pool[p] \in Int /\ pool[q] \in Int /\ Target \in Int
    BY <1>1, TargetSame DEF Joint, TypeOK
  <2>3. CASE pc[q] = "provision"
    <3>1. pool[p] = pool[q]
      BY <1>1, <1>2, <2>1, <2>3 DEF Provisions, Refilled
    <3> QED BY <1>1, <1>7, <1>11, <2>1, <2>2, <2>3, <3>1
            DEF Provisions, Refilled, Indexing
  <2>4. CASE pc[q] # "provision"
    <3>1. pool[q] = pool'[p] /\ pool[q] >= Target
      BY <1>1, <1>2, <1>6, <1>7, <2>1, <2>4 DEF Provisions, Refilled
    <3> QED BY <1>1, <1>6, <1>7, <1>11, <2>1, <2>2, <2>4, <3>1
            DEF Provisions, Refilled, Indexing
  <2> QED BY <2>3, <2>4
<1>16. \A x \in Party : Settled(x)' /\ Answers(x)' /\ Endings(x)'
  <2>1. pc'[p] \in Before \cup {"eval"}
    BY <1>11 DEF Before
  <2> QED BY <1>2, <1>5, <1>8, <1>11, <2>1, MidRest
<1>17. InMemory' /\ OnDisk'
  <2>1. \A x \in Party : pc'[x] # "commit" /\ pc[x] # "commit"
    BY <1>1, <1>2, <1>6, <1>11, Both
  <2>2. \A x \in Party : /\ Rebuilding(x) => Rebuilding(x)'
                         /\ Resalted(x) => Resalted(x)'
    BY <1>1, <1>2, <1>11, Both DEF Rebuilding, Resalted, Indexing
  <2> QED BY <1>8, <2>1, <2>2, SameKin DEF Joint, JointInv
<1> QED BY <1>13, <1>14, <1>15, <1>16, <1>17, Both DEF JointInv

\* The two contributions make the same salt, whoever hashes them.
LEMMA OneSalt ==
    ASSUME NEW p \in Party, NEW a, NEW b
    PROVE  RefreshedSalt(p, a, b) = RefreshedSalt(Peer(p), b, a)
<1>1. CASE p = "R"
  <2>1. Peer(p) # "R"
    BY <1>1 DEF Peer
  <2>2. RefreshedSalt(p, a, b) = Refreshed[a, b]
    BY <1>1, HashOrder, Zenon
  <2>3. RefreshedSalt(Peer(p), b, a) = Refreshed[a, b]
    BY <2>1, HashOrder, Zenon
  <2> QED BY <2>2, <2>3, Zenon
<1>2. CASE p = "S"
  <2>1. Peer(p) = "R" /\ p # "R"
    BY <1>2 DEF Peer
  <2>2. RefreshedSalt(p, a, b) = Refreshed[b, a]
    BY <2>1, HashOrder, Zenon
  <2>3. RefreshedSalt(Peer(p), b, a) = Refreshed[b, a]
    BY <2>1, HashOrder, Zenon
  <2> QED BY <2>2, <2>3, Zenon
<1> QED BY <1>1, <1>2 DEF Party

LEMMA RecvSaltJoint ==
    ASSUME Joint, NEW p \in Party, RecvSalt(p)
    PROVE  JointInv'
<1> DEFINE q == Peer(p)
           untouched == {[kind |-> "salt", r |-> 0]}
<1>1. q \in Party /\ q # p /\ Peer(q) = p /\ chan \in Channels
  BY PeerIn DEF Joint, TypeOK, Channels
<1>2. pc[p] = "salt" /\ pc[p] \in Before /\ pc[p] \notin Ended
  BY DEF RecvSalt, Before, Ended
<1>3. PICK m \in Delivered(p, "salt", untouched) :
        LET salt == RefreshedSalt(p, loc[p].r, m.r)
            s    == Rebuilt(st[p], salt)
        IN  /\ oracle' = [oracle EXCEPT ![p] = salt]
            /\ st' = [st EXCEPT ![p] = s]
            /\ BeginQuery(p, s, TRUE)
  BY DEF RecvSalt
<1> DEFINE salt == RefreshedSalt(p, loc[p].r, m.r)
           s    == Rebuilt(st[p], salt)
           n    == [kind |-> "round0", size |-> s.my_size, announce |-> Announces(s)]
<1> HIDE DEF untouched
<1>4. /\ m \in Message /\ Says(q, "salt", day[p], m)
      /\ day[q] = day[p] /\ AgreedQuery(p)
      /\ pc[q] \in Before \cup {"eval"}
      /\ \/ pc[q] = "salt"
         \/ <<"salt", pc[q]>> \in Leads /\ Ahead(q)
  BY <1>2, <1>3, MidReceived
<1>5. pc[q] \in {"salt", "round0"}
  BY <1>4 DEF Leads
<1>6. salt \in Salt /\ s \in States /\ Consistent(s)
  <2>1. m.r \in Contribution /\ loc[p].r \in Contribution
    BY <1>4, MessageFields DEF Says, Joint, TypeOK, Locals
  <2>2. salt \in Salt
    BY <2>1, SaltFromBoth
  <2>3. s \in States
    BY <2>2, RebuiltType DEF Joint, TypeOK
  <2>4. Consistent(s)
    BY RebuiltSound DEF Joint, LocalInv, Sound
  <2> QED BY <2>2, <2>3, <2>4
<1>7. /\ s.query_no = st[p].query_no /\ s.my_size = st[p].my_size
      /\ s.oracle_salt = salt
  BY DEF Rebuilt, Joint, TypeOK, States
<1> HIDE DEF salt, s
<1>8. /\ n \in Message /\ n.kind = "round0" /\ n.size = s.my_size
      /\ n.announce = Announces(s)
  <2>1. s.my_size \in Int /\ Announces(s) \in BOOLEAN
    BY <1>6 DEF States, Announces
  <2> QED BY <2>1, MessageTypes
<1>9. /\ pc'[p] = "round0" /\ pc'[q] = pc[q]
      /\ st'[p] = s /\ st'[q] = st[q]
      /\ oracle'[p] = salt /\ oracle'[q] = oracle[q]
      /\ loc'[p].forced = TRUE /\ loc'[q] = loc[q]
      /\ Reply(p, n)
      /\ UNCHANGED <<disk, pool, day, answer, why, crashes>>
      /\ UNCHANGED <<schedule, force, session, offline>>
  <2>1. /\ oracle' = [oracle EXCEPT ![p] = salt]
        /\ st' = [st EXCEPT ![p] = s]
        /\ Reply(p, n)
        /\ loc' = [loc EXCEPT ![p] = [NoLocals EXCEPT !.forced = TRUE]]
        /\ Goto(p, "round0")
    BY <1>3 DEF BeginQuery, s, salt, n
  <2>2. [NoLocals EXCEPT !.forced = TRUE].forced = TRUE
    BY DEF NoLocals
  <2>3. UNCHANGED <<disk, pool, day, answer, why, crashes>> /\ UNCHANGED inputVars
    BY DEF RecvSalt
  <2> HIDE DEF n
  <2> QED BY <1>1, <2>1, <2>2, <2>3 DEF Goto, inputVars, Joint, TypeOK
<1> HIDE DEF n
<1>10. Places'
  <2>1. \A d, x : x = n => Says(p, "round0", d, x)'
    BY <1>8, <1>9 DEF Says
  <2>2. pc[q] = pc[p] =>
          \A k, d, x : k = pc[p] /\ Says(p, k, d, x) => Says(p, k, d, x)'
    <3>1. SUFFICES ASSUME pc[q] = pc[p], NEW d, NEW x, Says(p, "salt", d, x)
                   PROVE  Says(p, "salt", d, x)'
      BY <1>2
    <3>2. x.kind = "salt" /\ x.r = loc[p].r /\ m.r = loc[q].r
      BY <1>1, <1>2, <1>4, <3>1 DEF Says
    <3>3. oracle'[p] = RefreshedSalt(q, loc'[q].r, x.r)
      BY <1>9, <3>2, OneSalt DEF salt
    <3> QED BY <1>1, <1>9, <3>2, <3>3 DEF Says
  <2>3. pc[q] # pc[p] =>
          /\ pc[q] = "round0"
          /\ \A d, x : Says(q, "round0", d, x) => Says(q, "round0", d, x)'
    BY <1>1, <1>2, <1>5, <1>9 DEF Says
  <2>4. <<pc[p], "round0">> \in Leads
    BY <1>2 DEF Leads
  <2>5. m \in Delivered(p, pc[p], untouched)
    BY <1>2, <1>3
  <2> QED BY <1>2, <1>8, <1>9, <2>1, <2>2, <2>3, <2>4, <2>5, ReplyPlaces
<1>11. Decisions(p)' /\ Decisions(q)'
  <2>1. AgreedQuery(p)' /\ AgreedQuery(q)'
    BY <1>1, <1>4, <1>9 DEF AgreedQuery, Today, Party
  <2>2. DueToday(p)' = DueToday(p) /\ DueToday(q)' = DueToday(q)
    BY <1>1, <1>7, <1>9 DEF DueToday, Today
  <2>3. DueToday(p) = TRUE
    BY <1>2 DEF Decisions, DueToday, Due, Joint, JointInv
  <2>4. Decisions(p)'
    BY <1>9, <2>1, <2>2, <2>3 DEF Decisions, Indexing
  <2>5. /\ pc[q] = "salt" => DueToday(q)
        /\ pc[q] = "round0" => loc[q].forced = DueToday(q)
    BY <1>1 DEF Decisions, Joint, JointInv
  <2>6. Decisions(q)'
    BY <1>5, <1>9, <2>1, <2>2, <2>5 DEF Decisions, Indexing
  <2> QED BY <2>4, <2>6
<1>12. Provisions(p)' /\ Provisions(q)'
  <2>1. Provisions(p) /\ Provisions(q)
    BY <1>1 DEF Joint, JointInv
  <2>2. Target' = Target
    BY <1>7, <1>9 DEF Target, Party, Peer
  <2>3. pool[p] = pool[q] /\ pool[p] >= Target /\ pool[q] >= Target
    BY <1>1, <1>2, <1>5, <2>1 DEF Provisions, Refilled
  <2> QED BY <1>1, <1>5, <1>9, <2>2, <2>3 DEF Provisions, Refilled
<1>13. \A x \in Party : Settled(x)' /\ Answers(x)' /\ Endings(x)'
  <2>1. pc'[p] \in Before \cup {"eval"}
    BY <1>9 DEF Before
  <2> QED BY <1>2, <1>4, <1>9, <2>1, MidRest
<1>14. \A x \in Party : /\ pc[x] # "commit" /\ pc'[x] # "commit"
  BY <1>1, <1>2, <1>5, <1>9, Both
<1>15. InMemory'
  <2>1. \A x \in Party : Working(x)' = st'[x] /\ Working(x) = st[x]
    BY <1>14 DEF Working
  <2>2. st'["R"].query_no = st'["S"].query_no
    <3>1. st["R"].query_no = st["S"].query_no
      BY <2>1 DEF Joint, JointInv, InMemory, Party
    <3> QED BY <1>7, <1>9, <3>1 DEF Party, Peer
  <2>3. pc[q] = "round0" => st'[p].oracle_salt = st'[q].oracle_salt
    <3>1. SUFFICES ASSUME pc[q] = "round0" PROVE salt = st[q].oracle_salt
      BY <1>7, <1>9
    <3>2. oracle[q] = salt
      BY <1>1, <1>4, <3>1 DEF Says, salt
    <3>3. oracle[q] = st[q].oracle_salt
      BY <1>1, <3>1 DEF Joint, LocalInv, Ended
    <3> QED BY <3>2, <3>3
  <2>4. (\A x \in Party : ~ Resalted(x)') => pc[q] = "round0"
    BY <1>5, <1>9 DEF Resalted
  <2>5. Rebuilding(p)'
    BY <1>9 DEF Rebuilding
  <2> QED BY <2>1, <2>2, <2>3, <2>4, <2>5 DEF InMemory, Party, Peer
<1>16. OnDisk'
  <2>1. \A x \in Party : Durable(x)' = disk'[x] /\ Durable(x) = disk[x]
    BY <1>14 DEF Durable
  <2>2. disk' = disk
    BY <1>9
  <2> QED BY <2>1, <2>2 DEF Joint, JointInv, OnDisk, Party
<1> QED BY <1>10, <1>11, <1>12, <1>13, <1>15, <1>16, Both DEF JointInv

\* The supports are no more than the ids, and no more than the buckets.
LEMMA OccupiedFew ==
    ASSUME NEW s \in States, Consistent(s)
    PROVE  /\ IsFiniteSet(Occupied(s)) /\ Occupied(s) \subseteq Index
           /\ Cardinality(Occupied(s)) \in Nat
           /\ Cardinality(Occupied(s)) <= CapM(s.my_size)
<1> DEFINE o == Oracle[s.oracle_salt]
           B == BucketsOf(s.my_ids, s.oracle_salt)
           g == [x \in s.my_ids |-> o[x]]
<1>1. s.my_ids \subseteq Id /\ o \in [Id -> Bucket] /\ M \in Nat
  BY ConstantsAssumption DEF States
<1>2. IsFiniteSet(s.my_ids)
  BY <1>1, SetSize
<1>3. B = {o[x] : x \in s.my_ids} /\ B \subseteq Bucket
  BY <1>1 DEF BucketsOf
<1>4. g \in Surjection(s.my_ids, B)
  BY <1>3 DEF Surjection
<1> HIDE DEF g, B
<1>5. IsFiniteSet(B) /\ Cardinality(B) <= s.my_size
  BY <1>2, <1>4, FS_Surjection DEF Consistent
<1>6. IsFiniteSet(Bucket) /\ Cardinality(Bucket) = M
  BY <1>1, FS_Interval, ConstantsAssumption DEF Bucket
<1>7. Cardinality(B) <= M
  BY <1>3, <1>6, FS_Subset
<1>8. Occupied(s) \subseteq B
  <2>1. SUFFICES ASSUME NEW b \in Index, b \notin B PROVE s.table[b] = ZeroRow
    BY DEF Occupied, States
  <2>2. \A x \in Id : ~ (x \in s.my_ids /\ Oracle[s.oracle_salt][x] = b)
    BY <1>3, <2>1
  <2> QED BY <2>2 DEF Consistent, TableOf, ZeroRow
<1>9. /\ IsFiniteSet(Occupied(s)) /\ Cardinality(Occupied(s)) <= Cardinality(B)
      /\ Cardinality(Occupied(s)) \in Nat /\ Cardinality(B) \in Nat
  BY <1>5, <1>8, FS_Subset, FS_CardinalityType
<1>10. s.my_size \in Int
  BY DEF States
<1> QED BY <1>1, <1>3, <1>5, <1>7, <1>8, <1>9, <1>10 DEF CapM, Bucket, Index

LEMMA PaddedSet ==
    ASSUME NEW S \in SUBSET Index, NEW k \in Int, NEW pad \in Pads(k - Cardinality(S), S)
    PROVE  /\ S \cup pad \in SUBSET Index
           /\ Cardinality(S \cup pad) = k
<1>1. IsFiniteSet(S) /\ pad \subseteq Index /\ IsFiniteSet(pad) /\ S \cap pad = {}
  BY PadsIn, IndexFinite
<1>2. Cardinality(pad) = k - Cardinality(S)
  BY PadsIn
<1>3. /\ Cardinality(S) \in Nat
      /\ Cardinality(S \cup pad) = Cardinality(S) + Cardinality(pad)
  BY <1>1, DisjointUnion
<1> QED BY <1>1, <1>2, <1>3

\* Both parties decide alike, on one's own and the other's numbers.
LEMMA SamePath ==
    ASSUME Joint, NEW p \in Party, pc[p] = "round0", AgreedQuery(p),
           day[Peer(p)] = day[p], \A x \in Party : pc[x] # "commit"
    PROVE  FullPath <=> \/ loc[p].forced
                        \/ Decide(st[p].my_size, st[Peer(p)].my_size, Announces(st[p]),
                                  st[p].query_no = 0, Announces(st[Peer(p)])) = "full"
<1> DEFINE q == Peer(p)
<1>1. /\ DueToday("R") = DueToday("S") /\ DueToday(q) = DueToday(p)
      /\ st["R"].query_no = st["S"].query_no
  BY DueSame
<1>2. loc[p].forced = DueToday(p)
  BY DEF Joint, JointInv, Decisions
<1>3. (\E x \in Party : DueToday(x)) <=> DueToday(p)
  BY <1>1, Both
<1>4. \A x \in Party : CapM(st[x].my_size) \in Int
  BY ConstantsAssumption DEF CapM, Joint, TypeOK, States
<1>5. CapM(st["R"].my_size) + CapM(st["S"].my_size)
        = CapM(st[p].my_size) + CapM(st[q].my_size)
  BY <1>4 DEF Party, Peer
<1>6. (Announces(st["R"]) \/ Announces(st["S"])) <=> (Announces(st[p]) \/ Announces(st[q]))
  BY DEF Party, Peer
<1>7. st["R"].query_no = st[p].query_no
  BY <1>1 DEF Party
<1> QED BY <1>2, <1>3, <1>5, <1>6, <1>7 DEF FullPath, Decide

PaddedTo(p, set) ==
    IF FullPath
    THEN Occupied(st[p]) \subseteq set /\ Cardinality(set) = CapM(st[p].my_size)
    ELSE st[p].J \subseteq set /\ Cardinality(set) = UMax

LEMMA PublishJoint ==
    ASSUME Joint, NEW p \in Party, pc[p] = "round0",
           NEW untouched, NEW m \in Delivered(p, "round0", untouched),
           NEW kind, NEW path,
           IF FullPath THEN kind = "supports" /\ path = "full"
                       ELSE kind = "jtilde" /\ path = "incremental",
           NEW set \in SUBSET Index, PaddedTo(p, set),
           Publish(p, kind, path, m.size, set)
    PROVE  JointInv'
<1> DEFINE q == Peer(p)
           n == [kind |-> kind, set |-> set]
<1>1. q \in Party /\ q # p /\ Peer(q) = p /\ chan \in Channels
  BY PeerIn DEF Joint, TypeOK, Channels
<1>2. pc[p] \in Before /\ kind \in {"jtilde", "supports"}
  BY DEF Before
<1>3. m \in Delivered(p, pc[p], untouched)
  OBVIOUS
<1>4. /\ Says(q, "round0", day[p], m)
      /\ day[q] = day[p] /\ AgreedQuery(p)
      /\ pc[q] \in Before \cup {"eval"}
      /\ \/ pc[q] = "round0"
         \/ <<"round0", pc[q]>> \in Leads
  BY <1>2, <1>3, MidReceived
<1>5. pc[q] \in {"round0", "jtilde", "supports"}
  BY <1>4 DEF Leads
<1>6. m.size = st[q].my_size
  BY <1>1, <1>4 DEF Says
<1>7. n \in Message /\ n.kind = kind /\ n.set = set
  BY <1>2, MessageTypes
<1>8. /\ pc'[p] = kind /\ pc'[q] = pc[q] /\ loc'[q] = loc[q]
      /\ Reply(p, n)
      /\ UNCHANGED <<st, disk, oracle, pool, day, answer, why, crashes>>
      /\ UNCHANGED <<schedule, force, session, offline>>
  BY <1>1 DEF Publish, Goto, inputVars, Joint, TypeOK
<1>9. /\ loc'[p].peer_size = m.size /\ loc'[p].path = path /\ loc'[p].mine = set
      /\ loc'[p].forced = loc[p].forced
  BY DEF Publish, Joint, TypeOK, Locals
<1> HIDE DEF n
<1>10. pc[q] # "round0" => pc[q] = kind
  <2>1. /\ pc[q] = "jtilde" => ~ FullPath
        /\ pc[q] = "supports" => FullPath
    BY <1>1 DEF Joint, JointInv, Decisions
  <2> QED BY <1>5, <2>1
<1>11. Places'
  <2>1. \A d, x : x = n => Says(p, kind, d, x)'
    BY <1>2, <1>7, <1>8, <1>9 DEF Says
  <2>2. pc[q] = pc[p] =>
          \A k, d, x : k = pc[p] /\ Says(p, k, d, x) => Says(p, k, d, x)'
    BY <1>8 DEF Says
  <2>3. pc[q] # pc[p] =>
          /\ pc[q] = kind
          /\ \A d, x : Says(q, kind, d, x) => Says(q, kind, d, x)'
    BY <1>2, <1>8, <1>10 DEF Says
  <2>4. <<pc[p], kind>> \in Leads
    BY <1>2 DEF Leads
  <2>5. /\ <<pc[p], kind>> # <<"provision", "round0">>
        /\ kind \in {"salt", "round0", "jtilde", "supports"}
    BY <1>2
  <2>6. Reply(p, n) /\ pc'[p] = kind /\ pc'[q] = pc[q] /\ UNCHANGED day
    BY <1>8
  <2> QED BY <1>2, <1>3, <1>7, <2>1, <2>2, <2>3, <2>4, <2>5, <2>6, ReplyPlaces
<1>12. Decisions(p)' /\ Decisions(q)'
  <2>1. AgreedQuery(p)' /\ DueToday(p)' = DueToday(p) /\ FullPath' = FullPath
    BY <1>4, <1>8 DEF AgreedQuery, DueToday, Today, FullPath
  <2>2. loc'[p].forced = DueToday(p)'
    BY <1>9, <2>1 DEF Joint, JointInv, Decisions
  <2>3. Padded(p)'
    BY <1>8, <1>9, <2>1 DEF Padded, PaddedTo
  <2>4. loc'[p].peer_size = st'[q].my_size
    BY <1>6, <1>8, <1>9
  <2>5. loc'[p].path = IF FullPath' THEN "full" ELSE "incremental"
    BY <1>9, <2>1
  <2>6. (kind = "jtilde" => ~ FullPath') /\ (kind = "supports" => FullPath')
    BY <2>1
  <2>7. Decisions(p)'
    BY <1>2, <1>8, <2>1, <2>2, <2>3, <2>4, <2>5, <2>6 DEF Decisions
  <2>8. Decisions(q)'
    BY <1>1, <1>5, <1>8, SameDecisions DEF Joint, JointInv
  <2> QED BY <2>7, <2>8
<1>13. Provisions(p)' /\ Provisions(q)'
  <2>1. Provisions(p) /\ Provisions(q) /\ Target' = Target
    BY <1>1, <1>8 DEF Joint, JointInv, Target
  <2> QED BY <1>1, <1>2, <1>5, <1>8, <2>1 DEF Provisions, Refilled, Indexing
<1>14. \A x \in Party : Settled(x)' /\ Answers(x)' /\ Endings(x)'
  <2>1. pc'[p] \in Before \cup {"eval"}
    BY <1>2, <1>8 DEF Before
  <2> QED BY <1>2, <1>4, <1>8, <2>1, MidRest
<1>15. InMemory' /\ OnDisk'
  <2>1. \A x \in Party : pc'[x] # "commit" /\ pc[x] # "commit"
    BY <1>1, <1>2, <1>5, <1>8, Both
  <2>2. \A x \in Party : /\ Rebuilding(x) => Rebuilding(x)'
                         /\ Resalted(x) => Resalted(x)'
    BY <1>1, <1>2, <1>5, <1>8, <1>9, Both DEF Rebuilding, Resalted, Indexing
  <2> QED BY <1>8, <2>1, <2>2, SameKin DEF Joint, JointInv
<1> QED BY <1>11, <1>12, <1>13, <1>14, <1>15, Both DEF JointInv

LEMMA RecvRound0Joint ==
    ASSUME Joint, NEW p \in Party, RecvRound0(p)
    PROVE  JointInv'
<1> DEFINE q == Peer(p)
           untouched == [kind : {"round0"}, size : AnySize, announce : BOOLEAN]
<1>1. q \in Party /\ q # p /\ Peer(q) = p
  BY PeerIn
<1>2. pc[p] = "round0" /\ pc[p] \in Before
  BY DEF RecvRound0, Before
<1>3. PICK m \in Delivered(p, "round0", untouched) :
        IF \/ loc[p].forced
           \/ Decide(st[p].my_size, m.size, Announces(st[p]),
                     st[p].query_no = 0, m.announce) = "full"
        THEN PublishSupports(p, m.size)
        ELSE PublishDirty(p, m.size)
  BY DEF RecvRound0
<1> HIDE DEF untouched
<1>4. /\ Says(q, "round0", day[p], m)
      /\ day[q] = day[p] /\ AgreedQuery(p)
      /\ pc[q] = "round0" \/ <<"round0", pc[q]>> \in Leads
  <2>1. m \in Delivered(p, pc[p], untouched)
    BY <1>2, <1>3
  <2>2. /\ Says(q, pc[p], day[p], m)
        /\ day[q] = day[p] /\ AgreedQuery(p)
        /\ pc[q] = pc[p] \/ <<pc[p], pc[q]>> \in Leads
    BY <1>2, <2>1, MidReceived
  <2> QED BY <1>2, <2>2
<1>5. m.size = st[q].my_size /\ m.announce = Announces(st[q])
  BY <1>1, <1>4 DEF Says
<1>6. \A x \in Party : pc[x] # "commit"
  BY <1>1, <1>2, <1>4, Both DEF Leads
<1>7. IF FullPath THEN PublishSupports(p, m.size) ELSE PublishDirty(p, m.size)
  BY <1>2, <1>3, <1>4, <1>5, <1>6, SamePath
<1>8. st[p] \in States /\ Consistent(st[p])
  BY DEF Joint, TypeOK, LocalInv, Sound
<1>9. CASE FullPath
  <2> DEFINE occupied == Occupied(st[p])
             target == CapM(st[p].my_size)
  <2>1. /\ occupied \in SUBSET Index /\ Cardinality(occupied) \in Nat
        /\ Cardinality(occupied) <= target
    BY <1>8, OccupiedFew
  <2>2. target \in Int
    BY <1>8, ConstantsAssumption DEF CapM, States
  <2>3. PICK pad \in Pads(target - Cardinality(occupied), occupied) :
          Publish(p, "supports", "full", m.size, occupied \cup pad)
    <3>1. ~ (Cardinality(occupied) > target)
      BY <2>1, <2>2
    <3>2. PublishSupports(p, m.size)
      BY <1>7, <1>9
    <3> QED BY <3>1, <3>2 DEF PublishSupports
  <2> HIDE DEF occupied, target
  <2>4. occupied \cup pad \in SUBSET Index /\ Cardinality(occupied \cup pad) = target
    BY <2>1, <2>2, <2>3, PaddedSet
  <2>5. PaddedTo(p, occupied \cup pad)
    BY <1>9, <2>4 DEF PaddedTo, occupied, target
  <2> QED BY <1>2, <1>3, <1>9, <2>3, <2>4, <2>5, PublishJoint
<1>10. CASE ~ FullPath
  <2> DEFINE dirty == st[p].J
  <2>1. dirty \in SUBSET Index /\ Cardinality(dirty) \in Nat
    BY <1>8, IndexFinite, FS_CardinalityType DEF States
  <2>2. UMax \in Nat /\ UMax \in Int
    BY ConstantsAssumption
  <2>3. Cardinality(dirty) <= UMax
    <3>1. ~ Announces(st[p])
      BY <1>10 DEF FullPath, Decide, Party
    <3> QED BY <2>1, <2>2, <3>1 DEF Announces
  <2>4. PICK pad \in Pads(UMax - Cardinality(dirty), dirty) :
          Publish(p, "jtilde", "incremental", m.size, dirty \cup pad)
    BY <1>7, <1>10, <2>1, <2>2, <2>3 DEF PublishDirty
  <2> HIDE DEF dirty
  <2>5. dirty \cup pad \in SUBSET Index /\ Cardinality(dirty \cup pad) = UMax
    BY <2>1, <2>2, <2>4, PaddedSet
  <2>6. PaddedTo(p, dirty \cup pad)
    BY <1>10, <2>5 DEF PaddedTo, dirty
  <2> QED BY <1>2, <1>3, <1>10, <2>4, <2>5, <2>6, PublishJoint
<1> QED BY <1>9, <1>10

\* The pools last for the buckets of both parties (query.cpp:79-87, 309-342).
LEMMA EnoughInThePool ==
    ASSUME Joint, \A x \in Party : pc[x] \in Indexing
    PROVE  \A x \in Party : Cardinality(loc["R"].mine \cup loc["S"].mine) <= pool[x]
<1> DEFINE A == loc["R"].mine
           B == loc["S"].mine
<1>1. "R" \in Party /\ "S" \in Party
  BY DEF Party
<1>2. Padded("R") /\ Padded("S") /\ \A x \in Party : pool[x] >= Target
  BY <1>1 DEF Joint, JointInv, Decisions, Provisions
<1>3. IsFiniteSet(A) /\ IsFiniteSet(B)
  BY <1>2, IndexFinite DEF Padded
<1> HIDE DEF A, B
<1>4. /\ Cardinality(A \cup B) = Cardinality(A) + Cardinality(B) - Cardinality(A \cap B)
      /\ IsFiniteSet(A \cap B) /\ IsFiniteSet(A \cup B)
  BY <1>3, FS_Union, FS_Subset
<1>5. /\ Cardinality(A) \in Nat /\ Cardinality(B) \in Nat
      /\ Cardinality(A \cap B) \in Nat /\ Cardinality(A \cup B) \in Nat
  BY <1>3, <1>4, FS_CardinalityType
<1>6. Cardinality(A) + Cardinality(B) <= Target
  <2>1. /\ st["R"].my_size \in Int /\ st["S"].my_size \in Int
        /\ UMax \in Nat /\ M \in Nat
    BY <1>1, ConstantsAssumption DEF Joint, TypeOK, States
  <2>2. CASE FullPath
    <3>1. Cardinality(A) = CapM(st["R"].my_size) /\ Cardinality(B) = CapM(st["S"].my_size)
      BY <1>2, <2>2 DEF Padded, A, B
    <3> QED BY <2>1, <3>1 DEF CapM, Target, EvaluationTarget
  <2>3. CASE ~ FullPath
    <3>1. Cardinality(A) = UMax /\ Cardinality(B) = UMax
      BY <1>2, <2>3 DEF Padded, A, B
    <3> QED BY <2>1, <3>1 DEF Target, EvaluationTarget
  <2> QED BY <2>2, <2>3
<1>7. Cardinality(A \cup B) <= Target
  BY <1>4, <1>5, <1>6, <1>1, TargetSame DEF Joint
<1>8. Target \in Int /\ \A x \in Party : pool[x] \in Int
  BY <1>1, TargetSame DEF Joint, TypeOK
<1> QED BY <1>2, <1>5, <1>7, <1>8 DEF A, B

LEMMA RecvIndicesJoint ==
    ASSUME Joint, NEW p \in Party, RecvIndices(p)
    PROVE  JointInv'
<1> DEFINE q == Peer(p)
           untouched == EmptyIndices(pc[p])
           all == loc["R"].mine \cup loc["S"].mine
<1>1. q \in Party /\ q # p /\ Peer(q) = p /\ chan \in Channels
  BY PeerIn DEF Joint, TypeOK, Channels
<1>2. pc[p] \in {"jtilde", "supports"} /\ pc[p] \in Before /\ pc[p] \in Indexing
  BY DEF RecvIndices, Before, Indexing
<1>3. PICK m \in Delivered(p, pc[p], untouched) :
         LET betas == loc[p].mine \cup m.set IN
         IF /\ pc[p] = "supports"
            /\ Cardinality(m.set) # CapM(loc[p].peer_size)
         THEN Stop(p, "length")
         ELSE IF pool[p] < Cardinality(betas) THEN Stop(p, "exhausted")
         ELSE /\ Consume(p)
              /\ loc' = [loc EXCEPT ![p].betas = betas]
              /\ Goto(p, "eval")
              /\ UNCHANGED <<st, disk, oracle, pool, day, answer, why, crashes>>
              /\ UNCHANGED inputVars
  BY DEF RecvIndices
<1> HIDE DEF untouched
<1>4. /\ Says(q, pc[p], day[p], m) /\ chan[p] # <<>>
      /\ day[q] = day[p] /\ AgreedQuery(p)
      /\ pc[q] \in Before \cup {"eval"}
      /\ \/ pc[q] = pc[p] /\ OneFrom(p, pc[p], day[p]) /\ OneFrom(q, pc[p], day[p])
         \/ <<pc[p], pc[q]>> \in Leads /\ AheadBy(q, pc[p], pc[q])
  BY <1>2, <1>3, MidReceived
<1>5. pc[q] \in {pc[p], "eval"} /\ pc[q] \in Indexing
  BY <1>2, <1>4 DEF Leads, Indexing
<1>6. m.set = loc[q].mine /\ loc[p].mine \cup m.set = all
  BY <1>1, <1>2, <1>4 DEF Says, Party, Peer
<1>7. ~ (pc[p] = "supports" /\ Cardinality(m.set) # CapM(loc[p].peer_size))
  <2>1. SUFFICES ASSUME pc[p] = "supports"
                 PROVE  Cardinality(m.set) = CapM(loc[p].peer_size)
    OBVIOUS
  <2>2. FullPath /\ loc[p].peer_size = st[q].my_size
    BY <1>2, <2>1 DEF Joint, JointInv, Decisions
  <2>3. Padded(q)
    BY <1>1, <1>5 DEF Joint, JointInv, Decisions
  <2> QED BY <1>6, <2>2, <2>3 DEF Padded
<1>8. ~ (pool[p] < Cardinality(all))
  <2>1. \A x \in Party : pc[x] \in Indexing
    BY <1>2, <1>5, Both
  <2>2. Cardinality(all) <= pool[p]
    BY <2>1, EnoughInThePool
  <2>3. pool[p] \in Int /\ Cardinality(all) \in Int
    <3>1. all \subseteq Index
      BY DEF Joint, TypeOK, Locals, Party
    <3> QED BY <3>1, IndexFinite, FS_CardinalityType DEF Joint, TypeOK
  <2> QED BY <2>2, <2>3
<1> HIDE DEF all
<1>9. /\ Consume(p)
      /\ loc' = [loc EXCEPT ![p].betas = all]
      /\ Goto(p, "eval")
      /\ UNCHANGED <<st, disk, oracle, pool, day, answer, why, crashes>>
      /\ UNCHANGED <<schedule, force, session, offline>>
  BY <1>3, <1>6, <1>7, <1>8 DEF inputVars
<1>10. /\ pc'[p] = "eval" /\ pc'[q] = pc[q] /\ loc'[q] = loc[q]
       /\ loc'[p].betas = all /\ loc'[p].mine = loc[p].mine
       /\ loc'[p].forced = loc[p].forced /\ loc'[p].path = loc[p].path
       /\ loc'[p].peer_size = loc[p].peer_size
  <2>1. pc \in [Party -> Control] /\ loc \in [Party -> Locals] /\ loc[p] \in Locals
    BY DEF Joint, TypeOK
  <2>2. loc'[p] = [loc[p] EXCEPT !.betas = all] /\ loc'[q] = loc[q]
    BY <1>1, <1>9, <2>1
  <2>3. pc'[p] = "eval" /\ pc'[q] = pc[q]
    BY <1>1, <1>9, <2>1 DEF Goto
  <2> QED BY <2>1, <2>2, <2>3 DEF Locals
<1>11. all = loc'["R"].mine \cup loc'["S"].mine
  BY <1>10 DEF all, Party, Peer
<1>12. Places'
  <2>1. /\ chan'[q] = chan[q] /\ Len(chan'[p]) = Len(chan[p]) - 1
        /\ chan'[p] = <<>> <=> Len(chan[p]) = 1
    BY <1>1, <1>4, <1>9, ConsumeQueues
  <2>2. \A k, d, x : k = pc[p] /\ Says(p, k, d, x) => Says(p, k, d, x)'
    BY <1>2, <1>9, <1>10 DEF Says
  <2>3. CASE pc[q] = pc[p]
    <3>1. OneFrom(p, pc[p], day[p]) /\ OneFrom(q, pc[p], day[p])
      BY <1>2, <1>4, <2>3 DEF Leads
    <3>2. \A k, d : k = pc[p] /\ OneFrom(p, k, d) => OneFrom(p, k, d)'
      BY <1>1, <2>1, <2>2 DEF OneFrom
    <3>3. OneFrom(p, pc[q], day[q])'
      BY <1>4, <1>9, <1>10, <2>3, <3>1, <3>2
    <3>4. chan'[p] = <<>>
      BY <1>1, <2>1, <3>1 DEF OneFrom
    <3>5. AheadBy(p, pc[q], "eval")'
      BY <1>1, <1>2, <1>10, <2>3, <3>3, <3>4 DEF AheadBy, NoneFrom, Waiting
    <3>6. Ahead(p)'
      BY <1>1, <1>2, <1>4, <1>9, <1>10, <2>3, <3>5 DEF Ahead, Leads
    <3> QED BY <3>6 DEF Places
  <2>4. CASE pc[q] # pc[p]
    <3>1. pc[q] = "eval" /\ chan[q] = <<>> /\ OneFrom(q, pc[p], day[p])
      BY <1>1, <1>2, <1>4, <1>5, <2>4 DEF AheadBy, NoneFrom, Waiting
    <3>2. chan'[p] = <<>> /\ chan'[q] = <<>>
      BY <1>1, <2>1, <3>1 DEF OneFrom
    <3>3. pc'[p] = "eval" /\ pc'[q] = "eval" /\ day'[p] = day'[q]
      BY <1>1, <1>4, <1>9, <1>10, <3>1
    <3>4. NoneFrom(p)' /\ NoneFrom(q)'
      BY <1>1, <3>2 DEF NoneFrom
    <3>5. Together'
      BY <1>1, <3>3, <3>4, Both DEF Together, Waiting, Ended
    <3> QED BY <3>5 DEF Places
  <2> QED BY <2>3, <2>4
<1>13. Decisions(p)' /\ Decisions(q)'
  <2>1. AgreedQuery(p)' /\ DueToday(p)' = DueToday(p) /\ FullPath' = FullPath
    BY <1>4, <1>9 DEF AgreedQuery, DueToday, Today, FullPath
  <2>2. Decisions(p)
    BY DEF Joint, JointInv
  <2>3. Padded(p)'
    BY <1>2, <1>9, <1>10, <2>1, <2>2 DEF Decisions, Padded
  <2>4. /\ loc'[p].forced = DueToday(p)'
        /\ loc'[p].path = IF FullPath' THEN "full" ELSE "incremental"
        /\ loc'[p].peer_size = st'[q].my_size
    BY <1>2, <1>9, <1>10, <2>1, <2>2 DEF Decisions
  <2>5. Decisions(p)'
    BY <1>10, <1>11, <2>1, <2>3, <2>4 DEF Decisions
  <2>6. Decisions(q)'
    BY <1>1, <1>9, <1>10, SameDecisions, Both DEF Joint, JointInv
  <2> QED BY <2>5, <2>6
<1>14. Provisions(p)' /\ Provisions(q)'
  <2>1. Provisions(p) /\ Provisions(q) /\ Target' = Target
    BY <1>1, <1>9 DEF Joint, JointInv, Target
  <2> QED BY <1>1, <1>2, <1>5, <1>9, <1>10, <2>1 DEF Provisions, Refilled, Indexing
<1>15. \A x \in Party : Settled(x)' /\ Answers(x)' /\ Endings(x)'
  BY <1>2, <1>4, <1>9, <1>10, MidRest
<1>16. InMemory' /\ OnDisk'
  <2>1. \A x \in Party : pc'[x] # "commit" /\ pc[x] # "commit"
    BY <1>1, <1>2, <1>5, <1>10, Both DEF Indexing
  <2>2. \A x \in Party : /\ Rebuilding(x) => Rebuilding(x)'
                         /\ Resalted(x) => Resalted(x)'
    BY <1>1, <1>2, <1>5, <1>10, Both DEF Rebuilding, Resalted, Indexing
  <2> QED BY <1>9, <2>1, <2>2, SameKin DEF Joint, JointInv
<1> QED BY <1>12, <1>13, <1>14, <1>15, <1>16, Both DEF JointInv

-------------------------------------------------------------------------------
(* The joint evaluation.                                                     *)

LEMMA EvaluateAloneJoint ==
    ASSUME Joint, NEW p \in Party, EvaluateAlone(p)
    PROVE  JointInv'
BY OnlyTheLeftFail DEF EvaluateAlone

\* The rows a party has nothing in are zero.
LEMMA RowsOutside ==
    ASSUME NEW s \in States, Consistent(s), NEW b \in Index, b \notin Occupied(s)
    PROVE  s.table[b] = ZeroRow
<1>1. CASE b \in s.rows
  BY <1>1 DEF Occupied
<1>2. CASE b \notin s.rows
  <2>1. \A x \in Id : ~ (x \in s.my_ids /\ Oracle[s.oracle_salt][x] = b)
    BY <1>2 DEF Consistent, BucketsOf
  <2> QED BY <2>1 DEF Consistent, TableOf, ZeroRow
<1> QED BY <1>1, <1>2

\* Where both parties are when they evaluate.
LEMMA Evaluating ==
    ASSUME Joint, \A x \in Party : pc[x] = "eval"
    PROVE  /\ Together /\ chan["R"] = <<>> /\ chan["S"] = <<>>
           /\ \A x \in Party :
                /\ loc[x].betas = loc["R"].betas
                /\ loc[x].mine \subseteq loc["R"].betas
                /\ loc[x].path = IF FullPath THEN "full" ELSE "incremental"
                /\ Padded(x) /\ AgreedQuery(x)
                /\ loc[x].peer_size = st[Peer(x)].my_size
                /\ ~ FullPath => ~ loc[x].forced /\ st[x].query_no > 0
           /\ st["R"].query_no = st["S"].query_no
           /\ st["R"].oracle_salt = st["S"].oracle_salt
           /\ pool["R"] = pool["S"]
<1>1. "R" \in Party /\ "S" \in Party /\ Peer("R") = "S" /\ Peer("S") = "R"
  BY DEF Party, Peer
<1>2. Together
  <2>1. \A x \in Party : ~ Ahead(x)
    BY PeerIn DEF Ahead, Leads, DayLeads
  <2>2. \A x \in Party : ~ Gone(x)
    BY DEF Gone, Ended
  <2> QED BY <2>1, <2>2 DEF Joint, JointInv, Places
<1>3. chan["R"] = <<>> /\ chan["S"] = <<>>
  BY <1>1, <1>2, TogetherQueue DEF Waiting, Joint, TypeOK, Channels
<1>4. st["R"].query_no = st["S"].query_no /\ st["R"].oracle_salt = st["S"].oracle_salt
  BY <1>1 DEF Joint, JointInv, InMemory, Working, Resalted
<1>5. pool["R"] = pool["S"]
  BY <1>1 DEF Joint, JointInv, Provisions, Refilled
<1>6. ASSUME NEW x \in Party
      PROVE  /\ loc[x].betas = loc["R"].betas
             /\ loc[x].mine \subseteq loc["R"].betas
             /\ loc[x].path = IF FullPath THEN "full" ELSE "incremental"
             /\ Padded(x) /\ AgreedQuery(x)
             /\ loc[x].peer_size = st[Peer(x)].my_size
             /\ loc[x].forced = DueToday(x)
  <2>1. Decisions(x) /\ Decisions("R") /\ pc[x] = "eval" /\ pc["R"] = "eval"
    BY <1>1 DEF Joint, JointInv
  <2>2. /\ loc[x].betas = loc["R"].mine \cup loc["S"].mine
        /\ loc["R"].betas = loc["R"].mine \cup loc["S"].mine
    BY <2>1 DEF Decisions
  <2>3. x = "R" \/ x = "S"
    BY DEF Party
  <2>4. loc[x].mine \subseteq loc["R"].betas
    BY <2>2, <2>3
  <2> QED BY <2>1, <2>2, <2>4 DEF Decisions, Indexing, Asked
<1>7. ASSUME NEW x \in Party, ~ FullPath
      PROVE  ~ loc[x].forced /\ st[x].query_no > 0
  <2>1. ~ DueToday(x) /\ st["R"].query_no # 0
    BY <1>7 DEF FullPath, Decide
  <2>2. st[x].query_no # 0 /\ st[x].query_no \in Nat
    BY <1>4, <2>1 DEF Party, Joint, TypeOK, States
  <2> QED BY <1>6, <2>1, <2>2
<1> QED BY <1>2, <1>3, <1>4, <1>5, <1>6, <1>7

LEMMA EvaluateCoherent ==
    ASSUME Joint, \A x \in Party : pc[x] = "eval",
           NEW fR \in [Index -> Fp], NEW fS \in [Index -> Fp],
           Shared(st["R"], st["S"], loc["R"].betas, fR, fS),
           NEW path, path = IF FullPath THEN "full" ELSE "incremental"
    PROVE  CoherentCaches(Commit(st["R"], path, loc["R"].betas, fR),
                          Commit(st["S"], path, loc["R"].betas, fS))
<1> DEFINE betas == loc["R"].betas
           sR == st["R"]
           sS == st["S"]
<1>1. "R" \in Party /\ "S" \in Party
  BY DEF Party
<1>2. sR \in States /\ sS \in States /\ Consistent(sR) /\ Consistent(sS)
      /\ betas \in SUBSET Index
  BY <1>1 DEF Joint, TypeOK, Locals, LocalInv, Sound
<1>3. /\ \A x \in Party : loc[x].mine \subseteq betas /\ Padded(x)
      /\ ~ FullPath => /\ \A x \in Party : ~ loc[x].forced /\ st[x].query_no > 0
  BY Evaluating
<1>4. CASE FullPath
  <2>1. Occupied(sR) \subseteq betas /\ Occupied(sS) \subseteq betas
    BY <1>1, <1>3, <1>4 DEF Padded
  <2> HIDE DEF betas, sR, sS
  <2>2. \A b \in Index \ betas : sR.table[b] = ZeroRow /\ sS.table[b] = ZeroRow
    BY <1>2, <2>1, RowsOutside
  <2>3. \A b \in Index \ betas : Differences(sR, sS, b) = 0
    BY <2>2, FS_EmptySet DEF Differences
  <2>4. Shared(sR, sS, betas, fR, fS)
    BY DEF sR, sS, betas
  <2>5. CoherentCaches(CommitReplace(sR, betas, fR), CommitReplace(sS, betas, fS))
    BY <1>2, <2>3, <2>4, ReplaceCoherent
  <2> QED BY <1>4, <2>5 DEF Commit, sR, sS, betas
<1>5. CASE ~ FullPath
  <2>1. sR.J \cup sS.J \subseteq betas
    BY <1>1, <1>3, <1>5 DEF Padded
  <2>2. CoherentCaches(sR, sS)
    <3>1. \A x \in Party : ~ Rebuilding(x) /\ Working(x) = st[x]
      BY <1>3, <1>5 DEF Rebuilding, Working
    <3> QED BY <1>1, <1>3, <1>5, <3>1 DEF Joint, JointInv, InMemory
  <2> HIDE DEF betas, sR, sS
  <2>3. Shared(sR, sS, betas, fR, fS)
    BY DEF sR, sS, betas
  <2>4. CoherentCaches(CommitAccumulate(sR, betas, fR), CommitAccumulate(sS, betas, fS))
    BY <1>2, <2>1, <2>2, <2>3, AccumulateCoherent
  <2> QED BY <1>5, <2>4 DEF Commit, sR, sS, betas
<1> QED BY <1>4, <1>5

LEMMA CommitKeeps ==
    ASSUME NEW s \in States, NEW path, NEW betas, NEW fresh
    PROVE  /\ Commit(s, path, betas, fresh).query_no = s.query_no + 1
           /\ Commit(s, path, betas, fresh).oracle_salt = s.oracle_salt
           /\ Commit(s, path, betas, fresh).my_size = s.my_size
           /\ Commit(s, path, betas, fresh).my_ids = s.my_ids
           /\ Commit(s, path, betas, fresh).table = s.table
           /\ Commit(s, path, betas, fresh).J = {}
BY DEF Commit, CommitReplace, CommitAccumulate, States

LEMMA DealtShares ==
    ASSUME NEW mask \in [loc["R"].betas -> Masks], NEW t \in [loc["R"].betas -> 0..T],
           loc["R"].betas \subseteq Index,
           \A b \in loc["R"].betas : t[b] \in Decoded(b)
    PROVE  Shared(st["R"], st["S"], loc["R"].betas,
                  Shares("R", mask, t), Shares("S", mask, t))
<1> DEFINE betas == loc["R"].betas
           d(b) == Differences(st["R"], st["S"], b)
<1>1. SUFFICES ASSUME NEW b \in betas, d(b) <= T
               PROVE  (Shares("R", mask, t)[b] + Shares("S", mask, t)[b]) % P = d(b) % P
  BY DEF Shared
<1>2. Rank(b) = d(b)
  BY DEF Rank, Differences
<1>3. t[b] = d(b)
  BY <1>1, <1>2 DEF Decoded
<1>4. /\ Shares("R", mask, t)[b] = mask[b]
      /\ Shares("S", mask, t)[b] = (t[b] - mask[b]) % P
  BY <1>1 DEF Shares
<1>5. mask[b] \in Fp /\ mask[b] \in Int /\ t[b] \in Int
  BY <1>1, SessionAssumption, FpInt, ConstantsAssumption
<1> DEFINE k == mask[b]
           n == t[b]
<1>6. k \in Fp /\ k \in Int /\ n \in Int
  BY <1>5
<1> HIDE DEF k, n
<1>7. ((k % P) + ((n - k) % P)) % P = (k + (n - k)) % P
  <2>1. n - k \in Int /\ 0 \in Int
    BY <1>6
  <2> QED BY <1>6, <2>1, ResidueNested
<1>8. k % P = k /\ k + (n - k) = n
  BY <1>6, ResidueOfSmall
<1>9. (k + ((n - k) % P)) % P = n % P
  BY <1>7, <1>8
<1> QED BY <1>3, <1>4, <1>9 DEF k, n

LEMMA EvaluateJoint ==
    ASSUME Joint, Evaluate
    PROVE  JointInv'
<1> DEFINE betas == loc["R"].betas
<1>1. "R" \in Party /\ "S" \in Party /\ Peer("R") = "S" /\ Peer("S") = "R"
      /\ \A x \in Party : Peer(x) \in Party
  BY DEF Party, Peer
<1>2. \A x \in Party : pc[x] = "eval"
  BY DEF Evaluate
<1>3. PICK mask \in [betas -> Masks], t \in [betas -> 0..T] :
        /\ \A b \in betas : t[b] \in Decoded(b)
        /\ loc' = [p \in Party |-> [loc[p] EXCEPT !.fresh = Shares(p, mask, t)]]
  BY DEF Evaluate, Shares
<1> DEFINE fR == Shares("R", mask, t)
           fS == Shares("S", mask, t)
           path == IF FullPath THEN "full" ELSE "incremental"
<1>4. /\ Together /\ chan["R"] = <<>> /\ chan["S"] = <<>>
      /\ \A x \in Party : /\ loc[x].betas = betas
                          /\ loc[x].path = path
                          /\ AgreedQuery(x)
                          /\ loc[x].peer_size = st[Peer(x)].my_size
      /\ st["R"].query_no = st["S"].query_no
      /\ st["R"].oracle_salt = st["S"].oracle_salt
      /\ pool["R"] = pool["S"]
  BY <1>2, Evaluating
<1>5. \A x \in Party : pc'[x] = "commit"
  BY DEF Evaluate
<1>6. /\ UNCHANGED <<st, disk, oracle, chan, day, answer, why, crashes>>
      /\ UNCHANGED <<schedule, force, session, offline>>
  BY DEF Evaluate, inputVars
<1>7. pool' = [p \in Party |-> pool[p] - Cardinality(betas)]
  BY DEF Evaluate
<1>8. betas \in SUBSET Index /\ \A x \in Party : st[x] \in States /\ loc[x] \in Locals
  BY <1>1 DEF Joint, TypeOK, Locals
<1>9. /\ fR \in [Index -> Fp] /\ fS \in [Index -> Fp]
      /\ Shared(st["R"], st["S"], betas, fR, fS)
  BY <1>3, <1>8, SharesType, DealtShares
<1>10. /\ loc'["R"].fresh = fR /\ loc'["S"].fresh = fS
       /\ \A x \in Party : /\ loc'[x].path = path /\ loc'[x].betas = betas
                           /\ loc'[x].peer_size = loc[x].peer_size
  BY <1>1, <1>3, <1>4, <1>8 DEF Locals
<1> HIDE DEF fR, fS, path, betas
<1>11. Places'
  <2>1. day["R"] = day["S"]
    BY <1>4 DEF Together
  <2>2. chan'["R"] = <<>> /\ chan'["S"] = <<>>
    BY <1>4, <1>6
  <2>3. Together'
    BY <1>1, <1>5, <1>6, <2>1, <2>2 DEF Together, NoneFrom, Waiting, Ended, Party
  <2> QED BY <2>3 DEF Places
<1>12. \A x \in Party : Decisions(x)'
  <2>1. SUFFICES ASSUME NEW x \in Party PROVE Decisions(x)'
    OBVIOUS
  <2>2. AgreedQuery(x)' /\ loc'[x].peer_size = st'[Peer(x)].my_size
    BY <1>4, <1>6, <1>10 DEF AgreedQuery, Today
  <2> QED BY <1>5, <2>2 DEF Decisions, Indexing
<1>13. \A x \in Party : Provisions(x)'
  <2>1. pool'["R"] = pool'["S"]
    BY <1>1, <1>4, <1>7
  <2> QED BY <1>1, <1>5, <2>1 DEF Provisions, Refilled, Indexing, Party, Peer
<1>14. \A x \in Party : Settled(x)' /\ Answers(x)' /\ Endings(x)'
  <2>1. SUFFICES ASSUME NEW x \in Party PROVE Settled(x)' /\ Answers(x)' /\ Endings(x)'
    OBVIOUS
  <2>2. answer[x] = NoAnswer /\ Endings(x)
    BY <1>2 DEF Joint, JointInv, Answers, Ended
  <2> QED BY <1>5, <1>6, <2>2 DEF Settled, Answers, Endings, LeftEarly
<1>15. /\ Working("R")' = Commit(st["R"], path, betas, fR)
       /\ Working("S")' = Commit(st["S"], path, betas, fS)
  BY <1>1, <1>5, <1>6, <1>10 DEF Working
<1>16. Related(Commit(st["R"], path, betas, fR), Commit(st["S"], path, betas, fS))
  <2>1. CoherentCaches(Commit(st["R"], path, betas, fR),
                       Commit(st["S"], path, betas, fS))
    BY <1>2, <1>9, EvaluateCoherent DEF path, betas
  <2>2. st["R"] \in States /\ st["S"] \in States
    BY <1>1, <1>8
  <2>3. /\ Commit(st["R"], path, betas, fR).query_no
             = Commit(st["S"], path, betas, fS).query_no
        /\ Commit(st["R"], path, betas, fR).oracle_salt
             = Commit(st["S"], path, betas, fS).oracle_salt
    BY <1>4, <2>2, CommitKeeps
  <2> QED BY <2>1, <2>3 DEF Related
<1>17. InMemory'
  BY <1>4, <1>6, <1>15, <1>16 DEF InMemory, Related
<1>18. OnDisk'
  <2>1. Durable("R")' = Working("R")' /\ Durable("S")' = Working("S")'
    BY <1>1, <1>5 DEF Durable
  <2> QED BY <1>15, <1>16, <2>1 DEF OnDisk
<1> QED BY <1>11, <1>12, <1>13, <1>14, <1>17, <1>18 DEF JointInv

-------------------------------------------------------------------------------
(* The commit and the opening.                                               *)

LEMMA CommitQueryJoint ==
    ASSUME Joint, NEW p \in Party, CommitQuery(p)
    PROVE  JointInv'
<1> DEFINE q == Peer(p)
           s == Working(p)
           c == Convert(p, s.t_share, s.my_size, loc[p].peer_size)
           n == [kind |-> "open", share |-> c]
<1>1. q \in Party /\ q # p /\ Peer(q) = p /\ chan \in Channels
  BY PeerIn DEF Joint, TypeOK, Channels
<1>2. pc[p] = "commit" /\ pc[p] \notin Ended /\ pc[p] \notin Waiting
  BY DEF CommitQuery, Ended, Waiting
<1>3. Together \/ Ahead(q)
  BY <1>1, <1>2, Situations DEF Joint, JointInv, Ahead, Leads, DayLeads, Gone
<1>4. /\ day[q] = day[p] /\ chan[p] = IF pc[q] = "open" THEN chan[p] ELSE <<>>
      /\ chan[q] = <<>> /\ pc[q] \in {"commit", "open"}
      /\ pc[q] = "open" => OneFrom(q, "open", day[q])
  <2>1. CASE Together
    BY <1>1, <1>2, <2>1, Both, TogetherQueue DEF Together
  <2>2. CASE Ahead(q)
    BY <1>1, <1>2, <2>2 DEF Ahead, AheadBy, NoneFrom, Leads, DayLeads
  <2> QED BY <1>3, <2>1, <2>2
<1>5. /\ loc[p] \in Locals /\ st[p] \in States /\ st[q] \in States
      /\ loc[p].betas \in SUBSET Index /\ loc[p].fresh \in [Index -> Fp]
  BY <1>1 DEF Joint, TypeOK, Locals
<1>6. s = Commit(st[p], loc[p].path, loc[p].betas, loc[p].fresh)
  BY <1>2 DEF Working
<1>7. /\ s \in States /\ s.my_size = st[p].my_size /\ s.J = {}
      /\ s.query_no = st[p].query_no + 1 /\ s.oracle_salt = st[p].oracle_salt
  BY <1>5, <1>6, CommitType, CommitKeeps
<1>8. loc[p].peer_size = st[q].my_size
  BY <1>2 DEF Joint, JointInv, Decisions
<1>9. /\ st' = [st EXCEPT ![p] = s] /\ disk' = [disk EXCEPT ![p] = s]
      /\ loc' = [loc EXCEPT ![p] = [NoLocals EXCEPT !.share = c]]
      /\ Send(p, n) /\ Goto(p, "open")
      /\ UNCHANGED <<oracle, pool, day, answer, why, crashes>>
      /\ UNCHANGED <<schedule, force, session, offline>>
  BY <1>6 DEF CommitQuery, inputVars
<1> HIDE DEF s
<1>10. c \in Fp
  <2>1. s.t_share \in Fp /\ s.my_size \in Int /\ loc[p].peer_size \in Int
    BY <1>5, <1>7 DEF States, Locals
  <2> QED BY <2>1, ConvertType
<1> HIDE DEF c
<1>11. n \in Message /\ n.kind = "open" /\ n.share = c
  BY <1>10, MessageTypes
<1> HIDE DEF n
<1>12. /\ st'[p] = s /\ st'[q] = st[q] /\ disk'[p] = s /\ disk'[q] = disk[q]
       /\ pc'[p] = "open" /\ pc'[q] = pc[q]
       /\ loc'[p].share = c /\ loc'[q] = loc[q]
  <2>1. [NoLocals EXCEPT !.share = c].share = c
    BY DEF NoLocals
  <2> QED BY <1>1, <1>9, <2>1 DEF Goto, Joint, TypeOK
<1>13. c = Convert(p, st'[p].t_share, st'[p].my_size, st'[q].my_size)
  BY <1>8, <1>12 DEF c
<1>14. /\ chan'[p] = chan[p] /\ Len(chan'[q]) = 1 /\ chan'[q][1] = n
  <2>1. Len(chan[q]) = 0
    BY <1>1, <1>4, Lengths
  <2>2. /\ chan'[p] = chan[p] /\ Len(chan'[q]) = Len(chan[q]) + 1
        /\ chan'[q][Len(chan[q]) + 1] = n
    BY <1>1, <1>9, <1>11, SendQueues
  <2> QED BY <2>1, <2>2
<1>15. Places'
  <2>1. \A d, x : x = n => Says(p, "open", d, x)'
    BY <1>11, <1>13 DEF Says
  <2>2. OneFrom(p, "open", day[p])'
    BY <1>1, <1>9, <1>14, <2>1 DEF OneFrom
  <2>3. CASE pc[q] = "commit"
    <3>1. chan'[p] = <<>>
      BY <1>4, <1>14, <2>3
    <3>2. AheadBy(p, "commit", "open")'
      BY <1>1, <2>2, <3>1 DEF AheadBy, NoneFrom, Waiting
    <3>3. Ahead(p)'
      BY <1>1, <1>4, <1>9, <1>12, <2>3, <3>2 DEF Ahead, Leads
    <3> QED BY <3>3 DEF Places
  <2>4. CASE pc[q] = "open"
    <3>1. Len(chan[p]) = 1 /\ Says(q, "open", day[q], chan[p][1])
      BY <1>1, <1>4, <2>4 DEF OneFrom
    <3>2. \A d, x : Says(q, "open", d, x) => Says(q, "open", d, x)'
      BY <1>1, <1>7, <1>12 DEF Says
    <3>3. OneFrom(q, "open", day[q])'
      BY <1>1, <1>9, <1>14, <3>1, <3>2 DEF OneFrom
    <3>4. \A x \in Party : OneFrom(x, "open", day[x])'
      BY <1>1, <2>2, <3>3, Both
    <3>5. pc'[p] = "open" /\ pc'[q] = "open" /\ day'[p] = day'[q]
      BY <1>4, <1>9, <1>12, <2>4
    <3>6. Together'
      BY <1>1, <3>4, <3>5, Both DEF Together, Waiting, Ended
    <3> QED BY <3>6 DEF Places
  <2> QED BY <1>4, <2>3, <2>4
<1>16. Decisions(p)' /\ Decisions(q)'
  <2>1. Decisions(p) /\ Decisions(q)
    BY <1>1 DEF Joint, JointInv
  <2>2. AgreedQuery(p)' /\ AgreedQuery(q)'
    BY <1>2, <1>4, <1>9, <2>1 DEF Decisions, AgreedQuery, Asked, Today
  <2>3. Decisions(p)'
    BY <1>12, <1>13, <2>2 DEF Decisions, Indexing
  <2>4. CASE pc[q] = "commit"
    <3>1. loc[q].peer_size = st'[p].my_size
      BY <1>1, <1>7, <1>12, <2>1, <2>4 DEF Decisions
    <3> QED BY <1>1, <1>12, <2>2, <2>3, <2>4, <3>1 DEF Decisions, Indexing
  <2>5. CASE pc[q] = "open"
    <3>1. loc[q].share = Convert(q, st'[q].t_share, st'[q].my_size, st'[p].my_size)
      BY <1>1, <1>7, <1>12, <2>1, <2>5 DEF Decisions
    <3> QED BY <1>1, <1>12, <2>2, <2>3, <2>5, <3>1 DEF Decisions, Indexing
  <2> QED BY <1>4, <2>3, <2>4, <2>5
<1>17. Provisions(p)' /\ Provisions(q)'
  <2>1. pool[p] = pool[q]
    BY <1>1, <1>2, <1>4 DEF Joint, JointInv, Provisions, Refilled
  <2> QED BY <1>1, <1>4, <1>9, <1>12, <2>1 DEF Provisions, Refilled, Indexing
<1>18. Settled(p)' /\ Settled(q)'
  <2>1. st'[p].J = {} /\ Saved(p)' /\ st'[p].query_no > 0
    <3>1. st[p].query_no \in Nat
      BY <1>5 DEF States
    <3> QED BY <1>7, <1>12, <3>1 DEF Saved
  <2>2. pc'[q] = "commit" \/ (st'[q].J = {} /\ Saved(q)' /\ st'[q].query_no > 0)
    <3>1. CASE pc[q] = "open"
      <4>1. st[q].J = {} /\ Saved(q) /\ st[q].query_no > 0
        BY <1>1, <3>1 DEF Joint, JointInv, Settled
      <4>2. Saved(q)'
        BY <1>9, <1>12, <4>1 DEF Saved
      <4> QED BY <1>12, <4>1, <4>2
    <3> QED BY <1>4, <1>12, <3>1
  <2>3. \A x \in Party : \/ pc'[x] = "commit"
                         \/ st'[x].J = {} /\ Saved(x)' /\ st'[x].query_no > 0
    BY <2>1, <2>2, Both
  <2> QED BY <2>3 DEF Settled
<1>19. Answers(p)' /\ Answers(q)'
  <2>1. answer[p] = NoAnswer /\ answer[q] = NoAnswer
    BY <1>1, <1>2, <1>4 DEF Joint, JointInv, Answers, Ended
  <2> QED BY <1>4, <1>9, <1>12, <2>1 DEF Answers
<1>20. Endings(p)' /\ Endings(q)'
  <2>1. Endings(p) /\ Endings(q)
    BY <1>1 DEF Joint, JointInv
  <2> QED BY <1>1, <1>2, <1>4, <1>9, <1>12, <2>1 DEF Endings, LeftEarly
<1>21. Working(p)' = Working(p) /\ Working(q)' = Working(q)
  BY <1>12 DEF Working, s
<1>22. \A x \in Party : Working(x)' = Working(x)
  BY <1>21, Both
<1>23. "R" \in Party /\ "S" \in Party
  BY DEF Party
<1>24. InMemory'
  <2>1. \A x \in Party : ~ Rebuilding(x) /\ ~ Resalted(x)
    BY <1>1, <1>2, <1>4, Both DEF Rebuilding, Resalted, Indexing
  <2>2. st'["R"].oracle_salt = st'["S"].oracle_salt
    <3>1. st["R"].oracle_salt = st["S"].oracle_salt
      BY <2>1 DEF Joint, JointInv, InMemory
    <3> QED BY <1>7, <1>12, <3>1 DEF Party, Peer
  <2>3. /\ Working("R").query_no = Working("S").query_no
        /\ Working("R").query_no > 0 => CoherentCaches(Working("R"), Working("S"))
    BY <2>1 DEF Joint, JointInv, InMemory
  <2> QED BY <1>22, <1>23, <2>2, <2>3 DEF InMemory
<1>25. OnDisk'
  <2>1. Durable(p)' = Durable(p)
    BY <1>2, <1>12 DEF Durable, s
  <2>2. Durable(q)' = Durable(q)
    BY <1>12, <1>21 DEF Durable
  <2>3. \A x \in Party : Durable(x)' = Durable(x)
    BY <2>1, <2>2, Both
  <2> QED BY <1>23, <2>3 DEF Joint, JointInv, OnDisk
<1> QED BY <1>15, <1>16, <1>17, <1>18, <1>19, <1>20, <1>24, <1>25, Both DEF JointInv

\* The two halves that are put together are those of the two saved states.
LEMMA OpenedRight ==
    ASSUME Joint, NEW p \in Party, pc[p] = "open", pc[Peer(p)] # "commit",
           NEW x, x.share = Convert(Peer(p), st[Peer(p)].t_share, st[Peer(p)].my_size,
                                    st[p].my_size)
    PROVE  RightCount((loc[p].share + x.share) % P)
<1> DEFINE q == Peer(p)
           sR == st["R"]
           sS == st["S"]
           cR == Convert("R", sR.t_share, sR.my_size, sS.my_size)
           cS == Convert("S", sS.t_share, sS.my_size, sR.my_size)
<1>1. q \in Party /\ q # p /\ Peer(q) = p /\ "R" \in Party /\ "S" \in Party
  BY PeerIn DEF Party
<1>2. loc[p].share = Convert(p, st[p].t_share, st[p].my_size, st[q].my_size)
  BY DEF Joint, JointInv, Decisions
<1>3. sR \in States /\ sS \in States /\ Consistent(sR) /\ Consistent(sS)
  BY <1>1 DEF Joint, TypeOK, LocalInv, Sound
<1>4. cR \in Int /\ cS \in Int
  <2>1. /\ sR.t_share \in Fp /\ sS.t_share \in Fp
        /\ sR.my_size \in Int /\ sS.my_size \in Int
    BY <1>3 DEF States
  <2>2. cR \in Fp /\ cS \in Fp
    BY <2>1, ConvertType
  <2> QED BY <2>2, FpInt
<1>5. loc[p].share + x.share = cR + cS
  BY <1>2, <1>4 DEF Party, Peer
<1>6. \A z \in Party : st[z].J = {} /\ st[z].query_no > 0
  BY <1>1, Both DEF Joint, JointInv, Settled
<1>7. \A z \in Party : pc[z] # "commit"
  BY <1>1, Both
<1>8. \A z \in Party : ~ Rebuilding(z) /\ ~ Resalted(z) /\ Working(z) = st[z]
  <2>1. pc[p] \notin {"commit", "round0", "salt"} \cup Indexing
    BY DEF Indexing
  <2>2. pc[q] \notin {"round0"} \cup Indexing
    <3>1. CASE Together
      BY <1>1, <3>1, Both DEF Together, Indexing
    <3>2. CASE Ahead(p)
      BY <1>1, <3>2 DEF Ahead, Leads, DayLeads, Indexing
    <3>3. CASE Ahead(q)
      BY <1>1, <3>3 DEF Ahead, Leads, DayLeads, Indexing
    <3>4. CASE Gone(p) \/ Gone(q)
      BY <1>1, <3>4 DEF Gone, Ended, Indexing
    <3> QED BY <3>1, <3>2, <3>3, <3>4, Situations DEF Joint, JointInv
  <2> QED BY <1>1, <1>7, <2>1, <2>2, Both DEF Rebuilding, Resalted, Working
<1>9. sR.oracle_salt = sS.oracle_salt /\ CoherentCaches(sR, sS)
  BY <1>1, <1>6, <1>8 DEF Joint, JointInv, InMemory
<1>10. sR.J = {} /\ sS.J = {}
  BY <1>1, <1>6
<1>11. NoOverflow => \A b \in Index : Differences(sR, sS, b) <= T
  BY DEF NoOverflow, Rank, Differences
<1> HIDE DEF sR, sS
<1>12. (\A b \in Index : Differences(sR, sS, b) <= T)
         => (cR + cS) % P = Cardinality(sR.my_ids \cap sS.my_ids) % P
  BY <1>3, <1>9, <1>10, CountFromShares
<1> QED BY <1>5, <1>11, <1>12 DEF RightCount, sR, sS

LEMMA RecvOpenJoint ==
    ASSUME Joint, NEW p \in Party, RecvOpen(p)
    PROVE  JointInv'
<1> DEFINE q == Peer(p)
           m == Head(chan[p])
<1>1. q \in Party /\ q # p /\ Peer(q) = p /\ chan \in Channels
  BY PeerIn DEF Joint, TypeOK, Channels
<1>2. pc[p] = "open" /\ pc[p] \in Waiting /\ pc[p] \notin Ended /\ Incoming(p, "open")
  BY RunningStates DEF RecvOpen
<1>3. ~ Failed(p)
  BY <1>2, OnlyTheLeftFail
<1>4. m \in Delivered(p, "open", {})
  BY <1>2 DEF Delivered
<1> HIDE DEF m
<1>5. /\ chan[p] # <<>> /\ Says(q, "open", day[p], m)
      /\ (Together /\ Len(chan[p]) = 1) \/ Ahead(q) \/ Gone(q)
  <2>1. m \in Delivered(p, pc[p], {})
    BY <1>2, <1>4
  <2>2. /\ chan[p] # <<>> /\ Says(q, pc[p], day[p], m)
        /\ \/ Together /\ Len(chan[p]) = 1
           \/ Ahead(q)
           \/ Gone(q) /\ pc[p] \in {"sync", "open"}
    BY <1>2, <1>3, <2>1, Received
  <2> QED BY <1>2, <2>2
<1>6. m.share = Convert(q, st[q].t_share, st[q].my_size, st[p].my_size)
  BY <1>1, <1>5 DEF Says
<1>7. /\ answer' = [answer EXCEPT ![p] = (loc[p].share + m.share) % P]
      /\ Consume(p)
      /\ loc' = [loc EXCEPT ![p] = NoLocals]
      /\ day' = [day EXCEPT ![p] = @ + 1]
      /\ Goto(p, "idle")
      /\ UNCHANGED <<st, disk, oracle, pool, why, crashes>>
      /\ UNCHANGED <<schedule, force, session, offline>>
  BY DEF RecvOpen, inputVars, m
<1>8. /\ answer'[p] = (loc[p].share + m.share) % P /\ answer'[q] = answer[q]
      /\ loc'[q] = loc[q] /\ day'[p] = day[p] + 1 /\ day'[q] = day[q]
      /\ pc'[p] = "idle" /\ pc'[q] = pc[q]
  BY <1>1, <1>7 DEF Goto, Joint, TypeOK
<1>9. pc[q] \in {"open", "idle", "sync"} \cup Ended
  BY <1>1, <1>2, <1>5, Both DEF Together, Ahead, Leads, DayLeads, Gone
<1>10. pc[q] # "commit" /\ pc[q] \notin {"salt", "round0", "provision"} \cup Indexing
  BY <1>9 DEF Ended, Indexing
<1>11. /\ chan'[q] = chan[q] /\ Len(chan'[p]) = Len(chan[p]) - 1
       /\ chan'[p] = <<>> <=> Len(chan[p]) = 1
       /\ \A i \in 1..(Len(chan[p]) - 1) : chan'[p][i] = chan[p][i + 1]
  BY <1>1, <1>5, <1>7, ConsumeQueues
<1>12. Places'
  <2>1. CASE Together /\ Len(chan[p]) = 1
    <3>1. pc[q] = "open" /\ day[q] = day[p] /\ OneFrom(p, "open", day[q])
      BY <1>1, <1>2, <2>1, Both DEF Together
    <3>2. \A d, x : Says(p, "open", d, x) => Says(p, "open", d, x)'
      BY <1>7 DEF Says
    <3>3. OneFrom(p, "open", day[q])'
      BY <1>1, <1>8, <1>11, <3>1, <3>2 DEF OneFrom
    <3>4. Ahead(p)'
      BY <1>1, <1>8, <1>11, <2>1, <3>1, <3>3
         DEF Ahead, AheadBy, NoneFrom, DayLeads, Waiting
    <3> QED BY <3>4 DEF Places
  <2>2. CASE Ahead(q)
    <3>1. pc[q] \in {"idle", "sync"} /\ day[q] = day[p] + 1 /\ chan[q] = <<>>
      BY <1>1, <1>2, <2>2 DEF Ahead, AheadBy, NoneFrom, Leads, DayLeads
    <3>2. CASE pc[q] = "idle"
      <4>1. OneFrom(q, "open", day[p])
        BY <1>1, <1>2, <2>2, <3>2 DEF Ahead, AheadBy, Waiting
      <4>2. chan'[p] = <<>> /\ chan'[q] = <<>>
        BY <1>1, <1>11, <3>1, <4>1 DEF OneFrom
      <4>3. Together'
        BY <1>1, <1>8, <3>1, <3>2, <4>2, Both DEF Together, NoneFrom, Waiting, Ended
      <4> QED BY <4>3 DEF Places
    <3>3. CASE pc[q] = "sync"
      <4>1. TwoFrom(q, "open", day[p], "sync", day[q])
        BY <1>1, <1>2, <2>2, <3>3 DEF Ahead, AheadBy, Waiting
      <4>2. Len(chan[p]) = 2 /\ Says(q, "sync", day[q], chan[p][2])
        BY <1>1, <4>1 DEF TwoFrom
      <4>3. \A d, x : Says(q, "sync", d, x) => Says(q, "sync", d, x)'
        BY <1>7 DEF Says
      <4>4. OneFrom(q, "sync", day[q])'
        BY <1>1, <1>8, <1>11, <4>2, <4>3 DEF OneFrom
      <4>5. Ahead(q)'
        BY <1>1, <1>8, <1>11, <3>1, <3>3, <4>4
           DEF Ahead, AheadBy, NoneFrom, Leads, Waiting
      <4> QED BY <1>1, <4>5 DEF Places
    <3> QED BY <3>1, <3>2, <3>3
  <2>3. CASE Gone(q)
    <3>1. /\ pc[q] \in Ended
          /\ OneFrom(q, "open", day[p])
          /\ pc[q] = "done" => day[q] = day[p] + 1
      BY <1>1, <1>2, <2>3 DEF Gone
    <3>2. chan'[p] = <<>>
      BY <1>1, <1>11, <3>1 DEF OneFrom
    <3>3. Gone(q)'
      BY <1>1, <1>8, <3>1, <3>2 DEF Gone, NoneFrom
    <3> QED BY <1>1, <3>3 DEF Places
  <2> QED BY <1>5, <2>1, <2>2, <2>3
<1>13. Decisions(p)' /\ Decisions(q)'
  <2>1. Decisions(p)'
    BY <1>8 DEF Decisions, Asked, Indexing
  <2>2. CASE pc[q] = "open"
    <3>1. AgreedQuery(q) /\ loc[q].share = Convert(q, st[q].t_share, st[q].my_size,
                                                   st[p].my_size)
      BY <1>1, <2>2 DEF Decisions, Asked, Joint, JointInv
    <3>2. AgreedQuery(q)'
      BY <1>7, <1>8, <3>1 DEF AgreedQuery, Today
    <3> QED BY <1>1, <1>7, <1>8, <2>1, <2>2, <3>1, <3>2 DEF Decisions, Indexing
  <2>3. CASE pc[q] # "open"
    BY <1>8, <1>9, <2>1, <2>3 DEF Decisions, Asked, Indexing, Ended
  <2> QED BY <2>2, <2>3
<1>14. Provisions(p)' /\ Provisions(q)'
  <2>1. pool[p] = pool[q]
    BY <1>1, <1>2, <1>10 DEF Joint, JointInv, Provisions, Refilled
  <2> QED BY <1>1, <1>7, <1>8, <1>10, <2>1 DEF Provisions, Refilled, Indexing
<1>15. \A x \in Party : /\ pc[x] \in Ended => pc'[x] \in Ended
                        /\ pc[x] = "commit" <=> pc'[x] = "commit"
                        /\ pc'[x] = "open" => pc[x] = "open"
  BY <1>1, <1>2, <1>8, Both
<1>16. Settled(p)' /\ Settled(q)'
  BY <1>1, <1>7, <1>8, <1>15, SameSettled DEF Joint, JointInv
<1>17. Answers(p)' /\ Answers(q)'
  <2>1. RightCount(answer'[p])
    BY <1>2, <1>6, <1>8, <1>10, OpenedRight
  <2>2. \A c : RightCount(c) => RightCount(c)'
    BY <1>7, SameCounts
  <2>3. RightCount(answer[p])'
    BY <2>1, <2>2
  <2>4. \A x \in Party : Saved(x)
    BY <1>1, <1>2, <1>10, Both DEF Joint, JointInv, Settled
  <2>5. \A x \in Party : Saved(x)'
    BY <1>7, <1>15, <2>4 DEF Saved
  <2>6. Answers(p)'
    BY <1>8, <2>3, <2>5 DEF Answers
  <2>7. Answers(q)'
    BY <1>1, <1>7, <1>8, <1>15, SameAnswers DEF Joint, JointInv
  <2> QED BY <2>6, <2>7
<1>18. Endings(p)' /\ Endings(q)'
  <2>1. Endings(p) /\ Endings(q)
    BY <1>1 DEF Joint, JointInv
  <2>2. pc[p] = "open" /\ pc'[p] = "idle"
    BY <1>2, <1>8
  <2>3. schedule["R"] = schedule["S"] => pc[q] # "stopped"
    BY <1>1, <2>1, <2>2 DEF Endings, LeftEarly
  <2> QED BY <1>1, <1>7, <1>8, <2>1, <2>2, <2>3 DEF Endings
<1>19. InMemory' /\ OnDisk'
  <2>1. \A x \in Party : /\ Rebuilding(x) => Rebuilding(x)'
                         /\ Resalted(x) => Resalted(x)'
    BY <1>1, <1>2, <1>8, <1>10, Both DEF Rebuilding, Resalted, Indexing
  <2>2. \A x \in Party : pc[x] = "commit" => loc'[x] = loc[x]
    BY <1>2, <1>10, Both
  <2> QED BY <1>7, <1>15, <2>1, <2>2, SameKin DEF Joint, JointInv
<1> QED BY <1>12, <1>13, <1>14, <1>16, <1>17, <1>18, <1>19, Both DEF JointInv

-------------------------------------------------------------------------------
(* Between sessions.                                                         *)

\* What the next session loads is where the invariant of running parties starts.
LEMMA StartFromFiles ==
    ASSUME StartSession, Related(disk["R"], disk["S"])
    PROVE  JointInv'
<1>1. "R" \in Party /\ "S" \in Party /\ \A x \in Party : Peer(x) \in Party
  BY PeerIn DEF Party
<1>2. \A x \in Party : pc[x] \in Ended
  BY DEF StartSession, Down
<1>3. /\ st' = disk /\ disk' = disk
      /\ \A x \in Party : /\ pc'[x] = "idle" /\ chan'[x] = <<>> /\ pool'[x] = 0
                          /\ day'[x] = 1 /\ answer'[x] = NoAnswer /\ why'[x] = "none"
  BY DEF StartSession
<1>4. Places'
  <2>1. Together'
    BY <1>1, <1>3 DEF Together, NoneFrom, Waiting, Ended
  <2> QED BY <2>1 DEF Places
<1>5. \A x \in Party : Decisions(x)'
  BY <1>3 DEF Decisions, Asked, Indexing
<1>6. \A x \in Party : Provisions(x)'
  BY <1>1, <1>3 DEF Provisions, Refilled, Indexing
<1>7. \A x \in Party : Settled(x)' /\ Answers(x)' /\ Endings(x)'
  BY <1>3 DEF Settled, Answers, Endings, LeftEarly
<1>8. \A x \in Party : Working(x)' = disk[x] /\ Durable(x)' = disk[x]
  BY <1>3 DEF Working, Durable
<1>9. InMemory' /\ OnDisk'
  BY <1>1, <1>3, <1>8 DEF InMemory, OnDisk, Related
<1> QED BY <1>4, <1>5, <1>6, <1>7, <1>9 DEF JointInv

LEMMA StartSessionJoint ==
    ASSUME Joint, StartSession
    PROVE  JointInv'
<1>1. \A x \in Party : Durable(x) = disk[x]
  BY DEF StartSession, Down, Durable, Ended
<1>2. Related(disk["R"], disk["S"])
  BY <1>1 DEF Joint, JointInv, OnDisk, Party
<1> QED BY <1>2, StartFromFiles

LEMMA UpdateOnlyJoint ==
    ASSUME Joint, NEW p \in Party, UpdateOnly(p)
    PROVE  JointInv'
<1> DEFINE q == Peer(p)
<1>1. q \in Party /\ q # p /\ Peer(q) = p /\ "R" \in Party /\ "S" \in Party
  BY PeerIn DEF Party
<1>2. PICK I \in SUBSET Id, D \in SUBSET Id :
        disk' = [disk EXCEPT ![p] = Apply(@, I, D, @.oracle_salt)]
  BY DEF UpdateOnly
<1> DEFINE s == Apply(disk[p], I, D, disk[p].oracle_salt)
<1>3. /\ pc[p] \in Ended /\ offline' = offline + 1
      /\ UNCHANGED <<st, oracle, pc, chan, loc, pool, day, answer, why>>
      /\ UNCHANGED <<schedule, force, session, crashes>>
  BY DEF UpdateOnly, procVars
<1>4. disk'[p] = s /\ disk'[q] = disk[q]
  BY <1>1, <1>2 DEF Joint, TypeOK
<1>5. offline \in Nat /\ disk[p] \in States /\ disk[q] \in States
  BY <1>1 DEF Joint, TypeOK
<1> HIDE DEF s
<1>6. pc[q] # "commit" /\ pc[p] # "commit"
  <2>1. CASE Together
    BY <1>3, Both, <2>1 DEF Together
  <2>2. CASE Ahead(p) \/ Ahead(q)
    BY <1>1, <1>3, <2>2, AheadPairs
  <2>3. CASE Gone(p) \/ Gone(q)
    BY <1>1, <1>3, <2>3 DEF Gone, Ended
  <2> QED BY <2>1, <2>2, <2>3, Situations DEF Joint, JointInv
<1>7. Places'
  <2>1. \A x, k, d, l, e : /\ OneFrom(x, k, d)' = OneFrom(x, k, d)
                           /\ NoneFrom(x)' = NoneFrom(x)
                           /\ TwoFrom(x, k, d, l, e)' = TwoFrom(x, k, d, l, e)
    BY <1>3 DEF OneFrom, TwoFrom, NoneFrom, Says
  <2>2. \A x \in Party : Gone(x) => Gone(x)'
    BY <1>3, <2>1 DEF Gone, QuietDay
  <2>3. Gone(p) \/ Gone(q)
    <3>1. ~ Together
      BY <1>3, Both DEF Together
    <3>2. ~ Ahead(p) /\ ~ Ahead(q)
      BY <1>1, <1>3, AheadPairs
    <3> QED BY <3>1, <3>2, Situations DEF Joint, JointInv
  <2> QED BY <1>1, <2>2, <2>3 DEF Places
<1>8. \A x \in Party : Saved(x) => Saved(x)'
  <2>1. Saved(p)'
    BY <1>3, <1>5 DEF Saved
  <2>2. Saved(q) => Saved(q)'
    BY <1>3, <1>4, <1>5 DEF Saved
  <2> QED BY <2>1, <2>2, Both
<1>9. \A x \in Party : Decisions(x)' /\ Provisions(x)' /\ Endings(x)'
  BY <1>3 DEF Joint, JointInv, Decisions, Provisions, Endings, LeftEarly, AgreedQuery, DueToday,
              Today, FullPath, Padded, Refilled, Target
<1>10. \A x \in Party : Settled(x)'
  BY <1>3, <1>8 DEF Joint, JointInv, Settled
<1>11. \A x \in Party : Answers(x)'
  BY <1>3, <1>8, SameCounts DEF Joint, JointInv, Answers
<1>12. InMemory'
  BY <1>1, <1>3 DEF Joint, JointInv, InMemory, Working, Rebuilding, Resalted
<1>13. OnDisk'
  <2>1. \A x \in Party : Durable(x) = disk[x] /\ Durable(x)' = disk'[x]
    BY <1>3, <1>6, Both DEF Durable
  <2>2. Related(disk["R"], disk["S"])
    BY <1>1, <2>1 DEF Joint, JointInv, OnDisk
  <2>3. /\ s.query_no = disk[p].query_no /\ s.oracle_salt = disk[p].oracle_salt
        /\ CoherentCaches(disk[p], disk[q]) => CoherentCaches(s, disk[q])
        /\ CoherentCaches(disk[q], disk[p]) => CoherentCaches(disk[q], s)
    BY <1>5, ApplyCoherent DEF s
  <2>4. Related(disk'["R"], disk'["S"])
    BY <1>1, <1>4, <2>2, <2>3 DEF Related, Party, Peer
  <2> QED BY <1>1, <2>1, <2>4 DEF OnDisk
<1> QED BY <1>7, <1>9, <1>10, <1>11, <1>12, <1>13 DEF JointInv

-------------------------------------------------------------------------------
(* The invariant.                                                            *)

PairInv == TypeOK /\ LocalInv /\ SameFlags /\ (crashes = 0 => JointInv)

LEMMA PairInit == Init => PairInv
<1> SUFFICES ASSUME Init PROVE PairInv
  OBVIOUS
<1>1. "R" \in Party /\ "S" \in Party /\ \A x \in Party : Peer(x) \in Party
  BY PeerIn DEF Party
<1>2. /\ st = disk
      /\ \A x \in Party : /\ pc[x] = "done" /\ chan[x] = <<>> /\ pool[x] = 0
                          /\ day[x] = 1 /\ answer[x] = NoAnswer /\ why[x] = "none"
                          /\ schedule[x] = <<>> /\ force[x] = FALSE
  BY DEF Init
<1>3. PICK ids \in [Party -> InitIds] : disk = [x \in Party |-> LoadedWith(ids[x])]
  BY DEF Init
<1>4. \A x \in Party : disk[x].query_no = 0 /\ disk[x].oracle_salt = EpochZero
  BY <1>3 DEF LoadedWith, Apply, Fresh
<1>5. Places
  BY <1>1, <1>2 DEF Places, Gone, Ended
<1>6. \A x \in Party : Decisions(x) /\ Provisions(x) /\ Settled(x) /\ Answers(x)
  BY <1>1, <1>2 DEF Decisions, Asked, Indexing, Provisions, Refilled, Settled,
                    Answers, Ended
<1>7. \A x \in Party : Endings(x)
  BY <1>2 DEF Endings
<1>8. \A x \in Party : Working(x) = disk[x] /\ Durable(x) = disk[x]
  BY <1>2 DEF Working, Durable
<1>9. InMemory /\ OnDisk
  BY <1>1, <1>2, <1>4, <1>8 DEF InMemory, OnDisk, Related
<1>10. SameFlags
  BY <1>1, <1>2 DEF SameFlags
<1> QED BY <1>5, <1>6, <1>7, <1>9, <1>10, TypeInit, LocalInit DEF PairInv, JointInv

\* Only a crash changes the count of crashes.
LEMMA Untouched ==
    ASSUME [Next]_vars
    PROVE  (\E p \in Party : Crash(p)) \/ UNCHANGED crashes
<1>1. ASSUME NEW p \in Party,
             \/ BeginDay(p) \/ RecvProvision(p) \/ RecvSalt(p) \/ EvaluateAlone(p)
             \/ CommitQuery(p) \/ RecvOpen(p) \/ Exit(p) \/ LosePeer(p)
      PROVE  UNCHANGED crashes
  BY <1>1 DEF BeginDay, RecvProvision, RecvSalt, EvaluateAlone, CommitQuery, RecvOpen,
              Exit, LosePeer, Stop
<1>2. ASSUME NEW p \in Party, UpdateOnly(p)
      PROVE  UNCHANGED crashes
  BY <1>2 DEF UpdateOnly
<1>3. ASSUME NEW p \in Party, RecvSync(p)
      PROVE  UNCHANGED crashes
  <2>1. \/ Stop(p, "drift") \/ Stop(p, "salt")
        \/ \E I, D \in SUBSET Id : ApplyEdits(p, I, D)
    BY <1>3 DEF RecvSync
  <2> QED BY <2>1 DEF Stop, ApplyEdits
<1>4. ASSUME NEW p \in Party, RecvRound0(p)
      PROVE  UNCHANGED crashes
  <2>1. \E n : PublishSupports(p, n) \/ PublishDirty(p, n)
    BY <1>4 DEF RecvRound0
  <2>2. \/ Stop(p, "occupied") \/ Stop(p, "umax")
        \/ \E kind, path, n, set : Publish(p, kind, path, n, set)
    BY <2>1 DEF PublishSupports, PublishDirty
  <2> QED BY <2>2 DEF Stop, Publish
<1>5. ASSUME NEW p \in Party, RecvIndices(p)
      PROVE  UNCHANGED crashes
  <2>1. \/ Stop(p, "length") \/ Stop(p, "exhausted")
        \/ UNCHANGED crashes
    BY <1>5 DEF RecvIndices
  <2> QED BY <2>1 DEF Stop
<1>6. CASE Evaluate \/ StartSession \/ Quiescent \/ UNCHANGED vars
  BY <1>6 DEF Evaluate, StartSession, Quiescent, vars
<1> QED BY <1>1, <1>2, <1>3, <1>4, <1>5, <1>6 DEF Next

LEMMA CrashesNext ==
    ASSUME TypeOK, [Next]_vars, crashes' = 0
    PROVE  crashes = 0 /\ ~ \E p \in Party : Crash(p)
<1>1. crashes \in Nat
  BY DEF TypeOK
<1>2. ~ \E p \in Party : Crash(p)
  BY <1>1 DEF Crash
<1> QED BY <1>2, Untouched

LEMMA StutterJoint ==
    ASSUME JointInv, UNCHANGED vars
    PROVE  JointInv'
<1>1. /\ \A x, k, d, l, e : /\ OneFrom(x, k, d)' = OneFrom(x, k, d)
                            /\ NoneFrom(x)' = NoneFrom(x)
                            /\ TwoFrom(x, k, d, l, e)' = TwoFrom(x, k, d, l, e)
  BY DEF vars, OneFrom, TwoFrom, NoneFrom, Says
<1>2. Together' = Together
  BY <1>1 DEF vars, Together
<1>3. \A x \in Party : Ahead(x) => Ahead(x)'
  BY <1>1 DEF vars, Ahead, AheadBy, QuietDay
<1>4. \A x \in Party : Gone(x) => Gone(x)'
  BY <1>1 DEF vars, Gone, QuietDay
<1>5. Places'
  BY <1>2, <1>3, <1>4 DEF Places, JointInv
<1>6. \A x \in Party : Decisions(x)' /\ Provisions(x)' /\ Endings(x)'
  BY DEF vars, JointInv, Decisions, Provisions, Endings, LeftEarly, AgreedQuery, DueToday,
         Today, FullPath, Padded, Refilled, Target
<1>7. \A x \in Party : Settled(x)' /\ Answers(x)'
  BY SameCounts DEF vars, JointInv, Settled, Answers, Saved
<1>8. InMemory' /\ OnDisk'
  BY DEF vars, JointInv, InMemory, OnDisk, Working, Durable, Rebuilding, Resalted
<1> QED BY <1>5, <1>6, <1>7, <1>8 DEF JointInv

LEMMA PairNext ==
    ASSUME PairInv, [Next]_vars, SameFlags'
    PROVE  PairInv'
<1>1. TypeOK' /\ LocalInv'
  BY TypeNext, LocalNext DEF PairInv
<1>2. SameFlags'
  OBVIOUS
<1>3. ASSUME crashes' = 0 PROVE JointInv'
  <2>1. crashes = 0 /\ ~ \E p \in Party : Crash(p)
    BY <1>3, CrashesNext DEF PairInv
  <2>2. Joint
    BY <2>1 DEF PairInv, Joint
  <2>3. ASSUME NEW p \in Party,
               \/ BeginDay(p) \/ RecvSync(p) \/ RecvProvision(p) \/ RecvSalt(p)
               \/ RecvRound0(p) \/ RecvIndices(p) \/ EvaluateAlone(p)
               \/ CommitQuery(p) \/ RecvOpen(p) \/ LosePeer(p)
               \/ Exit(p) \/ UpdateOnly(p)
        PROVE  JointInv'
    BY <2>2, <2>3, BeginDayJoint, RecvSyncJoint, RecvProvisionJoint, RecvSaltJoint,
       RecvRound0Joint, RecvIndicesJoint, EvaluateAloneJoint, CommitQueryJoint,
       RecvOpenJoint, LosePeerJoint, ExitJoint, UpdateOnlyJoint
  <2>4. CASE Evaluate
    BY <2>2, <2>4, EvaluateJoint
  <2>5. CASE StartSession
    BY <2>2, <2>5, StartSessionJoint
  <2>6. CASE Quiescent \/ UNCHANGED vars
    BY <2>2, <2>6, StutterJoint DEF Quiescent, Joint
  <2> QED BY <2>1, <2>3, <2>4, <2>5, <2>6 DEF Next
<1> QED BY <1>1, <1>2, <1>3 DEF PairInv

\* The invariant holds in every behaviour in which the two parties are always
\* given the same --force-refresh.
THEOREM PairAlways == Spec /\ []SameFlags => []PairInv
<1>1. Init => PairInv
  BY PairInit
<1>2. PairInv /\ [Next]_vars /\ SameFlags' => PairInv'
  BY PairNext
<1> QED BY <1>1, <1>2, PTL DEF Spec

-------------------------------------------------------------------------------
(* What follows.                                                             *)

\* As long as nothing has crashed, both parties evaluate the same buckets on the
\* same path with the same correlations left, and no check of theirs ever fails
\* (query.cpp:79-113, 300-349; salt.cpp:111; party_main.cpp:548).
THEOREM LockstepHolds == Spec /\ []SameFlags => [](crashes = 0 => Lockstep)
<1>1. ASSUME PairInv, crashes = 0 PROVE Lockstep
  <2>1. Joint
    BY <1>1 DEF PairInv, Joint
  <2>2. ASSUME \A p \in Party : pc[p] = "eval"
        PROVE  /\ loc["R"].path = loc["S"].path
               /\ loc["R"].betas = loc["S"].betas
               /\ pool["R"] = pool["S"]
    <3>1. "R" \in Party /\ "S" \in Party
      BY DEF Party
    <3> QED BY <2>1, <2>2, <3>1, Evaluating
  <2>3. \A p \in Party : why[p] \in {"none", "drift", "peer"}
    BY <2>1 DEF Joint, JointInv, Endings
  <2> QED BY <2>2, <2>3 DEF Lockstep
<1> QED BY <1>1, PairAlways, PTL

\* Nor do they ever evaluate under different bucket oracles (salt.cpp:73-113).
THEOREM OneOracleHolds == Spec /\ []SameFlags => [](crashes = 0 => OneOracle)
<1>1. ASSUME PairInv, crashes = 0 PROVE OneOracle
  <2>1. SUFFICES ASSUME \A p \in Party : pc[p] = "eval"
                 PROVE  oracle["R"] = oracle["S"]
    BY DEF OneOracle
  <2>2. st["R"].oracle_salt = st["S"].oracle_salt
    BY <1>1, <2>1, Evaluating DEF PairInv, Joint
  <2>3. \A p \in Party : oracle[p] = st[p].oracle_salt
    BY <1>1, <2>1 DEF PairInv, LocalInv, Ended
  <2> QED BY <2>2, <2>3 DEF Party
<1> QED BY <1>1, PairAlways, PTL

\* The shares of every clean bucket, and of the total, stay shares of what they
\* are cached for (query.cpp:207-256, update.cpp:94-109, salt.cpp:73-113).
THEOREM CacheCoherentHolds == Spec /\ []SameFlags => [](crashes = 0 => CacheCoherent)
<1>1. ASSUME PairInv, crashes = 0 PROVE CacheCoherent
  <2>1. SUFFICES ASSUME \A p \in Party : BetweenQueries(p), st["R"].query_no > 0
                 PROVE  CoherentCaches(st["R"], st["S"])
    BY DEF CacheCoherent
  <2>2. \A p \in Party : ~ Rebuilding(p) /\ Working(p) = st[p]
    BY <2>1 DEF BetweenQueries, Rebuilding, Indexing, Working
  <2> QED BY <1>1, <2>1, <2>2 DEF PairInv, JointInv, InMemory, Party
<1> QED BY <1>1, PairAlways, PTL

\* What the next session will load is a matching pair (query.cpp:258-265,
\* party_main.cpp --update-only).
THEOREM DiskCoherentHolds == Spec /\ []SameFlags => [](crashes = 0 => DiskCoherent)
<1>1. ASSUME PairInv, crashes = 0 PROVE DiskCoherent
  <2>1. SUFFICES ASSUME Down
                 PROVE  Related(disk["R"], disk["S"])
    BY DEF DiskCoherent, Related
  <2>2. \A p \in Party : Durable(p) = disk[p]
    BY <2>1 DEF Down, Durable, Ended
  <2> QED BY <1>1, <2>2 DEF PairInv, JointInv, OnDisk, Party
<1> QED BY <1>1, PairAlways, PTL

\* Every count opened is the size of the intersection, for any field with more
\* elements than there are ids (query.cpp:267-298, party_main.cpp:626).
THEOREM CountCorrectHolds ==
    ASSUME Cardinality(Id) < P
    PROVE  Spec /\ []SameFlags => [](crashes = 0 => CountCorrect)
<1>1. ASSUME PairInv, crashes = 0 PROVE CountCorrect
  <2>1. SUFFICES ASSUME NEW p \in Party, pc[p] = "idle", answer[p] # NoAnswer,
                        NoOverflow
                 PROVE  answer[p] = Cardinality(st["R"].my_ids \cap st["S"].my_ids)
    BY DEF CountCorrect
  <2> DEFINE common == st["R"].my_ids \cap st["S"].my_ids
  <2>2. answer[p] = Cardinality(common) % P
    BY <1>1, <2>1 DEF PairInv, JointInv, Answers, RightCount
  <2>3. common \subseteq Id
    BY <1>1 DEF PairInv, TypeOK, States, Party
  <2>4. Cardinality(common) \in Nat /\ Cardinality(common) <= Cardinality(Id)
        /\ Cardinality(Id) \in Nat
    BY <2>3, SetSize, FS_Subset
  <2> HIDE DEF common
  <2>5. Cardinality(common) \in Fp
    BY <2>4, Modulus DEF Fp
  <2> QED BY <2>2, <2>5, ResidueOfSmall DEF common
<1> QED BY <1>1, PairAlways, PTL

\* Two parties with the same schedule both end by having worked through it, but
\* for one whose peer's time budget has ended it early (party_main.cpp:560-649).
THEOREM HealthyPairFinishesHolds ==
    Spec /\ []SameFlags => [](crashes = 0 => HealthyPairFinishes)
<1>1. ASSUME PairInv, crashes = 0 PROVE HealthyPairFinishes
  <2>1. SUFFICES ASSUME Down, schedule["R"] = schedule["S"], NEW p \in Party,
                        pc[p] # "done"
                 PROVE  LeftEarly(Peer(p))
    BY DEF HealthyPairFinishes
  <2> QED BY <1>1, <2>1 DEF PairInv, JointInv, Endings, Down, Ended
<1> QED BY <1>1, PairAlways, PTL

-------------------------------------------------------------------------------
(* The refinement of PsiCardinality: the variables of the promise, as          *)
(* SessionProperties maps them, and what each step of the parties is there.    *)

InUse  == [p \in Party |-> st[p].my_ids]
OnFile == [p \in Party |-> disk[p].my_ids]
Common == Cardinality(st["R"].my_ids \cap st["S"].my_ids)
Outstanding == IF InQuery THEN Common ELSE NoAnswer

\* A step of the parties is a step of the promise, or none.
Promised == Promise!Next \/ Promise!vars' = Promise!vars

Sets == [Party -> SUBSET Id]

\* PsiCardinality's Cardinality is the one used here.
LEMMA SameCardinality == \A S : Promise!Cardinality(S) = Cardinality(S)
BY DEF Promise!Cardinality, Cardinality

LEMMA SetsType ==
    ASSUME TypeOK
    PROVE  /\ InUse \in Sets /\ OnFile \in Sets
           /\ Common = Promise!Count /\ Common \in Nat
<1>1. \A p \in Party : st[p].my_ids \in SUBSET Id /\ disk[p].my_ids \in SUBSET Id
  BY DEF TypeOK, States
<1>2. InUse \in Sets /\ OnFile \in Sets
  BY <1>1 DEF InUse, OnFile, Sets
<1>3. {x \in Id : \A p \in Party : x \in [q \in Party |-> st[q].my_ids][p]}
        = st["R"].my_ids \cap st["S"].my_ids
  BY <1>1 DEF Party
<1>4. Common = Promise!Count
  BY <1>3, SameCardinality DEF Common, Promise!Count
<1>5. st["R"].my_ids \cap st["S"].my_ids \in SUBSET Id
  BY <1>1 DEF Party
<1> QED BY <1>2, <1>4, <1>5, SetSize DEF Common

\* A step that changes no set and no answer, and asks nothing, is a step of
\* PsiCardinality: either nothing happens there or a question is dropped.
LEMMA UntoldStep ==
    ASSUME InUse' = InUse, OnFile' = OnFile, answer' = answer,
           Outstanding' = Outstanding \/ Outstanding' = NoAnswer
    PROVE  Promised
<1>1. CASE Outstanding' = Outstanding
  <2>1. Promise!vars' = Promise!vars
    BY <1>1 DEF Promise!vars, InUse, OnFile, Outstanding, Common
  <2> QED BY <2>1 DEF Promised
<1>2. CASE Outstanding' = NoAnswer
  <2>1. Promise!Abandon
    BY <1>2 DEF Promise!Abandon, Promise!None, NoAnswer,
                InUse, OnFile, Outstanding, Common
  <2> QED BY <2>1 DEF Promised, Promise!Next
<1> QED BY <1>1, <1>2

LEMMA SameQuestion ==
    ASSUME UNCHANGED st, InQuery' => InQuery
    PROVE  Outstanding' = Outstanding \/ Outstanding' = NoAnswer
BY DEF Outstanding, Common

\* Neither party is told anything new, changes its set or saves it; and it does
\* not begin to answer.
LEMMA UntoldParty ==
    ASSUME NEW p \in Party, UNCHANGED <<st, disk, answer>>,
           pc'[p] \notin {"commit", "open"} \/ pc'[p] = pc[p],
           pc'[Peer(p)] = pc[Peer(p)]
    PROVE  Promised
<1>1. InQuery' => InQuery
  BY Both DEF InQuery
<1>2. InUse' = InUse /\ OnFile' = OnFile
  BY DEF InUse, OnFile
<1>3. Outstanding' = Outstanding \/ Outstanding' = NoAnswer
  BY <1>1, SameQuestion
<1> QED BY <1>2, <1>3, UntoldStep

LEMMA ForgetStep ==
    ASSUME TypeOK, NEW p \in Party, BeginDay(p)
    PROVE  Promise!Next
<1>1. /\ UNCHANGED <<st, disk>>
      /\ answer' = [answer EXCEPT ![p] = NoAnswer]
      /\ pc[p] = "idle" /\ pc'[p] = "sync" /\ pc'[Peer(p)] = pc[Peer(p)]
  BY PeerIn DEF BeginDay, Goto, TypeOK
<1>2. InQuery' <=> InQuery
  BY <1>1, Both DEF InQuery
<1>3. InUse' = InUse /\ OnFile' = OnFile /\ Outstanding' = Outstanding
  BY <1>1, <1>2 DEF InUse, OnFile, Outstanding, Common
<1> QED BY <1>1, <1>3 DEF Promise!Next, Promise!Forget, Promise!None, NoAnswer,
                         InUse, OnFile, Outstanding, Common

LEMMA EditStep ==
    ASSUME Joint, NEW p \in Party, RecvSync(p)
    PROVE  Promised
<1> DEFINE q == Peer(p)
           untouched == {[kind |-> "sync", day |-> NoDay]}
<1>1. q \in Party /\ q # p /\ Peer(q) = p /\ TypeOK
  BY PeerIn DEF Joint
<1>2. pc[p] = "sync" /\ pc[p] \in Waiting
  BY DEF RecvSync, Waiting
<1>3. PICK m \in Delivered(p, "sync", untouched) :
         IF ~SameDay(m.day, Today(p)) THEN Stop(p, "drift")
         ELSE IF ~SaltMatches(st[p], oracle[p]) THEN Stop(p, "salt")
         ELSE \E I, D \in SUBSET Id :
                /\ Cardinality(I) + Cardinality(D) <= MaxEdits
                /\ ApplyEdits(p, I, D)
  BY DEF RecvSync
<1> HIDE DEF untouched
<1>4. CASE \E r : Stop(p, r)
  <2>1. UNCHANGED <<st, disk, answer>> /\ pc'[p] = "stopped" /\ pc'[q] = pc[q]
    BY <1>1, <1>4 DEF Stop, Goto, procVars, TypeOK
  <2> QED BY <2>1, UntoldParty
<1>5. ASSUME NEW I \in SUBSET Id, NEW D \in SUBSET Id, ApplyEdits(p, I, D)
      PROVE  Promised
  <2>1. pc[q] \notin {"commit", "open"}
    <3>1. CASE Failed(p)
      BY <3>1, OnlyTheLeftFail DEF Ended
    <3>2. CASE ~ Failed(p)
      <4>1. m \in Delivered(p, pc[p], untouched)
        BY <1>2, <1>3
      <4>2. /\ chan[p] # <<>>
            /\ Together \/ Ahead(q) \/ Gone(q)
        BY <1>2, <3>2, <4>1, Received
      <4>3. CASE Together
        BY <1>1, <1>2, <4>3, Both DEF Together
      <4>4. CASE Ahead(q)
        BY <1>1, <1>2, <4>4 DEF Ahead, Leads, DayLeads
      <4>5. CASE Gone(q)
        BY <4>5 DEF Gone, Ended
      <4> QED BY <4>2, <4>3, <4>4, <4>5
    <3> QED BY <3>1, <3>2
  <2>2. /\ UNCHANGED <<disk, answer>>
        /\ st' = [st EXCEPT ![p] = Apply(st[p], I, D, oracle[p])]
        /\ pc'[p] \in {"provision", "idle"} /\ pc'[q] = pc[q]
    BY <1>1, <1>5 DEF ApplyEdits, Goto, TypeOK
  <2>3. Outstanding = NoAnswer /\ Outstanding' = NoAnswer
    BY <1>2, <2>1, <2>2, Both DEF Outstanding, InQuery
  <2>4. PICK set \in SUBSET Id : Apply(st[p], I, D, oracle[p]).my_ids = set
    <3>1. Apply(st[p], I, D, oracle[p]) \in States
      BY <1>1, ApplyType DEF TypeOK
    <3> QED BY <3>1 DEF States
  <2>5. InUse' = [InUse EXCEPT ![p] = set] /\ OnFile' = OnFile
    BY <1>1, <2>2, <2>4 DEF InUse, OnFile, TypeOK
  <2> QED BY <2>2, <2>3, <2>5 DEF Promised, Promise!Next, Promise!Edit, Promise!None, NoAnswer,
                                  InUse, OnFile, Outstanding, Common
<1> QED BY <1>3, <1>4, <1>5

LEMMA AskStep ==
    ASSUME TypeOK, Evaluate
    PROVE  Promise!Next
<1>1. /\ UNCHANGED <<st, disk, answer>>
      /\ \A p \in Party : pc[p] = "eval" /\ pc'[p] = "commit"
  BY DEF Evaluate
<1>2. ~ InQuery /\ InQuery'
  BY <1>1 DEF InQuery, Party
<1>3. Outstanding = NoAnswer /\ Outstanding' = Common
  BY <1>1, <1>2 DEF Outstanding, Common
<1>4. InUse' = InUse /\ OnFile' = OnFile /\ Common = Promise!Count
  BY <1>1, SetsType DEF InUse, OnFile
<1> QED BY <1>1, <1>3, <1>4 DEF Promise!Next, Promise!Ask, Promise!None, NoAnswer,
                               InUse, OnFile, Outstanding, Common

LEMMA SaveStep ==
    ASSUME TypeOK, NEW p \in Party, CommitQuery(p)
    PROVE  Promise!Next
<1> DEFINE s == Commit(st[p], loc[p].path, loc[p].betas, loc[p].fresh)
<1>1. /\ UNCHANGED answer
      /\ st' = [st EXCEPT ![p] = s] /\ disk' = [disk EXCEPT ![p] = s]
      /\ pc[p] = "commit" /\ pc'[p] = "open" /\ pc'[Peer(p)] = pc[Peer(p)]
  BY PeerIn DEF CommitQuery, Goto, TypeOK
<1>2. st[p] \in States /\ s.my_ids = st[p].my_ids
  BY CommitKeeps DEF TypeOK
<1> HIDE DEF s
<1>3. \A x \in Party : st'[x].my_ids = st[x].my_ids
  BY <1>1, <1>2 DEF TypeOK
<1>4. InUse' = InUse /\ OnFile' = [OnFile EXCEPT ![p] = InUse[p]]
  BY <1>1, <1>2, <1>3 DEF InUse, OnFile, TypeOK
<1>5. InQuery /\ InQuery'
  BY <1>1 DEF InQuery
<1>6. Common \in Nat /\ Common' = Common
  BY <1>3, SetsType DEF Common, Party
<1>7. Outstanding # NoAnswer /\ Outstanding' = Outstanding
  BY <1>5, <1>6 DEF Outstanding, NoAnswer
<1> QED BY <1>1, <1>4, <1>7 DEF Promise!Next, Promise!Save, Promise!None, NoAnswer,
                               InUse, OnFile, Outstanding, Common

\* Whoever is told a count is told the one that was asked for.
LEMMA TellStep ==
    ASSUME TypeOK, TypeOK', CountCorrect', NoOverflow',
           NEW p \in Party, RecvOpen(p)
    PROVE  Promise!Next
<1> DEFINE q == Peer(p)
<1>1. q \in Party /\ q # p
  BY PeerIn
<1>2. /\ UNCHANGED <<st, disk>>
      /\ answer' = [answer EXCEPT ![p] = (loc[p].share + Head(chan[p]).share) % P]
      /\ pc[p] = "open" /\ pc'[p] = "idle" /\ pc'[q] = pc[q]
  BY <1>1 DEF RecvOpen, Goto, TypeOK
<1>3. Common \in Nat /\ Common' = Common
  BY <1>1, <1>2, SetsType DEF Common
<1>4. answer'[p] # NoAnswer
  <2>1. loc[p].share \in Int
    BY <1>1 DEF TypeOK, Locals, Fp
  <2>2. Head(chan[p]).share \in Int
    <3>1. Head(chan[p]) \in Message /\ Head(chan[p]).kind = "open"
      BY <1>1, RestType DEF TypeOK, Channels, RecvOpen, Incoming
    <3> QED BY <3>1, MessageFields DEF Fp
  <2>3. (loc[p].share + Head(chan[p]).share) % P \in Fp
    BY <2>1, <2>2, ResidueIn
  <2>4. answer'[p] = (loc[p].share + Head(chan[p]).share) % P
    BY <1>1, <1>2 DEF TypeOK
  <2> QED BY <2>3, <2>4, Modulus DEF Fp, NoAnswer
<1>5. answer'[p] = Common
  BY <1>2, <1>3, <1>4 DEF CountCorrect, Common
<1>6. answer' = [answer EXCEPT ![p] = Common]
  BY <1>1, <1>2, <1>5 DEF TypeOK
<1>7. InQuery
  BY <1>2 DEF InQuery
<1>8. Outstanding = Common /\ Common # NoAnswer
  BY <1>3, <1>7 DEF Outstanding, NoAnswer
<1>9. InUse' = InUse /\ OnFile' = OnFile
  BY <1>2 DEF InUse, OnFile
<1>10. PICK more \in BOOLEAN : Outstanding' = IF more THEN Outstanding ELSE NoAnswer
  BY <1>3, <1>8 DEF Outstanding
<1> HIDE DEF q
<1> QED BY <1>6, <1>8, <1>9, <1>10
           DEF Promise!Next, Promise!Tell, Promise!None, NoAnswer,
               InUse, OnFile, Outstanding, Common

LEMMA RestartStep ==
    ASSUME StartSession
    PROVE  Promise!Next
<1>1. /\ st' = disk /\ UNCHANGED disk
      /\ answer' = [p \in Party |-> NoAnswer]
      /\ \A p \in Party : pc'[p] = "idle"
  BY DEF StartSession
<1>2. Outstanding' = NoAnswer
  BY <1>1 DEF Outstanding, InQuery
<1>3. InUse' = OnFile /\ OnFile' = OnFile
  BY <1>1 DEF InUse, OnFile
<1> QED BY <1>1, <1>2, <1>3 DEF Promise!Next, Promise!Restart, Promise!None, NoAnswer,
                               InUse, OnFile, Outstanding, Common

LEMMA EditSavedStep ==
    ASSUME TypeOK, TypeOK', NEW p \in Party, UpdateOnly(p)
    PROVE  Promise!Next
<1>1. PICK I \in SUBSET Id, D \in SUBSET Id :
        disk' = [disk EXCEPT ![p] = Apply(disk[p], I, D, disk[p].oracle_salt)]
  BY DEF UpdateOnly, TypeOK
<1>2. UNCHANGED <<st, answer, pc>>
  BY DEF UpdateOnly, procVars
<1>3. disk'[p].my_ids \in SUBSET Id
  BY DEF TypeOK, States
<1>4. InUse' = InUse /\ OnFile' = [OnFile EXCEPT ![p] = disk'[p].my_ids]
  BY <1>1, <1>2 DEF InUse, OnFile, TypeOK
<1>5. Outstanding' = Outstanding
  BY <1>2 DEF Outstanding, Common, InQuery
<1> HIDE DEF Outstanding
<1>6. Promise!EditSaved(p)
  BY <1>2, <1>3, <1>4, <1>5 DEF Promise!EditSaved, InUse, OnFile, Outstanding, Common
<1> QED BY <1>6 DEF Promise!Next

\* These neither change a set nor answer.
LEMMA QuietSteps ==
    ASSUME TypeOK, NEW p \in Party,
           \/ RecvProvision(p) \/ RecvRound0(p) \/ RecvIndices(p)
           \/ LosePeer(p) \/ Exit(p)
    PROVE  /\ UNCHANGED <<st, disk, answer>>
           /\ pc'[p] \notin {"commit", "open"} /\ pc'[Peer(p)] = pc[Peer(p)]
<1> USE PeerIn DEF Goto, TypeOK
<1>1. ASSUME NEW r, Stop(p, r)
      PROVE  /\ UNCHANGED <<st, disk, answer>>
             /\ pc'[p] \notin {"commit", "open"} /\ pc'[Peer(p)] = pc[Peer(p)]
  BY <1>1 DEF Stop, procVars
<1>2. CASE RecvProvision(p)
  <2>1. \/ \E r : Stop(p, r)
        \/ /\ BeginRefresh(p) \/ BeginQuery(p, st[p], FALSE)
           /\ UNCHANGED <<st, disk, answer>>
    BY <1>2 DEF RecvProvision
  <2> QED BY <1>1, <2>1 DEF BeginRefresh, BeginQuery
<1>3. CASE RecvRound0(p)
  <2>1. \/ \E r : Stop(p, r)
        \/ \E kind \in {"jtilde", "supports"} : \E path, size, set :
              Publish(p, kind, path, size, set)
    BY <1>3 DEF RecvRound0, PublishSupports, PublishDirty
  <2> QED BY <1>1, <2>1 DEF Publish
<1>4. CASE RecvIndices(p)
  <2>1. \/ \E r : Stop(p, r)
        \/ Goto(p, "eval") /\ UNCHANGED <<st, disk, answer>>
    BY <1>4 DEF RecvIndices
  <2> QED BY <1>1, <2>1
<1>5. CASE LosePeer(p)
  BY <1>1, <1>5 DEF LosePeer
<1>6. CASE Exit(p)
  BY <1>6 DEF Exit, procVars
<1> QED BY <1>2, <1>3, <1>4, <1>5, <1>6

\* A step of a party, or of both, is a step of PsiCardinality or none.
LEMMA PromisedStep ==
    ASSUME PairInv, TypeOK', [Next]_vars, crashes' = 0, NoOverflow', CountCorrect'
    PROVE  Promised
<1>1. Joint /\ TypeOK /\ ~ \E p \in Party : Crash(p)
  BY CrashesNext DEF PairInv, Joint
<1>2. ASSUME NEW p \in Party, RecvProvision(p) \/ RecvSalt(p) \/ RecvRound0(p)
                               \/ RecvIndices(p) \/ LosePeer(p) \/ Exit(p)
      PROVE  Promised
  <2>1. CASE RecvSalt(p)
    <3>1. PICK salt : st' = [st EXCEPT ![p] = Rebuilt(st[p], salt)]
      BY <2>1 DEF RecvSalt
    <3>2. UNCHANGED <<disk, answer>> /\ pc'[p] = "round0" /\ pc'[Peer(p)] = pc[Peer(p)]
      BY <1>1, <2>1, PeerIn DEF RecvSalt, BeginQuery, Goto, TypeOK
    <3>3. \A x \in Party : st'[x].my_ids = st[x].my_ids
      BY <1>1, <3>1 DEF Rebuilt, TypeOK, States
    <3>4. InUse' = InUse /\ OnFile' = OnFile /\ Common' = Common
      BY <3>2, <3>3 DEF InUse, OnFile, Common, Party
    <3>5. InQuery' => InQuery
      BY <3>2, Both DEF InQuery
    <3>6. Outstanding' = Outstanding \/ Outstanding' = NoAnswer
      BY <3>4, <3>5 DEF Outstanding
    <3> QED BY <3>2, <3>4, <3>6, UntoldStep
  <2>2. CASE ~ RecvSalt(p)
    <3>1. /\ UNCHANGED <<st, disk, answer>>
          /\ pc'[p] \notin {"commit", "open"} /\ pc'[Peer(p)] = pc[Peer(p)]
      BY <1>1, <1>2, <2>2, QuietSteps
    <3> QED BY <3>1, UntoldParty
  <2> QED BY <2>1, <2>2
<1>3. ASSUME NEW p \in Party PROVE ~ EvaluateAlone(p)
  BY <1>1, OnlyTheLeftFail DEF EvaluateAlone
<1>4. ASSUME NEW p \in Party,
             \/ BeginDay(p) \/ RecvSync(p) \/ CommitQuery(p) \/ RecvOpen(p)
             \/ UpdateOnly(p)
      PROVE  Promised
  BY <1>1, <1>4, ForgetStep, EditStep, SaveStep, TellStep, EditSavedStep DEF Promised
<1>5. CASE Evaluate \/ StartSession
  BY <1>1, <1>5, AskStep, RestartStep DEF Promised
<1>6. CASE Quiescent \/ UNCHANGED vars
  <2>1. UNCHANGED <<st, disk, answer, pc>>
    BY <1>6 DEF Quiescent, vars
  <2>2. InUse' = InUse /\ OnFile' = OnFile /\ Outstanding' = Outstanding
    BY <2>1 DEF InUse, OnFile, Outstanding, Common, InQuery
  <2> QED BY <2>1, <2>2, UntoldStep
<1> QED BY <1>1, <1>2, <1>3, <1>4, <1>5, <1>6 DEF Next

LEMMA PromisedStart == Init => Promise!Init
<1> SUFFICES ASSUME Init PROVE Promise!Init
  OBVIOUS
<1>1. /\ st = disk /\ answer = [p \in Party |-> NoAnswer]
      /\ \A p \in Party : pc[p] = "done"
  BY DEF Init
<1>2. TypeOK
  BY TypeInit
<1>3. InUse = OnFile /\ InUse \in Sets
  BY <1>1, <1>2, SetsType DEF InUse, OnFile
<1>4. Outstanding = NoAnswer
  BY <1>1 DEF Outstanding, InQuery
<1> QED BY <1>1, <1>3, <1>4 DEF Promise!Init, Promise!None, NoAnswer, Sets,
                                InUse, OnFile, Outstanding, Common

\* The two programs keep what they promise their users, as long as nothing
\* crashes and no bucket overflows: with any number of ids, buckets, days and
\* sessions, over any field with more elements than there are ids.
THEOREM ImplementsHolds ==
    ASSUME Cardinality(Id) < P
    PROVE  Spec /\ []SameFlags /\ [](crashes = 0) /\ []NoOverflow => Implements
<1>1. PairInv /\ TypeOK' /\ [Next]_vars /\ (crashes = 0)' /\ NoOverflow'
        /\ CountCorrect' => [Promise!Next]_(Promise!vars)
  <2> SUFFICES ASSUME PairInv, TypeOK', [Next]_vars, (crashes = 0)', NoOverflow',
                      CountCorrect'
               PROVE  [Promise!Next]_(Promise!vars)
    OBVIOUS
  <2>1. Promised
    BY PromisedStep
  <2> QED BY <2>1 DEF Promised
<1>2. Spec /\ []SameFlags /\ [](crashes = 0) => []CountCorrect
  BY CountCorrectHolds, PTL
<1>3. PairInv => TypeOK
  BY DEF PairInv
<1> QED
  BY <1>1, <1>2, <1>3, PromisedStart, PairAlways, PTL DEF Spec, Implements, Promise!Spec

-------------------------------------------------------------------------------
(* One query a session, whatever crashes.                                    *)

PostInv ==
    /\ TypeOK /\ LocalInv /\ SameFlags
    /\ OnceInv
    /\ offline = 0 => LostOne \/ BeforeEvaluation \/ PastEvaluation

\* What a step of p may do: go on towards the evaluation,
GoesOn(p) ==
    /\ pc[p] \in Unevaluated /\ pc'[p] \in Unevaluated
    /\ \A q \in Party : q # p => pc'[q] = pc[q] /\ day'[q] = day[q] /\ st'[q] = st[q]
    /\ day[p] <= Len(schedule[p]) /\ day'[p] <= Len(schedule[p])
    /\ pc'[p] \in Asked => day'[p] = Len(schedule[p])
    /\ st'[p].query_no = st[p].query_no
    /\ st'[p].cached = st[p].cached /\ st'[p].cache = st[p].cache
    /\ UNCHANGED <<disk, schedule, session>>

\* or end.
EndsNow(p) ==
    /\ pc[p] \notin Ended /\ pc'[p] \in Ended
    /\ \A q \in Party : q # p => pc'[q] = pc[q]
    /\ UNCHANGED <<st, disk, loc, day, schedule, session>>

LEMMA StopEnds ==
    ASSUME TypeOK, NEW p \in Party, pc[p] \notin Ended, NEW r, Stop(p, r)
    PROVE  EndsNow(p)
BY DEF Stop, Goto, TypeOK, EndsNow, Ended, procVars, inputVars

LEMMA LeavingEnds ==
    ASSUME TypeOK, NEW p \in Party, LosePeer(p) \/ Exit(p) \/ Crash(p)
    PROVE  EndsNow(p)
<1>1. CASE LosePeer(p)
  <2>1. pc[p] \notin Ended
    BY <1>1, RunningStates DEF LosePeer, Failed
  <2> QED BY <1>1, <2>1, StopEnds DEF LosePeer
<1>2. CASE Exit(p)
  BY <1>2 DEF Exit, Goto, TypeOK, EndsNow, Ended, procVars, inputVars
<1>3. CASE Crash(p)
  BY <1>3 DEF Crash, Goto, TypeOK, EndsNow, Ended, procVars, inputVars
<1> QED BY <1>1, <1>2, <1>3

\* The edits of a day, and what they leave alone.
LEMMA EditsGoOn ==
    ASSUME TypeOK, OnceInv, OneQueryEach, NEW p \in Party, pc[p] = "sync",
           NEW I \in SUBSET Id, NEW D \in SUBSET Id, ApplyEdits(p, I, D)
    PROVE  GoesOn(p)
<1> DEFINE s == Apply(st[p], I, D, oracle[p])
<1>1. /\ st' = [st EXCEPT ![p] = s]
      /\ IF Today(p).query THEN Goto(p, "provision") /\ UNCHANGED day
         ELSE Goto(p, "idle") /\ day' = [day EXCEPT ![p] = @ + 1]
      /\ UNCHANGED <<disk, schedule, session>>
  BY DEF ApplyEdits, inputVars
<1>2. /\ st[p] \in States /\ day[p] \in Nat \ {0} /\ day[p] <= Len(schedule[p])
      /\ schedule[p] \in Schedules \cup {<<>>}
  BY DEF TypeOK, OnceInv
<1>3. /\ s.query_no = st[p].query_no /\ s.cached = st[p].cached
      /\ s.cache = st[p].cache
  BY <1>2 DEF Apply, States
<1> HIDE DEF s
<1>4. /\ schedule[p] \in Seq(Day) /\ Len(schedule[p]) \in Nat
      /\ Today(p).query <=> day[p] = Len(schedule[p])
  <2>1. schedule[p] \in Schedules
    BY <1>2
  <2>2. schedule[p] \in Seq(Day) /\ AsksLast(schedule[p])
    BY <2>1, SessionAssumption DEF OneQueryEach
  <2>3. Len(schedule[p]) \in Nat /\ day[p] \in DOMAIN schedule[p]
    BY <1>2, <2>2
  <2> QED BY <2>2, <2>3 DEF AsksLast, Today
<1>5. /\ st'[p] = s /\ \A q \in Party : q # p => st'[q] = st[q]
  BY <1>1 DEF TypeOK
<1>6. CASE Today(p).query
  <2>1. pc'[p] = "provision" /\ \A q \in Party : q # p => pc'[q] = pc[q]
    BY <1>1, <1>6 DEF TypeOK, Goto
  <2>2. day' = day
    BY <1>1, <1>6
  <2> QED BY <1>1, <1>2, <1>3, <1>4, <1>5, <1>6, <2>1, <2>2 DEF GoesOn, Unevaluated
<1>7. CASE ~ Today(p).query
  <2>1. pc'[p] = "idle" /\ \A q \in Party : q # p => pc'[q] = pc[q]
    BY <1>1, <1>7 DEF TypeOK, Goto
  <2>2. day'[p] = day[p] + 1 /\ \A q \in Party : q # p => day'[q] = day[q]
    BY <1>1, <1>7 DEF TypeOK
  <2>3. day[p] < Len(schedule[p])
    BY <1>2, <1>4, <1>7
  <2> QED BY <1>1, <1>2, <1>3, <1>4, <1>5, <2>1, <2>2, <2>3
          DEF GoesOn, Unevaluated, Asked
<1> QED BY <1>6, <1>7

\* A step that moves p to l within its day and leaves its shares alone.
LEMMA MoveGoesOn ==
    ASSUME TypeOK, NEW p \in Party, NEW l \in Unevaluated, Goto(p, l),
           pc[p] \in Unevaluated, UNCHANGED <<disk, day, schedule, session>>,
           \A q \in Party : q # p => st'[q] = st[q],
           st'[p].query_no = st[p].query_no, st'[p].cached = st[p].cached,
           st'[p].cache = st[p].cache,
           day[p] <= Len(schedule[p]), l \in Asked => day[p] = Len(schedule[p])
    PROVE  GoesOn(p)
<1>1. pc'[p] = l /\ \A q \in Party : q # p => pc'[q] = pc[q]
  BY DEF Goto, TypeOK
<1>2. day[p] \in Nat
  BY DEF TypeOK
<1> QED BY <1>1, <1>2 DEF GoesOn

LEMMA ScheduleLength ==
    ASSUME TypeOK, NEW p \in Party
    PROVE  Len(schedule[p]) \in Nat /\ day[p] \in Nat
<1>1. schedule[p] \in Seq(Day)
  <2>1. <<>> \in Seq(Day)
    OBVIOUS
  <2> QED BY <2>1, SessionAssumption DEF TypeOK
<1> QED BY <1>1 DEF TypeOK

\* The steps of a session up to its joint evaluation.
LEMMA EarlyGoOn ==
    ASSUME TypeOK, OnceInv, OneQueryEach, NEW p \in Party,
           \/ BeginDay(p) \/ RecvSync(p) \/ RecvProvision(p) \/ RecvSalt(p)
           \/ RecvRound0(p) \/ RecvIndices(p)
    PROVE  GoesOn(p) \/ EndsNow(p)
<1>1. /\ \A w \in Waiting \cup {"idle"} : w \notin Ended
      /\ Len(schedule[p]) \in Nat /\ day[p] \in Nat /\ st[p] \in States
      /\ pc[p] \in Asked => day[p] = Len(schedule[p])
      /\ Asked \cap Unevaluated =
           {"provision", "salt", "round0", "jtilde", "supports", "eval"}
  BY RunningStates, ScheduleLength DEF OnceInv, TypeOK, Asked, Unevaluated
<1>2. CASE BeginDay(p)
  <2>1. pc[p] = "idle" /\ day[p] <= Len(schedule[p]) /\ Goto(p, "sync")
        /\ UNCHANGED <<st, disk, day, schedule, session>>
    BY <1>2 DEF BeginDay, inputVars
  <2> QED BY <1>1, <2>1, MoveGoesOn DEF Unevaluated, Asked
<1>3. CASE RecvSync(p)
  <2>1. pc[p] = "sync" /\ pc[p] \notin Ended
    BY <1>3, RunningStates DEF RecvSync
  <2>2. \/ Stop(p, "drift") \/ Stop(p, "salt")
        \/ \E I, D \in SUBSET Id : ApplyEdits(p, I, D)
    BY <1>3 DEF RecvSync
  <2> QED BY <2>1, <2>2, StopEnds, EditsGoOn
<1>4. CASE RecvProvision(p)
  <2>1. pc[p] = "provision" /\ pc[p] \notin Ended
    BY <1>4, RunningStates DEF RecvProvision
  <2>2. \/ Stop(p, "salt")
        \/ /\ \E l \in {"salt", "round0"} : Goto(p, l)
           /\ UNCHANGED <<st, disk, day, schedule, session>>
    BY <1>4 DEF RecvProvision, BeginRefresh, BeginQuery, inputVars
  <2>3. CASE \E l \in {"salt", "round0"} : Goto(p, l)
             /\ UNCHANGED <<st, disk, day, schedule, session>>
    <3>1. PICK l \in {"salt", "round0"} : Goto(p, l)
             /\ UNCHANGED <<st, disk, day, schedule, session>>
      BY <2>3
    <3>2. day[p] = Len(schedule[p]) /\ pc[p] \in Unevaluated /\ l \in Unevaluated
      BY <1>1, <2>1 DEF Asked, Unevaluated
    <3> QED BY <1>1, <3>1, <3>2, MoveGoesOn
  <2> QED BY <2>1, <2>2, <2>3, StopEnds
<1>5. CASE RecvSalt(p)
  <2>1. pc[p] = "salt"
    BY <1>5 DEF RecvSalt
  <2>2. PICK salt : /\ st' = [st EXCEPT ![p] = Rebuilt(st[p], salt)]
                    /\ Goto(p, "round0")
                    /\ UNCHANGED <<disk, day, schedule, session>>
    BY <1>5 DEF RecvSalt, BeginQuery, inputVars
  <2> DEFINE s == Rebuilt(st[p], salt)
  <2>3. /\ s.query_no = st[p].query_no /\ s.cached = st[p].cached
        /\ s.cache = st[p].cache
    BY <1>1 DEF Rebuilt, States
  <2> HIDE DEF s
  <2>4. st'[p] = s /\ \A q \in Party : q # p => st'[q] = st[q]
    BY <2>2 DEF TypeOK, s
  <2>5. day[p] = Len(schedule[p]) /\ pc[p] \in Unevaluated /\ "round0" \in Unevaluated
    BY <1>1, <2>1 DEF Asked, Unevaluated
  <2> QED BY <1>1, <2>2, <2>3, <2>4, <2>5, MoveGoesOn
<1>6. CASE RecvRound0(p)
  <2>1. pc[p] = "round0" /\ pc[p] \notin Ended
    BY <1>6, RunningStates DEF RecvRound0
  <2>2. \E n : PublishSupports(p, n) \/ PublishDirty(p, n)
    BY <1>6 DEF RecvRound0
  <2>3. \/ Stop(p, "occupied") \/ Stop(p, "umax")
        \/ \E l \in {"jtilde", "supports"} :
              \E path, n, set : Publish(p, l, path, n, set)
    BY <2>2 DEF PublishSupports, PublishDirty
  <2>4. ASSUME NEW l \in {"jtilde", "supports"}, NEW path, NEW n, NEW set,
               Publish(p, l, path, n, set)
        PROVE  GoesOn(p)
    <3>1. Goto(p, l) /\ UNCHANGED <<st, disk, day, schedule, session>>
      BY <2>4 DEF Publish, inputVars
    <3>2. day[p] = Len(schedule[p]) /\ pc[p] \in Unevaluated /\ l \in Unevaluated
      BY <1>1, <2>1 DEF Asked, Unevaluated
    <3> QED BY <1>1, <3>1, <3>2, MoveGoesOn
  <2> QED BY <2>1, <2>3, <2>4, StopEnds
<1>7. CASE RecvIndices(p)
  <2>1. pc[p] \in {"jtilde", "supports"} /\ pc[p] \notin Ended
    BY <1>7, RunningStates DEF RecvIndices
  <2>2. \/ Stop(p, "length") \/ Stop(p, "exhausted")
        \/ Goto(p, "eval") /\ UNCHANGED <<st, disk, day, schedule, session>>
    BY <1>7 DEF RecvIndices, inputVars
  <2>3. /\ day[p] = Len(schedule[p]) /\ pc[p] \in Unevaluated
        /\ "eval" \in Unevaluated
    BY <1>1, <2>1 DEF Asked, Unevaluated
  <2> QED BY <1>1, <2>1, <2>2, <2>3, StopEnds, MoveGoesOn
<1> QED BY <1>2, <1>3, <1>4, <1>5, <1>6, <1>7

LEMMA ReachIn == TypeOK => \A p \in Party : CanReach(p) \in Nat
<1>1. TypeOK => \A p \in Party : disk[p].query_no \in Nat
  BY DEF TypeOK, States
<1> QED BY <1>1 DEF CanReach

\* No step but the start of a session lets a file reach further than before.
LEMMA ReachesNoFurther ==
    ASSUME TypeOK, OnceInv, NEW p \in Party,
           disk'[p].query_no = disk[p].query_no, schedule' = schedule,
           MayCommit(p)' => MayCommit(p)
    PROVE  CanReach(p)' <= CanReach(p)
<1>1. disk[p].query_no \in Nat
  BY DEF TypeOK, States
<1> QED BY <1>1 DEF CanReach

LEMMA OpenReaches ==
    ASSUME OnceInv, TypeOK, NEW p \in Party, CommitQuery(p)
    PROVE  /\ st'[p] = Commit(st[p], loc[p].path, loc[p].betas, loc[p].fresh)
           /\ disk'[p] = st'[p]
           /\ st'[p].query_no = st[p].query_no + 1
           /\ \A q \in Party : q # p => /\ st'[q] = st[q] /\ disk'[q] = disk[q]
                                        /\ pc'[q] = pc[q] /\ loc'[q] = loc[q]
           /\ pc[p] = "commit" /\ pc'[p] = "open"
           /\ CanReach(p)' = CanReach(p) /\ CanReach(p) = disk[p].query_no + 1
           /\ UNCHANGED <<day, schedule, session, offline>>
<1> DEFINE s == Commit(st[p], loc[p].path, loc[p].betas, loc[p].fresh)
<1>1. /\ st[p] \in States /\ disk[p] \in States /\ pc[p] = "commit"
      /\ st[p].query_no = disk[p].query_no
      /\ day[p] = Len(schedule[p])
  BY DEF TypeOK, CommitQuery, OnceInv, Asked
<1>2. s.query_no = st[p].query_no + 1
  BY <1>1, CommitKeeps
<1>3. /\ st' = [st EXCEPT ![p] = s] /\ disk' = [disk EXCEPT ![p] = s]
      /\ Goto(p, "open") /\ \E l : loc' = [loc EXCEPT ![p] = l]
      /\ UNCHANGED <<day, schedule, session, offline>>
  BY DEF CommitQuery, inputVars
<1> HIDE DEF s
<1>4. /\ st'[p] = s /\ disk'[p] = s /\ pc'[p] = "open"
      /\ \A q \in Party : q # p => /\ st'[q] = st[q] /\ disk'[q] = disk[q]
                                   /\ pc'[q] = pc[q] /\ loc'[q] = loc[q]
  BY <1>3 DEF TypeOK, Goto
<1>5. Len(schedule[p]) \in Nat /\ disk[p].query_no \in Nat
  BY <1>1, ScheduleLength DEF States
<1>6. MayCommit(p) /\ ~ MayCommit(p)'
  BY <1>1, <1>4, <1>5 DEF MayCommit, Ended
<1> QED BY <1>1, <1>2, <1>3, <1>4, <1>5, <1>6 DEF CanReach, s

\* The count is opened on the last day of the schedule.
LEMMA OpeningIs ==
    ASSUME OnceInv, TypeOK, NEW p \in Party, RecvOpen(p)
    PROVE  /\ pc[p] = "open" /\ pc'[p] = "idle" /\ day'[p] > Len(schedule[p])
           /\ \A q \in Party : q # p => pc'[q] = pc[q] /\ day'[q] = day[q]
           /\ UNCHANGED <<st, disk, schedule, session, offline>>
           /\ \A q \in Party : pc[q] = "commit" => loc'[q] = loc[q]
<1>1. /\ pc[p] = "open" /\ Goto(p, "idle") /\ day' = [day EXCEPT ![p] = @ + 1]
      /\ loc' = [loc EXCEPT ![p] = NoLocals]
      /\ UNCHANGED <<st, disk, schedule, session, offline>>
  BY DEF RecvOpen, inputVars
<1>2. day[p] = Len(schedule[p]) /\ Len(schedule[p]) \in Nat
  BY <1>1, ScheduleLength DEF OnceInv, Asked
<1>3. pc'[p] = "idle" /\ \A q \in Party : q # p => pc'[q] = pc[q]
  BY <1>1 DEF Goto, TypeOK
<1>4. day'[p] = day[p] + 1 /\ \A q \in Party : q # p => day'[q] = day[q]
  BY <1>1 DEF TypeOK
<1>5. \A q \in Party : pc[q] = "commit" => loc'[q] = loc[q]
  BY <1>1 DEF TypeOK
<1> QED BY <1>1, <1>2, <1>3, <1>4, <1>5

\* What a party's own step does to the bound on its file.
LEMMA OwnOnce ==
    ASSUME TypeOK, OnceInv, OneQueryEach, NEW p \in Party,
           \/ GoesOn(p) \/ EndsNow(p)
           \/ EvaluateAlone(p) \/ CommitQuery(p) \/ RecvOpen(p) \/ UpdateOnly(p)
    PROVE  OnceInv' /\ session' = session /\ \A x \in Party : CanReach(x)' <= CanReach(x)
<1> DEFINE q == Peer(p)
<1>1. q \in Party /\ q # p /\ Party = {p, q}
  BY PeerIn, Both
<1>2. /\ \A x \in Party : /\ Len(schedule[x]) \in Nat /\ day[x] \in Nat
                          /\ disk[x] \in States /\ disk[x].query_no \in Nat
                          /\ CanReach(x) \in Nat
      /\ session \in Nat
  <2>1. \A x \in Party : disk[x] \in States /\ disk[x].query_no \in Nat
    BY DEF TypeOK, States
  <2>2. session \in Nat
    BY DEF TypeOK
  <2> QED BY <2>1, <2>2, ReachIn, ScheduleLength
<1>3. CASE GoesOn(p)
  <2>1. /\ \A x \in Party : MayCommit(x)' => MayCommit(x)
        /\ session' = session /\ disk' = disk /\ schedule' = schedule
        /\ \A x \in Party : st'[x].query_no = st[x].query_no
    BY <1>1, <1>2, <1>3, RunningStates DEF GoesOn, MayCommit, Unevaluated, Ended
  <2>2. \A x \in Party : CanReach(x)' <= CanReach(x) /\ CanReach(x)' \in Nat
    <3>1. \A x \in Party : CanReach(x)' <= CanReach(x)
      BY <2>1, ReachesNoFurther
    <3> QED BY <1>2, <2>1, <3>1 DEF CanReach
  <2>3. \A x \in Party : /\ pc'[x] = "sync" => day'[x] <= Len(schedule[x])
                         /\ pc'[x] \in Asked => day'[x] = Len(schedule[x])
    BY <1>1, <1>3 DEF GoesOn, OnceInv
  <2> QED BY <1>2, <2>1, <2>2, <2>3 DEF OnceInv
<1>4. CASE EndsNow(p)
  <2>1. /\ \A x \in Party : MayCommit(x)' => MayCommit(x)
        /\ session' = session /\ disk' = disk /\ schedule' = schedule
        /\ st' = st /\ day' = day
    BY <1>1, <1>4 DEF EndsNow, MayCommit
  <2>2. \A x \in Party : CanReach(x)' <= CanReach(x) /\ CanReach(x)' \in Nat
    <3>1. \A x \in Party : CanReach(x)' <= CanReach(x)
      BY <2>1, ReachesNoFurther
    <3> QED BY <1>2, <2>1, <3>1 DEF CanReach
  <2>3. \A x \in Party : pc'[x] = pc[x] \/ pc'[x] \in Ended
    BY <1>1, <1>4 DEF EndsNow
  <2>4. \A x \in Party : /\ pc'[x] = "sync" => pc[x] = "sync"
                         /\ pc'[x] \in Asked => pc[x] \in Asked
    BY <2>3 DEF Ended, Asked
  <2> QED BY <1>2, <2>1, <2>2, <2>4 DEF OnceInv
<1>5. CASE EvaluateAlone(p)
  <2>1. /\ pc[p] = "eval" /\ Goto(p, "commit")
        /\ UNCHANGED <<st, disk, day, schedule, session>>
    BY <1>5 DEF EvaluateAlone, inputVars
  <2>2. pc'[p] = "commit" /\ \A x \in Party : x # p => pc'[x] = pc[x]
    BY <2>1 DEF Goto, TypeOK
  <2>3. \A x \in Party : /\ MayCommit(x)' => MayCommit(x)
                         /\ pc'[x] = "sync" => pc[x] = "sync"
                         /\ pc'[x] \in Asked => pc[x] \in Asked
    BY <1>1, <2>1, <2>2 DEF MayCommit, Ended, Asked
  <2>4. \A x \in Party : CanReach(x)' <= CanReach(x) /\ CanReach(x)' \in Nat
    <3>1. \A x \in Party : CanReach(x)' <= CanReach(x)
      BY <2>1, <2>3, ReachesNoFurther
    <3> QED BY <1>2, <2>1, <3>1 DEF CanReach
  <2> QED BY <1>2, <2>1, <2>3, <2>4 DEF OnceInv
<1>6. CASE CommitQuery(p)
  <2>1. /\ disk'[p] = st'[p] /\ st'[q] = st[q] /\ disk'[q] = disk[q]
        /\ pc[p] = "commit" /\ pc'[p] = "open" /\ pc'[q] = pc[q]
        /\ CanReach(p)' = CanReach(p)
        /\ UNCHANGED <<day, schedule, session, offline>>
    BY <1>1, <1>6, OpenReaches
  <2>2. CanReach(q)' = CanReach(q)
    BY <2>1 DEF CanReach, MayCommit
  <2>3. \A x \in Party : st'[x].query_no = disk'[x].query_no
    BY <1>1, <2>1 DEF OnceInv
  <2>4. \A x \in Party : /\ pc'[x] = "sync" => pc[x] = "sync"
                         /\ pc'[x] \in Asked => pc[x] \in Asked
    BY <1>1, <2>1 DEF Asked
  <2> QED BY <1>1, <1>2, <2>1, <2>2, <2>3, <2>4 DEF OnceInv
<1>7. CASE RecvOpen(p)
  <2>1. /\ pc[p] = "open" /\ pc'[p] = "idle" /\ day'[p] > Len(schedule[p])
        /\ pc'[q] = pc[q] /\ day'[q] = day[q]
        /\ UNCHANGED <<st, disk, schedule, session, offline>>
    BY <1>1, <1>7, OpeningIs
  <2>2. ~ MayCommit(p)' /\ MayCommit(q)' = MayCommit(q)
    <3>1. day'[p] \in Int
      BY <1>2, <1>7 DEF RecvOpen, TypeOK
    <3> QED BY <1>2, <2>1, <3>1 DEF MayCommit
  <2>3. \A x \in Party : CanReach(x)' <= CanReach(x) /\ CanReach(x)' \in Nat
    <3>1. \A x \in Party : CanReach(x)' <= CanReach(x)
      BY <1>1, <2>1, <2>2, ReachesNoFurther
    <3> QED BY <1>2, <2>1, <3>1 DEF CanReach
  <2> QED BY <1>1, <1>2, <2>1, <2>3 DEF OnceInv, Asked
<1>8. CASE UpdateOnly(p)
  <2>1. PICK I \in SUBSET Id, D \in SUBSET Id :
          disk' = [disk EXCEPT ![p] = Apply(@, I, D, @.oracle_salt)]
    BY <1>8 DEF UpdateOnly
  <2>2. UNCHANGED <<st, pc, day, schedule, session>>
    BY <1>8 DEF UpdateOnly, procVars
  <2>3. \A x \in Party : disk'[x].query_no = disk[x].query_no
    <3>1. Apply(disk[p], I, D, disk[p].oracle_salt).query_no = disk[p].query_no
      BY <1>2 DEF Apply, States
    <3> QED BY <1>1, <2>1, <3>1 DEF TypeOK
  <2>4. \A x \in Party : CanReach(x)' = CanReach(x)
    BY <2>2, <2>3 DEF CanReach, MayCommit
  <2> QED BY <1>2, <2>2, <2>3, <2>4 DEF OnceInv
<1> QED BY <1>3, <1>4, <1>5, <1>6, <1>7, <1>8

\* The evaluation together leaves what the files can reach as it is.
LEMMA EvaluateOnce ==
    ASSUME TypeOK, OnceInv, Evaluate
    PROVE  OnceInv' /\ session' = session /\ \A x \in Party : CanReach(x)' = CanReach(x)
<1>1. /\ \A x \in Party : pc[x] = "eval" /\ pc'[x] = "commit"
      /\ UNCHANGED <<st, disk, day, schedule, session>>
  BY DEF Evaluate, inputVars
<1>2. \A x \in Party : MayCommit(x)' = MayCommit(x)
  BY <1>1 DEF MayCommit, Ended
<1>3. \A x \in Party : CanReach(x)' = CanReach(x)
  BY <1>1, <1>2 DEF CanReach
<1> QED BY <1>1, <1>3 DEF OnceInv, Asked

\* A new session lets every file reach one query more.
LEMMA StartOnce ==
    ASSUME TypeOK, OnceInv, OneQueryEach, StartSession
    PROVE  /\ OnceInv' /\ session' = session + 1
           /\ \A x \in Party : /\ pc'[x] = "idle" /\ day'[x] <= Len(schedule'[x])
                              /\ CanReach(x)' = CanReach(x) + 1
                              /\ CanReach(x) = disk[x].query_no
<1>1. /\ \A x \in Party : pc[x] \in Ended /\ pc'[x] = "idle" /\ day'[x] = 1
      /\ st' = disk /\ disk' = disk /\ session' = session + 1
      /\ \A x \in Party : schedule'[x] \in Schedules
  BY DEF StartSession, Down
<1>2. \A x \in Party : disk[x].query_no \in Nat /\ session \in Nat
  BY DEF TypeOK, States
<1>3. \A x \in Party : 1 <= Len(schedule'[x])
  <2>1. SUFFICES ASSUME NEW s \in Schedules PROVE 1 <= Len(s)
    BY <1>1
  <2>2. s \in Seq(Day) /\ s # <<>>
    BY SessionAssumption DEF OneQueryEach, AsksLast
  <2> QED BY <2>2
<1>4. \A x \in Party : ~ MayCommit(x) /\ MayCommit(x)'
  BY <1>1, <1>3 DEF MayCommit, Ended
<1>5. \A x \in Party : /\ CanReach(x) = disk[x].query_no
                       /\ CanReach(x)' = CanReach(x) + 1
  BY <1>1, <1>2, <1>4 DEF CanReach
<1>6. OnceInv'
  BY <1>1, <1>2, <1>5 DEF OnceInv, Asked
<1> QED BY <1>1, <1>3, <1>5, <1>6

\* A session once lost stays lost.
LEMMA LostForGood ==
    ASSUME TypeOK, OnceInv, LostOne,
           \/ session' = session /\ \A x \in Party : CanReach(x)' <= CanReach(x)
           \/ session' = session + 1 /\ \A x \in Party : CanReach(x)' = CanReach(x) + 1,
           OnceInv', TypeOK'
    PROVE  LostOne'
<1>1. PICK x \in Party : CanReach(x) < session
  BY DEF LostOne
<1>2. CanReach(x) \in Nat /\ CanReach(x)' \in Nat /\ session \in Nat
  <2>1. /\ disk[x] \in States /\ disk'[x] \in States /\ session \in Nat
    BY DEF TypeOK
  <2> QED BY <2>1 DEF CanReach, States
<1>3. CanReach(x)' < session'
  BY <1>1, <1>2
<1> QED BY <1>3 DEF LostOne

\* A party that ends before its commit has lost the session.
LEMMA EndingLoses ==
    ASSUME TypeOK, OnceInv, NEW p \in Party, MayCommit(p), EndsNow(p)
    PROVE  LostOne'
<1>1. /\ disk[p].query_no \in Nat /\ session \in Nat
      /\ CanReach(p) = disk[p].query_no + 1 /\ CanReach(p) <= session
  BY DEF TypeOK, States, OnceInv, CanReach
<1>2. ~ MayCommit(p)' /\ disk' = disk /\ session' = session
  BY DEF EndsNow, MayCommit
<1>3. CanReach(p)' = disk[p].query_no
  BY <1>1, <1>2 DEF CanReach
<1> QED BY <1>1, <1>2, <1>3 DEF LostOne

\* Towards the evaluation.
LEMMA BeforeEvaluationOn ==
    ASSUME BeforeEvaluation, NEW p \in Party, GoesOn(p), JointInv'
    PROVE  BeforeEvaluation'
<1>1. \A x \in Party : pc'[x] \in Unevaluated /\ day'[x] <= Len(schedule'[x])
  BY DEF BeforeEvaluation, GoesOn
<1>2. \A x \in Party : st'[x].cached = st[x].cached /\ st'[x].cache = st[x].cache
  BY DEF GoesOn
<1>3. KeyedAlike(st["R"], st["S"])'
  BY <1>2 DEF BeforeEvaluation, KeyedAlike, Party
<1> QED BY <1>1, <1>3 DEF BeforeEvaluation

\* Both parties compute the same buckets, so their maps get the same keys.
LEMMA CommitKeyed ==
    ASSUME NEW sR \in States, NEW sS \in States, KeyedAlike(sR, sS), NEW path,
           NEW betas \in SUBSET Index,
           NEW fR \in [Index -> Fp], NEW fS \in [Index -> Fp]
    PROVE  KeyedAlike(Commit(sR, path, betas, fR), Commit(sS, path, betas, fS))
<1>1. KeyedAlike(CommitReplace(sR, betas, fR), CommitReplace(sS, betas, fS))
  BY DEF KeyedAlike, CommitReplace, States
<1>2. KeyedAlike(CommitAccumulate(sR, betas, fR), CommitAccumulate(sS, betas, fS))
  BY DEF KeyedAlike, CommitAccumulate, States
<1> QED BY <1>1, <1>2 DEF Commit

LEMMA EvaluateBehind ==
    ASSUME Joint, BeforeEvaluation, Evaluate
    PROVE  PastEvaluation'
<1> DEFINE betas == loc["R"].betas
           path == IF FullPath THEN "full" ELSE "incremental"
<1>1. "R" \in Party /\ "S" \in Party
  BY DEF Party
<1>2. \A x \in Party : pc[x] = "eval" /\ pc'[x] = "commit"
  BY DEF Evaluate
<1>3. PICK mask \in [betas -> Masks], t \in [betas -> 0..T] :
        loc' = [p \in Party |-> [loc[p] EXCEPT !.fresh = Shares(p, mask, t)]]
  BY DEF Evaluate, Shares
<1> DEFINE fR == Shares("R", mask, t)
           fS == Shares("S", mask, t)
<1>4. \A x \in Party : loc[x].betas = betas /\ loc[x].path = path
  BY <1>2, Evaluating
<1>5. betas \in SUBSET Index /\ \A x \in Party : st[x] \in States /\ loc[x] \in Locals
  BY <1>1 DEF Joint, TypeOK, Locals
<1>6. fR \in [Index -> Fp] /\ fS \in [Index -> Fp]
  BY <1>5, SharesType
<1>7. /\ loc'["R"].fresh = fR /\ loc'["S"].fresh = fS
      /\ \A x \in Party : loc'[x].path = path /\ loc'[x].betas = betas
  BY <1>1, <1>3, <1>4, <1>5 DEF Locals
<1>8. UNCHANGED <<st, disk>>
  BY DEF Evaluate
<1> HIDE DEF fR, fS, path, betas
<1>9. /\ Durable("R")' = Commit(st["R"], path, betas, fR)
      /\ Durable("S")' = Commit(st["S"], path, betas, fS)
  BY <1>1, <1>2, <1>7, <1>8 DEF Durable, Working
<1>10. Related(Durable("R"), Durable("S"))'
  BY EvaluateJoint DEF JointInv, OnDisk
<1>11. KeyedAlike(Durable("R"), Durable("S"))'
  BY <1>1, <1>5, <1>6, <1>9, CommitKeyed DEF BeforeEvaluation
<1>12. \A x \in Party : Durable(x)'.my_ids = st'[x].my_ids /\ Durable(x)'.J = {}
  <2>1. /\ Durable("R")'.my_ids = st["R"].my_ids /\ Durable("R")'.J = {}
        /\ Durable("S")'.my_ids = st["S"].my_ids /\ Durable("S")'.J = {}
    BY <1>1, <1>5, <1>9, CommitKeeps
  <2> QED BY <1>8, <2>1 DEF Party
<1> QED BY <1>2, <1>10, <1>11, <1>12 DEF PastEvaluation

\* Behind the evaluation, what a party will come back with never changes again,
\* unless it ends before its commit.
LEMMA PastEvaluationKept ==
    ASSUME PastEvaluation, session' = session,
           \A x \in Party : \/ pc'[x] \in {"commit", "open"} \cup Ended
                            \/ pc'[x] = "idle" /\ day'[x] > Len(schedule'[x]),
           \A x \in Party : Durable(x)' = Durable(x) /\ st'[x].my_ids = st[x].my_ids
    PROVE  PastEvaluation'
<1>1. "R" \in Party /\ "S" \in Party
  BY DEF Party
<1> QED BY <1>1 DEF PastEvaluation

LEMMA PastEvaluationStep ==
    ASSUME TypeOK, OnceInv, PastEvaluation, NEW p \in Party,
           \/ EndsNow(p) \/ CommitQuery(p) \/ RecvOpen(p)
    PROVE  LostOne' \/ PastEvaluation'
<1> DEFINE q == Peer(p)
<1>1. q \in Party /\ q # p /\ Party = {p, q}
  BY PeerIn, Both
<1>2. \A x \in Party : \/ pc[x] \in {"commit", "open"} \cup Ended
                       \/ pc[x] = "idle" /\ day[x] > Len(schedule[x])
  BY DEF PastEvaluation
<1>3. CASE EndsNow(p)
  <2>1. CASE pc[p] = "commit"
    <3>1. day[p] = Len(schedule[p]) /\ Len(schedule[p]) \in Nat
      BY <2>1, ScheduleLength DEF OnceInv, Asked
    <3>2. MayCommit(p)
      BY <2>1, <3>1 DEF MayCommit, Ended
    <3> QED BY <1>3, <3>2, EndingLoses
  <2>2. CASE pc[p] # "commit"
    <3>1. /\ pc'[p] \in Ended /\ pc'[p] # "commit" /\ pc'[q] = pc[q]
          /\ UNCHANGED <<st, disk, loc, day, schedule, session>>
      BY <1>1, <1>3 DEF EndsNow, Ended
    <3>2. Durable(p)' = Durable(p) /\ Durable(q)' = Durable(q)
      BY <2>2, <3>1 DEF Durable, Working
    <3> QED BY <1>1, <1>2, <3>1, <3>2, PastEvaluationKept
  <2> QED BY <2>1, <2>2
<1>4. CASE CommitQuery(p)
  <2>1. /\ st'[p] = Commit(st[p], loc[p].path, loc[p].betas, loc[p].fresh)
        /\ disk'[p] = st'[p]
        /\ st'[q] = st[q] /\ disk'[q] = disk[q] /\ pc'[q] = pc[q] /\ loc'[q] = loc[q]
        /\ pc[p] = "commit" /\ pc'[p] = "open"
        /\ UNCHANGED <<day, schedule, session, offline>>
    BY <1>1, <1>4, OpenReaches
  <2>2. Durable(p)' = Durable(p) /\ Durable(q)' = Durable(q)
    BY <2>1 DEF Durable, Working
  <2>3. st'[p].my_ids = st[p].my_ids
    <3>1. st[p] \in States
      BY DEF TypeOK
    <3> QED BY <2>1, <3>1, CommitKeeps
  <2> QED BY <1>1, <1>2, <2>1, <2>2, <2>3, PastEvaluationKept
<1>5. CASE RecvOpen(p)
  <2>1. /\ pc[p] = "open" /\ pc'[p] = "idle" /\ day'[p] > Len(schedule[p])
        /\ pc'[q] = pc[q] /\ day'[q] = day[q] /\ (pc[q] = "commit" => loc'[q] = loc[q])
        /\ UNCHANGED <<st, disk, schedule, session, offline>>
    BY <1>1, <1>5, OpeningIs
  <2>2. Durable(p)' = Durable(p) /\ Durable(q)' = Durable(q)
    BY <2>1 DEF Durable, Working
  <2> QED BY <1>1, <1>2, <2>1, <2>2, PastEvaluationKept
<1> QED BY <1>3, <1>4, <1>5

LEMMA StartBefore ==
    ASSUME TypeOK, OnceInv, OneQueryEach, PastEvaluation, StartSession
    PROVE  BeforeEvaluation'
<1>1. "R" \in Party /\ "S" \in Party
  BY DEF Party
<1>2. \A x \in Party : Durable(x) = disk[x]
  BY DEF StartSession, Down, Durable, Ended
<1>3. Related(disk["R"], disk["S"]) /\ KeyedAlike(disk["R"], disk["S"])
  BY <1>1, <1>2 DEF PastEvaluation
<1>4. JointInv' /\ st' = disk
  BY <1>3, StartFromFiles DEF StartSession
<1>5. \A x \in Party : pc'[x] \in Unevaluated /\ day'[x] <= Len(schedule'[x])
  BY StartOnce DEF Unevaluated
<1> QED BY <1>3, <1>4, <1>5 DEF BeforeEvaluation

LEMMA PostInit == Init => PostInv
<1> SUFFICES ASSUME Init PROVE PostInv
  OBVIOUS
<1>1. PairInv
  BY PairInit
<1>2. "R" \in Party /\ "S" \in Party
  BY DEF Party
<1>3. /\ st = disk /\ session = 0 /\ \A x \in Party : pc[x] = "done"
  BY DEF Init
<1>4. PICK ids \in [Party -> InitIds] : disk = [x \in Party |-> LoadedWith(ids[x])]
  BY DEF Init
<1>5. \A x \in Party : /\ disk[x].query_no = 0 /\ disk[x].oracle_salt = EpochZero
                       /\ disk[x].cached = {} /\ disk[x].cache = [b \in Index |-> 0]
  BY <1>4 DEF LoadedWith, Apply, Fresh
<1>6. \A x \in Party : CanReach(x) = 0 /\ Durable(x) = disk[x]
  BY <1>3, <1>5 DEF CanReach, MayCommit, Durable, Ended
<1>7. OnceInv
  BY <1>3, <1>6 DEF OnceInv, Asked
<1>8. Related(disk["R"], disk["S"]) /\ KeyedAlike(disk["R"], disk["S"])
  <2>1. Related(disk["R"], disk["S"])
    BY <1>2, <1>5 DEF Related
  <2>2. \A x \in Party, b \in Index : disk[x].cache[b] = 0
    BY <1>5
  <2>3. KeyedAlike(disk["R"], disk["S"])
    BY <1>2, <1>5, <2>2 DEF KeyedAlike
  <2> QED BY <2>1, <2>3
<1>9. PastEvaluation
  BY <1>2, <1>3, <1>6, <1>8 DEF PastEvaluation, Ended
<1> QED BY <1>1, <1>7, <1>9 DEF PostInv, PairInv

\* Only an --update-only run changes the count of such runs.
LEMMA OfflineNext ==
    ASSUME TypeOK, [Next]_vars, offline' = 0
    PROVE  offline = 0 /\ ~ \E p \in Party : UpdateOnly(p)
<1>1. offline \in Nat
  BY DEF TypeOK
<1>2. ~ \E p \in Party : UpdateOnly(p)
  BY <1>1 DEF UpdateOnly
<1>3. ASSUME NEW p \in Party,
             \/ BeginDay(p) \/ RecvProvision(p) \/ RecvSalt(p) \/ EvaluateAlone(p)
             \/ CommitQuery(p) \/ RecvOpen(p) \/ Exit(p) \/ LosePeer(p) \/ Crash(p)
      PROVE  UNCHANGED offline
  BY <1>3 DEF BeginDay, RecvProvision, RecvSalt, EvaluateAlone, CommitQuery, RecvOpen,
              Exit, LosePeer, Stop, Crash, inputVars
<1>4. ASSUME NEW p \in Party, RecvSync(p)
      PROVE  UNCHANGED offline
  <2>1. \/ Stop(p, "drift") \/ Stop(p, "salt")
        \/ \E I, D \in SUBSET Id : ApplyEdits(p, I, D)
    BY <1>4 DEF RecvSync
  <2> QED BY <2>1 DEF Stop, ApplyEdits, inputVars
<1>5. ASSUME NEW p \in Party, RecvRound0(p)
      PROVE  UNCHANGED offline
  <2>1. \E n : PublishSupports(p, n) \/ PublishDirty(p, n)
    BY <1>5 DEF RecvRound0
  <2>2. \/ Stop(p, "occupied") \/ Stop(p, "umax")
        \/ \E kind, path, n, set : Publish(p, kind, path, n, set)
    BY <2>1 DEF PublishSupports, PublishDirty
  <2> QED BY <2>2 DEF Stop, Publish, inputVars
<1>6. ASSUME NEW p \in Party, RecvIndices(p)
      PROVE  UNCHANGED offline
  BY <1>6 DEF RecvIndices, Stop, inputVars
<1>7. ASSUME Evaluate \/ StartSession
      PROVE  UNCHANGED offline
  BY <1>7 DEF Evaluate, StartSession, inputVars
<1>8. ASSUME Quiescent \/ UNCHANGED vars
      PROVE  UNCHANGED offline
  BY <1>8 DEF Quiescent, vars
<1> QED BY <1>2, <1>3, <1>4, <1>5, <1>6, <1>7, <1>8 DEF Next

LEMMA BeforeEvaluationStep ==
    ASSUME Joint, OnceInv, OneQueryEach, BeforeEvaluation, NEW p \in Party,
           \/ BeginDay(p) \/ RecvSync(p) \/ RecvProvision(p) \/ RecvSalt(p)
           \/ RecvRound0(p) \/ RecvIndices(p) \/ EvaluateAlone(p)
           \/ LosePeer(p) \/ Exit(p) \/ Crash(p)
    PROVE  LostOne' \/ BeforeEvaluation'
<1>1. TypeOK /\ MayCommit(p)
  BY DEF Joint, BeforeEvaluation, MayCommit, Unevaluated, Ended
<1>2. CASE EndsNow(p)
  BY <1>1, <1>2, EndingLoses
<1>3. CASE LosePeer(p) \/ Exit(p) \/ Crash(p)
  BY <1>1, <1>2, <1>3, LeavingEnds
<1>4. CASE EvaluateAlone(p)
  BY <1>4, OnlyTheLeftFail DEF EvaluateAlone
<1>5. CASE \/ BeginDay(p) \/ RecvSync(p) \/ RecvProvision(p) \/ RecvSalt(p)
           \/ RecvRound0(p) \/ RecvIndices(p)
  <2>1. GoesOn(p) \/ EndsNow(p)
    BY <1>1, <1>5, EarlyGoOn
  <2>2. JointInv'
    BY <1>5, BeginDayJoint, RecvSyncJoint, RecvProvisionJoint, RecvSaltJoint,
       RecvRound0Joint, RecvIndicesJoint
  <2> QED BY <1>2, <2>1, <2>2, BeforeEvaluationOn
<1> QED BY <1>3, <1>4, <1>5

\* Behind the evaluation nobody is where those steps start.
LEMMA PastEvaluationOnly ==
    ASSUME TypeOK, PastEvaluation, NEW p \in Party,
           \/ BeginDay(p) \/ RecvSync(p) \/ RecvProvision(p) \/ RecvSalt(p)
           \/ RecvRound0(p) \/ RecvIndices(p) \/ EvaluateAlone(p)
    PROVE  FALSE
<1>1. \/ pc[p] \in {"commit", "open"} \cup Ended
      \/ pc[p] = "idle" /\ day[p] > Len(schedule[p])
  BY DEF PastEvaluation
<1>2. CASE BeginDay(p)
  <2>1. day[p] <= Len(schedule[p]) /\ pc[p] = "idle"
    BY <1>2 DEF BeginDay
  <2> QED BY <1>1, <2>1, ScheduleLength DEF Ended
<1>3. CASE pc[p] \in Unevaluated \ {"idle"}
  BY <1>1, <1>3 DEF Unevaluated, Ended
<1> QED BY <1>2, <1>3 DEF RecvSync, RecvProvision, RecvSalt, RecvRound0, RecvIndices,
                         EvaluateAlone, Unevaluated

LEMMA StutterPost ==
    ASSUME PostInv, UNCHANGED vars
    PROVE  PostInv'
<1>1. TypeOK' /\ LocalInv' /\ SameFlags'
  BY TypeNext, LocalNext DEF PostInv, vars, SameFlags
<1>2. \A x \in Party : /\ MayCommit(x)' = MayCommit(x) /\ CanReach(x)' = CanReach(x)
                       /\ Durable(x)' = Durable(x)
  BY DEF vars, MayCommit, CanReach, Durable, Working
<1>3. OnceInv'
  BY <1>2 DEF vars, OnceInv, PostInv
<1>4. LostOne => LostOne'
  BY <1>2 DEF vars, LostOne
<1>5. BeforeEvaluation => BeforeEvaluation'
  BY StutterJoint DEF vars, BeforeEvaluation, KeyedAlike
<1>6. PastEvaluation => PastEvaluation'
  <2>1. "R" \in Party /\ "S" \in Party
    BY DEF Party
  <2> QED BY <1>2, <2>1 DEF vars, PastEvaluation
<1> QED BY <1>1, <1>3, <1>4, <1>5, <1>6 DEF PostInv, vars

LEMMA PostNext ==
    ASSUME OneQueryEach, PostInv, [Next]_vars, SameFlags'
    PROVE  PostInv'
<1>1. TypeOK /\ OnceInv /\ TypeOK' /\ LocalInv'
  BY TypeNext, LocalNext DEF PostInv
<1>2. ASSUME BeforeEvaluation PROVE Joint /\ ~ Down
  <2>1. ~ Down
    BY <1>2 DEF BeforeEvaluation, Down, Unevaluated, Ended, Party
  <2> QED BY <1>2, <2>1 DEF PostInv, Joint, BeforeEvaluation
<1>3. ASSUME NEW p \in Party,
             \/ BeginDay(p) \/ RecvSync(p) \/ RecvProvision(p) \/ RecvSalt(p)
             \/ RecvRound0(p) \/ RecvIndices(p) \/ EvaluateAlone(p)
             \/ CommitQuery(p) \/ RecvOpen(p) \/ LosePeer(p)
             \/ Exit(p) \/ Crash(p) \/ UpdateOnly(p)
      PROVE  PostInv'
  <2>1. \/ GoesOn(p) \/ EndsNow(p)
        \/ EvaluateAlone(p) \/ CommitQuery(p) \/ RecvOpen(p) \/ UpdateOnly(p)
    BY <1>1, <1>3, EarlyGoOn, LeavingEnds
  <2>2. OnceInv' /\ session' = session /\ \A x \in Party : CanReach(x)' <= CanReach(x)
    BY <1>1, <2>1, OwnOnce
  <2>3. ASSUME offline' = 0 PROVE LostOne' \/ BeforeEvaluation' \/ PastEvaluation'
    <3>1. /\ LostOne \/ BeforeEvaluation \/ PastEvaluation
          /\ ~ UpdateOnly(p)
      BY <1>1, <2>3, OfflineNext DEF PostInv
    <3>2. CASE LostOne
      BY <1>1, <2>2, <3>2, LostForGood
    <3>3. CASE BeforeEvaluation
      <4>1. ~ CommitQuery(p) /\ ~ RecvOpen(p)
        BY <3>3 DEF BeforeEvaluation, CommitQuery, RecvOpen, Unevaluated
      <4> QED BY <1>1, <1>2, <1>3, <3>1, <3>3, <4>1, BeforeEvaluationStep
    <3>4. CASE PastEvaluation
      <4>1. \/ EndsNow(p) \/ CommitQuery(p) \/ RecvOpen(p)
        BY <1>1, <1>3, <3>1, <3>4, PastEvaluationOnly, LeavingEnds
      <4> QED BY <1>1, <3>4, <4>1, PastEvaluationStep
    <3> QED BY <3>1, <3>2, <3>3, <3>4
  <2> QED BY <1>1, <2>2, <2>3 DEF PostInv
<1>4. CASE Evaluate
  <2>1. OnceInv' /\ session' = session /\ \A x \in Party : CanReach(x)' = CanReach(x)
    BY <1>1, <1>4, EvaluateOnce
  <2>2. \A x \in Party : CanReach(x)' <= CanReach(x)
    <3>1. \A x \in Party : CanReach(x) \in Nat
      BY <1>1, ReachIn
    <3> QED BY <2>1, <3>1
  <2>3. ASSUME offline = 0 PROVE LostOne' \/ BeforeEvaluation' \/ PastEvaluation'
    <3>1. LostOne \/ BeforeEvaluation \/ PastEvaluation
      BY <2>3 DEF PostInv
    <3>2. CASE LostOne
      BY <1>1, <2>1, <2>2, <3>2, LostForGood
    <3>3. CASE BeforeEvaluation
      BY <1>2, <1>4, <3>3, EvaluateBehind
    <3>4. CASE PastEvaluation
      BY <1>4, <3>4 DEF PastEvaluation, Evaluate, Ended, Party
    <3> QED BY <3>1, <3>2, <3>3, <3>4
  <2>4. offline' = offline
    BY <1>4 DEF Evaluate, inputVars
  <2> QED BY <1>1, <2>1, <2>3, <2>4 DEF PostInv
<1>5. CASE StartSession
  <2>1. /\ OnceInv' /\ session' = session + 1
        /\ \A x \in Party : CanReach(x)' = CanReach(x) + 1
    BY <1>1, <1>5, StartOnce
  <2>2. ASSUME offline = 0 PROVE LostOne' \/ BeforeEvaluation' \/ PastEvaluation'
    <3>1. LostOne \/ BeforeEvaluation \/ PastEvaluation
      BY <2>2 DEF PostInv
    <3>2. CASE LostOne
      BY <1>1, <2>1, <3>2, LostForGood
    <3>3. CASE BeforeEvaluation
      BY <1>2, <1>5, <3>3 DEF StartSession
    <3>4. CASE PastEvaluation
      BY <1>1, <1>5, <3>4, StartBefore
    <3> QED BY <3>1, <3>2, <3>3, <3>4
  <2>3. offline' = offline
    BY <1>5 DEF StartSession
  <2> QED BY <1>1, <2>1, <2>2, <2>3 DEF PostInv
<1>6. CASE Quiescent \/ UNCHANGED vars
  BY <1>6, StutterPost DEF Quiescent
<1> QED BY <1>3, <1>4, <1>5, <1>6 DEF Next

\* Two files that go together and have the same keys pass the check of a pair.
LEMMA PairPasses ==
    ASSUME NEW sR \in States, NEW sS \in States, KeyedAlike(sR, sS),
           CoherentCaches(sR, sS), sR.oracle_salt = sS.oracle_salt
    PROVE  PairCheck(sR, sS)
<1> DEFINE f == [b \in Index |-> sR.cache[b] + sS.cache[b]]
           h == [b \in Index |-> Opened(sR, sS, b)]
           cached == sR.cached
<1>1. /\ \A b \in Index : f[b] \in Int /\ h[b] = f[b] % P
      /\ cached \in SUBSET Index
  BY FpInt DEF States, Opened
<1>2. \A b \in Index \ cached : f[b] = 0
  BY DEF KeyedAlike
<1>3. (sR.t_share + sS.t_share) % P = SumOver(h, Index) % P
  BY DEF CoherentCaches, AddShares
<1>4. sR.cached = sS.cached
  BY DEF KeyedAlike
<1> HIDE DEF f, h
<1>5. SumOver(h, Index) % P = SumOver(f, Index) % P
  BY <1>1, IndexFinite, SumOfResidues
<1>6. SumOver(f, Index) = SumOver(f, cached)
  BY <1>1, <1>2, IndexFinite, SumSupport
<1>7. AddShares(f, cached) = (sR.t_share + sS.t_share) % P
  BY <1>3, <1>5, <1>6 DEF AddShares
<1> QED BY <1>4, <1>7 DEF PairCheck, f

\* The two files of parties that have both committed every query pass the check
\* of crash_post_check, after any number of crashes at any point of any session:
\* a party that ends before its commit leaves a file that is a query short for
\* good, and from the joint evaluation on the two commits can only be made of
\* the same buckets and of shares that belong together
\* (crash_post_check.cpp:100-232, query.cpp:207-264).
THEOREM PostCheckPassesHolds ==
    ASSUME OneQueryEach
    PROVE  Spec /\ []SameFlags => [](offline = 0 => PostCheckPasses)
<1>1. Init => PostInv
  BY PostInit
<1>2. PostInv /\ [Next]_vars /\ SameFlags' => PostInv'
  BY PostNext
<1>3. ASSUME PostInv, offline = 0 PROVE PostCheckPasses
  <2>1. SUFFICES ASSUME Down, session > 0, \A p \in Party : disk[p].query_no = session
                 PROVE  PostCheck(disk["R"], disk["S"], st["R"].my_ids, st["S"].my_ids,
                                  session)
    BY DEF PostCheckPasses
  <2>2. /\ "R" \in Party /\ "S" \in Party /\ session \in Nat
        /\ \A p \in Party : disk[p] \in States /\ Consistent(disk[p])
    BY <1>3 DEF Party, PostInv, TypeOK, LocalInv, Sound
  <2>3. ~ LostOne
    <3>1. \A p \in Party : CanReach(p) >= session
      BY <2>1, <2>2 DEF CanReach
    <3>2. \A p \in Party : CanReach(p) \in Nat
      BY <2>1, <2>2 DEF CanReach
    <3> QED BY <2>2, <3>1, <3>2 DEF LostOne
  <2>4. ~ BeforeEvaluation
    BY <2>1, <2>2 DEF BeforeEvaluation, Down, Unevaluated, Ended
  <2>5. PastEvaluation
    BY <1>3, <2>3, <2>4 DEF PostInv
  <2>6. \A p \in Party : Durable(p) = disk[p]
    BY <2>1 DEF Durable, Down, Ended
  <2>7. \A p \in Party : FileCheck(disk[p], st[p].my_ids, session)
    <3>1. SUFFICES ASSUME NEW p \in Party PROVE FileCheck(disk[p], st[p].my_ids, session)
      OBVIOUS
    <3>2. disk[p].my_ids = st[p].my_ids /\ disk[p].J = {}
      BY <2>1, <2>5, <2>6 DEF PastEvaluation
    <3>3. CheckAgainst(disk[p], disk[p].my_ids, disk[p].oracle_salt)
      BY <2>2 DEF CheckAgainst, Consistent
    <3> QED BY <2>1, <3>2, <3>3 DEF FileCheck
  <2>8. PairCheck(disk["R"], disk["S"])
    <3>1. Related(disk["R"], disk["S"]) /\ KeyedAlike(disk["R"], disk["S"])
      BY <2>2, <2>5, <2>6 DEF PastEvaluation
    <3> QED BY <2>1, <2>2, <3>1, PairPasses DEF Related
  <2> QED BY <2>2, <2>7, <2>8 DEF PostCheck
<1> QED BY <1>1, <1>2, <1>3, PTL DEF Spec
===============================================================================
