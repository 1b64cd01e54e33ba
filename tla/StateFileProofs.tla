--------------------------- MODULE StateFileProofs ---------------------------
(***************************************************************************)
(* The state file is never torn, whatever dies, fails or loses power, and  *)
(* saving implements AtomicState.  load() tells the bytes of a whole file  *)
(* from any cut of them, gives back what was saved, and takes nothing from *)
(* beyond the end.                                                         *)
(***************************************************************************)
EXTENDS StateBytes, FiniteSetTheorems, WellFoundedInduction, TLAPS

\* How far the temporary file is when save() has reached each of its calls.
TmpReady ==
    /\ pc \in {"write", "flush", "sync", "close", "rename"} => tmp.state = st
    /\ pc = "flush" => tmp.blocks + buffer = Size[st]
    /\ pc \in {"sync", "close", "rename"} => tmp.blocks = Size[st]
    /\ pc \in {"close", "rename"} => tmp.synced

\* tmp is a file, not a missing one, from its opening to its renaming.
TmpThere == pc \in {"write", "flush", "sync", "close", "rename"} => tmp \in File

FilesInv == TypeOK /\ TmpThere /\ TmpReady /\ NeverTorn

USE StateFileAssumption

LEMMA NoFileFacts ==
    /\ NoFile.state = Fresh /\ NoFile.blocks = -1 /\ NoFile.synced = TRUE
    /\ NoFile \notin File
    /\ \A f \in File : Exists(f)
BY DEF NoFile, File, Exists

LEMMA FilesInit == Init => FilesInv
BY NoFileFacts DEF Init, FilesInv, TypeOK, TmpThere, TmpReady, NeverTorn, Saving,
   Exists, Whole

\* A power loss leaves a synced file as it is.
LEMMA RemainsSynced ==
    ASSUME NEW f \in File \cup {NoFile}
    PROVE  /\ f.synced => Remains(f) = {f}
           /\ Remains(f) \subseteq File \cup {NoFile}
<1>1. CASE f.synced
  BY <1>1 DEF Remains
<1>2. CASE ~f.synced
  <2>1. f \in File
    BY <1>2, NoFileFacts
  <2>2. \A n \in 0..f.blocks : [f EXCEPT !.blocks = n] \in File
    BY <2>1 DEF File
  <2> QED BY <1>2, <2>2 DEF Remains
<1> QED BY <1>1, <1>2

LEMMA FilesNext == FilesInv /\ [Next]_vars => FilesInv'
<1> SUFFICES ASSUME FilesInv, [Next]_vars PROVE FilesInv'
  OBVIOUS
<1> USE DEF FilesInv, TypeOK, TmpThere, TmpReady, NeverTorn, Saving, Exists, Whole
<1>1. CASE BeginSave
  BY <1>1 DEF BeginSave
<1>2. CASE OpenTmp
  BY <1>2 DEF OpenTmp, File
<1>3. CASE Write
  BY <1>3 DEF Write, File
<1>4. CASE Flush
  BY <1>4 DEF Flush, File
<1>5. CASE Sync
  BY <1>5 DEF Sync, File
<1>6. CASE Close
  BY <1>6 DEF Close
<1>7. CASE Rename
  BY <1>7, NoFileFacts DEF Rename
<1>8. CASE Return
  BY <1>8 DEF Return
<1>9. CASE Die
  BY <1>9 DEF Die
<1>10. CASE SettleDir
  BY <1>10 DEF SettleDir
<1>11. CASE LosePower
  <2>1. path' = dir /\ dir' = dir
    BY <1>11, RemainsSynced, NoFileFacts DEF LosePower
  <2>2. tmp' \in File \cup {NoFile}
    BY <1>11, RemainsSynced DEF LosePower
  <2> QED BY <1>11, <2>1, <2>2 DEF LosePower
<1>12. CASE Restart
  <2>1. path.state \in State
    BY NoFileFacts DEF File
  <2> QED BY <1>12, <2>1 DEF Restart
<1>13. CASE Stuck \/ UNCHANGED vars
  BY <1>13 DEF Stuck, vars
<1> QED
  BY <1>1, <1>2, <1>3, <1>4, <1>5, <1>6, <1>7, <1>8, <1>9, <1>10, <1>11, <1>12,
     <1>13 DEF Next

\* Type correctness: every file is one that save() may leave, whatever dies or
\* fails while it runs (state.cpp:40-150).
THEOREM FilesTypeCorrect == Spec => []TypeOK
<1>1. FilesInv => TypeOK
  BY DEF FilesInv
<1> QED BY <1>1, FilesInit, FilesNext, PTL DEF Spec

\* The state file, and the one a power loss would leave, is always a whole,
\* synced state: no kill, failing call or power loss makes it unloadable
\* (state.cpp:126-150, 153-238).
THEOREM NeverTornHolds == Spec => []NeverTorn
<1>1. FilesInv => NeverTorn
  BY DEF FilesInv
<1> QED BY <1>1, FilesInit, FilesNext, PTL DEF Spec

-------------------------------------------------------------------------------
(* The refinement.                                                           *)

\* The additions the refinement needs: a process that runs works on the saved
\* state, and has saved it when save() returns.
RegisterInv == pc \in {"run", "return"} => path.state = st

LEMMA RegisterInit == Init => RegisterInv
BY NoFileFacts DEF Init, RegisterInv

LEMMA RegisterNext == FilesInv /\ RegisterInv /\ [Next]_vars => RegisterInv'
<1> SUFFICES ASSUME FilesInv, RegisterInv, [Next]_vars PROVE RegisterInv'
  OBVIOUS
<1> USE DEF RegisterInv
<1>1. CASE BeginSave \/ OpenTmp \/ Write \/ Flush \/ Sync \/ Close \/ Return \/ Die
           \/ SettleDir \/ LosePower
  BY <1>1 DEF BeginSave, OpenTmp, Write, Flush, Sync, Close, Return, Die, SettleDir,
     LosePower
<1>2. CASE Rename
  BY <1>2 DEF Rename, FilesInv, TmpReady
<1>3. CASE Restart
  BY <1>3 DEF Restart
<1>4. CASE Stuck \/ UNCHANGED vars
  BY <1>4 DEF Stuck, vars
<1> QED BY <1>1, <1>2, <1>3, <1>4 DEF Next

LEMMA RegisterStep ==
    FilesInv /\ RegisterInv /\ [Next]_vars => [Register!Next]_(Register!vars)
<1> SUFFICES ASSUME FilesInv, RegisterInv, [Next]_vars
             PROVE  Register!Next \/ UNCHANGED Register!vars
  OBVIOUS
<1> USE DEF RegisterInv, Saving
<1>1. CASE BeginSave
  <2>1. PICK s \in State : st' = s
    BY <1>1 DEF BeginSave
  <2> QED BY <1>1, <2>1 DEF BeginSave, Register!Next, Register!Begin
<1>2. CASE OpenTmp \/ Write \/ Flush \/ Sync \/ Close
  BY <1>2 DEF OpenTmp, Write, Flush, Sync, Close, Register!vars
<1>3. CASE Rename
  <2>1. path'.state = st
    BY <1>3 DEF Rename, FilesInv, TmpReady
  <2> QED BY <1>3, <2>1 DEF Rename, Register!Next, Register!Take
<1>4. CASE Return
  BY <1>4 DEF Return, Register!Next, Register!Return
<1>5. CASE Die
  BY <1>5 DEF Die, Register!Next, Register!Die
<1>6. CASE SettleDir
  BY <1>6 DEF SettleDir, Register!Next, Register!Settle
<1>7. CASE LosePower
  <2>1. path' = dir /\ dir' = dir
    BY <1>7, RemainsSynced, NoFileFacts
    DEF LosePower, FilesInv, TypeOK, NeverTorn, Exists
  <2> QED BY <1>7, <2>1 DEF LosePower, Register!Next, Register!LosePower
<1>8. CASE Restart
  BY <1>8 DEF Restart, FilesInv, NeverTorn, Register!Next, Register!Restart
<1>9. CASE Stuck \/ UNCHANGED vars
  BY <1>9 DEF Stuck, vars, Register!vars
<1> QED BY <1>1, <1>2, <1>3, <1>4, <1>5, <1>6, <1>7, <1>8, <1>9 DEF Next

LEMMA RegisterStart == Init => Register!Init
BY NoFileFacts DEF Init, Register!Init, Saving

\* save() and a restart's load() implement the register AtomicState: what a
\* restart finds is the state of the last save that returned, or of the one
\* under way, unless the power was lost (query.cpp:258-264, state.cpp:143-150).
THEOREM SavesAtomicallyHolds == Spec => SavesAtomically
<1>1. Init => FilesInv /\ RegisterInv
  BY FilesInit, RegisterInit
<1>2. FilesInv /\ RegisterInv /\ [Next]_vars => (FilesInv /\ RegisterInv)'
  BY FilesNext, RegisterNext
<1> QED
  BY <1>1, <1>2, RegisterStart, RegisterStep, PTL
  DEF Spec, SavesAtomically, Register!Spec

HIDE StateFileAssumption

-------------------------------------------------------------------------------
(* Induction over the naturals, and what is defined by recursion.            *)

\* A set that has 0 and, with a number, the next one.
LEMMA Induction ==
    ASSUME NEW S, 0 \in S, \A n \in Nat : n \in S => n + 1 \in S
    PROVE  \A n \in Nat : n \in S
<1> DEFINE bad == Nat \ S
           R == OpToRel(<, Nat)
<1>1. SUFFICES ASSUME bad # {} PROVE FALSE
  OBVIOUS
<1>2. IsWellFoundedOn(R, Nat) /\ bad \subseteq Nat
  BY NatLessThanWellFounded
<1>3. PICK x \in bad : \A y \in bad : ~ (<<y, x>> \in R)
  <2> HIDE DEF bad, R
  <2> QED BY <1>1, <1>2, WFMin
<1>4. \A y \in bad : ~ (y < x)
  BY <1>3 DEF OpToRel
<1>5. x # 0 /\ x - 1 \in Nat /\ x - 1 < x /\ (x - 1) + 1 = x
  <2>1. x \in Nat /\ x # 0
    BY <1>3
  <2> QED BY <2>1
<1>6. x - 1 \in S
  BY <1>4, <1>5
<1> QED BY <1>3, <1>5, <1>6

\* f starts with a, and each f[k] is made by G of the one before it.
Recursive(f, N, a, G) ==
    \A k \in 0..N : f[k] = IF k = 0 THEN a ELSE G[k][f[k - 1]]

LEMMA Recursion ==
    ASSUME NEW N \in Nat, NEW V, NEW a \in V, NEW G \in [1..N -> [V -> V]]
    PROVE  \E f \in [0..N -> V] : Recursive(f, N, a, G)
<1> DEFINE Good(n, f) == f \in [0..n -> V] /\ Recursive(f, n, a, G)
           S == {n \in Nat : n <= N => \E f : Good(n, f)}
<1>1. 0 \in S
  <2>1. Good(0, [k \in 0..0 |-> a])
    BY DEF Recursive
  <2> HIDE DEF Good
  <2> QED BY <2>1
<1>2. ASSUME NEW n \in Nat, n \in S, n + 1 <= N PROVE n + 1 \in S
  <2>1. PICK f : Good(n, f)
    BY <1>2
  <2>2. PICK g : g = [k \in 0..(n + 1) |-> IF k = n + 1 THEN G[k][f[n]] ELSE f[k]]
    OBVIOUS
  <2>3. f[n] \in V /\ n + 1 \in 1..N /\ G[n + 1][f[n]] \in V
    BY <2>1, <1>2
  <2>4. g \in [0..(n + 1) -> V]
    BY <2>1, <2>2, <2>3
  <2>5. ASSUME NEW k \in 0..(n + 1)
        PROVE  g[k] = IF k = 0 THEN a ELSE G[k][g[k - 1]]
    <3>1. CASE k = n + 1
      <4>1. k # 0 /\ k - 1 = n /\ n \in 0..(n + 1) /\ n # n + 1
        BY <3>1
      <4> QED BY <3>1, <4>1, <2>2
    <3>2. CASE k # n + 1
      <4>1. k \in 0..n /\ g[k] = f[k] /\ (k # 0 => k - 1 \in 0..(n + 1) /\ k - 1 # n + 1)
        BY <3>2, <2>2
      <4>2. k # 0 => g[k - 1] = f[k - 1]
        BY <4>1, <2>2
      <4> QED BY <4>1, <4>2, <2>1 DEF Recursive
    <3> QED BY <3>1, <3>2
  <2>6. Good(n + 1, g)
    BY <2>4, <2>5 DEF Recursive
  <2> HIDE DEF Good
  <2> QED BY <2>6
<1>3. N \in S
  <2>1. \A n \in Nat : n \in S => n + 1 \in S
    BY <1>2
  <2> HIDE DEF S
  <2> QED BY <1>1, <2>1, Induction
<1> QED BY <1>3

LEMMA LayoutIs ==
    /\ Byte \in Nat /\ Byte > 1 /\ U64 \in Nat /\ U64 > 0 /\ U32 \in Nat /\ U32 > 0
    /\ SaltBytes \in Nat /\ SaltBytes > 0 /\ K \in Nat /\ K > 0 /\ U32 < U64
    /\ P \in Nat /\ P > 0
BY LayoutAssumption, ModulusAssumption

LEMMA WeightIs ==
    /\ Weight \in [Nat -> Nat]
    /\ Weight[0] = 1
    /\ \A n \in Nat : Weight[n + 1] = Byte * Weight[n] /\ Weight[n] > 0
<1> DEFINE Next1(N) == [k \in 1..N |-> [v \in Nat |-> Byte * v]]
           Up(N, f) == f \in [0..N -> Nat] /\ Recursive(f, N, 1, Next1(N))
           w == [n \in Nat |-> (CHOOSE f : Up(n, f))[n]]
<1>0. ASSUME NEW n \in Nat, NEW f, Up(n, f)
      PROVE  /\ f \in [0..n -> Nat] /\ f[0] = 1
             /\ \A k \in 1..n : f[k] = Byte * f[k - 1]
  <2>1. f \in [0..n -> Nat] /\ f[0] = 1
    <3>1. 0 \in 0..n
      OBVIOUS
    <3> QED BY <1>0, <3>1 DEF Recursive
  <2>2. ASSUME NEW k \in 1..n PROVE f[k] = Byte * f[k - 1]
    <3>1. k \in 0..n /\ k # 0 /\ k - 1 \in 0..n
      OBVIOUS
    <3>2. f[k] = Next1(n)[k][f[k - 1]] /\ f[k - 1] \in Nat
      BY <1>0, <3>1, <2>1 DEF Recursive
    <3> QED BY <3>2
  <2> QED BY <2>1, <2>2
<1>1. ASSUME NEW n \in Nat PROVE Up(n, CHOOSE f : Up(n, f))
  <2>1. Next1(n) \in [1..n -> [Nat -> Nat]] /\ 1 \in Nat
    BY LayoutIs
  <2>2. \E f : Up(n, f)
    <3> HIDE DEF Next1
    <3> QED BY <2>1, Recursion
  <2> HIDE DEF Up
  <2> QED BY <2>2
<1>2. ASSUME NEW n \in Nat
      PROVE  w[n] \in Nat /\ w[n] = IF n = 0 THEN 1 ELSE Byte * w[n - 1]
  <2>1. PICK f : f = CHOOSE g : Up(n, g)
    OBVIOUS
  <2>2. Up(n, f) /\ w[n] = f[n]
    BY <1>1, <2>1
  <2>3. w[n] \in Nat
    BY <2>2
  <2>4. CASE n = 0
    BY <2>2, <2>3, <2>4 DEF Recursive
  <2>5. CASE n # 0
    <3>1. n - 1 \in Nat /\ n - 1 \in 0..n /\ n \in 1..n
      BY <2>5
    <3>2. PICK g : g = CHOOSE h : Up(n - 1, h)
      OBVIOUS
    <3>3. Up(n - 1, g) /\ w[n - 1] = g[n - 1]
      BY <1>1, <3>1, <3>2
    <3>4. f \in [0..n -> Nat] /\ f[0] = 1 /\ \A k \in 1..n : f[k] = Byte * f[k - 1]
      BY <1>0, <2>2
    <3>5. \A k \in 0..(n - 1) : g[k] = f[k]
      <4>2. g \in [0..(n - 1) -> Nat] /\ g[0] = 1 /\ \A k \in 1..(n - 1) : g[k] = Byte * g[k - 1]
        BY <1>0, <3>1, <3>3
      <4> DEFINE S == {k \in Nat : k <= n - 1 => g[k] = f[k]}
      <4>3. 0 \in S
        BY <4>2, <3>4
      <4>4. \A k \in Nat : k \in S => k + 1 \in S
        <5>1. \A k \in Nat : k + 1 <= n - 1 =>
                /\ k + 1 \in 1..(n - 1) /\ k + 1 \in 1..n /\ (k + 1) - 1 = k /\ k <= n - 1
          OBVIOUS
        <5> QED BY <5>1, <4>2, <3>4
      <4>5. \A k \in Nat : k \in S
        <5> HIDE DEF S
        <5> QED BY <4>3, <4>4, Induction
      <4> QED BY <4>5
    <3>6. n - 1 \in 0..(n - 1)
      BY <3>1
    <3> QED BY <2>2, <2>3, <2>5, <3>1, <3>3, <3>4, <3>5, <3>6
  <2> QED BY <2>4, <2>5
<1> HIDE DEF w
<1>3. w = [n \in Nat |-> IF n = 0 THEN 1 ELSE Byte * w[n - 1]]
  <2>1. w = [n \in Nat |-> w[n]]
    BY DEF w
  <2> QED BY <1>2, <2>1
<1>4. Weight = [n \in Nat |-> IF n = 0 THEN 1 ELSE Byte * Weight[n - 1]]
  BY <1>3 DEF Weight
<1> DEFINE S == {n \in Nat : Weight[n] \in Nat /\ Weight[n] > 0}
<1>5. Weight[0] = 1
  BY <1>4
<1>6. \A n \in Nat : Weight[n + 1] = Byte * Weight[n]
  <2>1. \A n \in Nat : n + 1 \in Nat /\ n + 1 # 0 /\ (n + 1) - 1 = n
    OBVIOUS
  <2> QED BY <1>4, <2>1
<1>7. \A n \in Nat : n \in S => n + 1 \in S
  <2>1. \A v \in Nat : v > 0 => Byte * v \in Nat /\ Byte * v > 0
    BY LayoutIs
  <2> QED BY <1>6, <2>1
<1>8. \A n \in Nat : n \in S
  <2>1. 0 \in S
    BY <1>5
  <2> HIDE DEF S
  <2> QED BY <1>7, <2>1, Induction
<1>9. Weight \in [Nat -> Nat]
  BY <1>4, <1>8
<1> QED BY <1>5, <1>6, <1>8, <1>9

LEMMA Bytes ==
    ASSUME NEW bytes \in Seq(Nat), NEW i \in Int
    PROVE  ByteAt(bytes, i) \in Nat
BY DEF ByteAt

\* A number is what its bytes add up to, the first counting least.
LEMMA NumberIs ==
    ASSUME NEW bytes \in Seq(Nat), NEW at \in Int, NEW width \in Nat
    PROVE  \E r \in [0..width -> Nat] :
              /\ r[0] = 0
              /\ \A k \in 1..width : r[k] = r[k - 1] + ByteAt(bytes, at + k) * Weight[k - 1]
              /\ Number(bytes, at, width) = r[width]
<1> DEFINE G == [k \in 1..width |-> [v \in Nat |-> v + ByteAt(bytes, at + k) * Weight[k - 1]]]
           Is(r) == r = [i \in 0..width |->
                       IF i = 0 THEN 0 ELSE r[i - 1] + ByteAt(bytes, at + i) * Weight[i - 1]]
<1>1. \A k \in 1..width : ByteAt(bytes, at + k) * Weight[k - 1] \in Nat
  <2>1. \A k \in 1..width : k - 1 \in Nat /\ at + k \in Int
    OBVIOUS
  <2>2. \A k \in 1..width : ByteAt(bytes, at + k) \in Nat /\ Weight[k - 1] \in Nat
    BY <2>1, Bytes, WeightIs
  <2> QED BY <2>2
<1>2. G \in [1..width -> [Nat -> Nat]]
  BY <1>1
<1>3. PICK f \in [0..width -> Nat] : Recursive(f, width, 0, G)
  <2> HIDE DEF G
  <2> QED BY <1>2, Recursion
<1>4. ASSUME NEW k \in 0..width
      PROVE  f[k] = IF k = 0 THEN 0 ELSE f[k - 1] + ByteAt(bytes, at + k) * Weight[k - 1]
  <2>1. CASE k = 0
    BY <2>1, <1>3 DEF Recursive
  <2>2. CASE k # 0
    <3>1. k \in 1..width /\ k - 1 \in 0..width
      BY <2>2
    <3>2. f[k] = G[k][f[k - 1]] /\ f[k - 1] \in Nat
      BY <1>3, <2>2, <3>1 DEF Recursive
    <3> QED BY <2>2, <3>1, <3>2
  <2> QED BY <2>1, <2>2
<1>5. Is(f)
  BY <1>3, <1>4
<1>6. PICK r : r = CHOOSE g : Is(g)
  OBVIOUS
<1>7. Is(r) /\ Number(bytes, at, width) = r[width]
  <2>1. Is(r)
    <3> HIDE DEF Is
    <3> QED BY <1>5, <1>6
  <2> QED BY <2>1, <1>6 DEF Number
<1>8. r[0] = 0 /\ \A k \in 1..width : r[k] = r[k - 1] + ByteAt(bytes, at + k) * Weight[k - 1]
  BY <1>7
<1>9. ASSUME NEW k \in Nat PROVE k <= width => r[k] \in Nat
  <2> DEFINE S == {n \in Nat : n <= width => r[n] \in Nat}
  <2>1. 0 \in S
    BY <1>8
  <2>2. ASSUME NEW n \in Nat, n \in S PROVE n + 1 \in S
    <3>1. SUFFICES ASSUME n + 1 <= width PROVE r[n + 1] \in Nat
      OBVIOUS
    <3>2. n + 1 \in 1..width /\ (n + 1) - 1 = n /\ r[n] \in Nat
      BY <2>2, <3>1
    <3>3. PICK t \in Nat : t = ByteAt(bytes, at + (n + 1)) * Weight[(n + 1) - 1]
      BY <3>2, <1>1
    <3>4. r[n + 1] = r[n] + t
      BY <3>2, <3>3, <1>8
    <3> QED BY <3>2, <3>4
  <2>3. k \in S
    <3> HIDE DEF S
    <3> QED BY <2>1, <2>2, Induction
  <2> QED BY <2>3
<1>10. r \in [0..width -> Nat]
  BY <1>7, <1>9
<1> QED BY <1>7, <1>8, <1>10

\* The quotient and the remainder are those of any division with remainder.
LEMMA DivMod ==
    ASSUME NEW d \in Nat \ {0}, NEW q \in Int, NEW r \in 0..(d - 1)
    PROVE  (d * q + r) \div d = q /\ (d * q + r) % d = r
<1> DEFINE x == d * q + r
<1>1. PICK k \in Int, s \in 0..(d - 1) :
          k = x \div d /\ s = x % d /\ x = d * k + s
  <2>1. x \in Int
    OBVIOUS
  <2> HIDE DEF x
  <2>2. x = d * (x \div d) + (x % d)
    BY <2>1
  <2>3. x % d \in 0..(d - 1)
    BY <2>1
  <2>4. x \div d \in Int
    BY <2>1
  <2> QED BY <2>2, <2>3, <2>4
<1>2. d * (q - k) = s - r
  <2>1. d * (q - k) = d * q - d * k /\ d * q \in Int /\ d * k \in Int
    OBVIOUS
  <2>2. d * q + r = d * k + s
    BY <1>1
  <2> QED BY ONLY <2>1, <2>2, r \in Int, s \in Int
<1>3. q - k = 0
  <2>1. CASE q - k >= 1
    <3>1. d * (q - k) >= d * 1
      BY <2>1
    <3> QED BY <3>1, <1>2
  <2>2. CASE q - k <= -1
    <3>1. d * (q - k) <= d * (-1)
      BY <2>2
    <3> QED BY <3>1, <1>2
  <2> QED BY <2>1, <2>2
<1>4. q = k /\ s = r
  <2>1. d * 0 = 0
    OBVIOUS
  <2> QED BY <1>2, <1>3, <2>1
<1> HIDE DEF x
<1>5. x \div d = q /\ x % d = r
  BY <1>1, <1>4
<1> QED BY <1>5 DEF x

LEMMA DivModIs ==
    ASSUME NEW d \in Nat \ {0}, NEW x \in Int
    PROVE  /\ x \div d \in Int /\ x % d \in 0..(d - 1)
           /\ x = d * (x \div d) + (x % d)
           /\ x \in Nat => x \div d \in Nat
<1>1. x \div d \in Int
  OBVIOUS
<1>2. x % d \in 0..(d - 1)
  OBVIOUS
<1>3. x = d * (x \div d) + (x % d)
  OBVIOUS
<1>4. ASSUME x \in Nat PROVE x \div d \in Nat
  BY <1>4
<1> QED BY <1>1, <1>2, <1>3, <1>4

\* The first n bytes of a number, and one more.
LEMMA OneDigitMore ==
    ASSUME NEW x \in Nat, NEW n \in Nat
    PROVE  x % Weight[n + 1] = (x % Weight[n]) + ((x \div Weight[n]) % Byte) * Weight[n]
<1>1. PICK W \in Nat \ {0}, B \in Nat \ {0} : W = Weight[n] /\ B = Byte /\ Weight[n + 1] = B * W
  BY WeightIs, LayoutIs
<1>2. PICK q \in Nat, r \in 0..(W - 1) : q = x \div W /\ r = x % W /\ x = W * q + r
  BY DivModIs
<1>3. PICK k \in Nat, d \in 0..(B - 1) : d = q % B /\ q = B * k + d
  <2>1. q \in Int
    OBVIOUS
  <2>2. /\ q \div B \in Int /\ q % B \in 0..(B - 1) /\ q = B * (q \div B) + (q % B)
        /\ q \in Nat => q \div B \in Nat
    BY <2>1, DivModIs, Zenon
  <2> QED BY <2>2
<1>4. x = (B * W) * k + (d * W + r)
  <2>1. W * q = W * (B * k) + W * d
    BY <1>3
  <2>2. W * (B * k) = (B * W) * k /\ W * d = d * W
    OBVIOUS
  <2> QED BY <1>2, <2>1, <2>2
<1>5. B * W \in Nat \ {0} /\ d * W + r \in 0..(B * W - 1)
  <2>1. d * W <= (B - 1) * W /\ d * W >= 0 /\ d * W \in Int
    OBVIOUS
  <2>2. (B - 1) * W = B * W - W /\ B * W \in Nat /\ B * W > 0
    OBVIOUS
  <2> QED BY <2>1, <2>2
<1>6. x % (B * W) = d * W + r
  <2>1. PICK e, t : e = B * W /\ t = d * W + r
    OBVIOUS
  <2>2. e \in Nat \ {0} /\ t \in 0..(e - 1) /\ x = e * k + t /\ k \in Int
    BY <1>4, <1>5, <2>1
  <2>3. (e * k + t) % e = t
    BY <2>2, DivMod
  <2> QED BY <2>1, <2>2, <2>3
<1>7. (x \div Weight[n]) % Byte = d /\ x % Weight[n] = r
  BY <1>1, <1>2, <1>3
<1> QED BY ONLY <1>1, <1>6, <1>7, d \in 0..(B - 1), r \in 0..(W - 1)

\* piece stands in the bytes behind the first at of them.
Holds(bytes, at, piece) ==
    /\ at + Len(piece) <= Len(bytes)
    /\ \A i \in 1..Len(piece) : bytes[at + i] = piece[i]

LEMMA LeIs ==
    ASSUME NEW x \in Nat, NEW width \in Nat
    PROVE  /\ Le(x, width) \in Seq(Nat) /\ Len(Le(x, width)) = width
           /\ \A i \in 1..width : Le(x, width)[i] = (x \div Weight[i - 1]) % Byte
<1>1. \A i \in 1..width : (x \div Weight[i - 1]) % Byte \in Nat
  <2> TAKE i \in 1..width
  <2>1. i - 1 \in Nat
    OBVIOUS
  <2>2. PICK W \in Nat \ {0}, B \in Nat \ {0} : W = Weight[i - 1] /\ B = Byte
    BY <2>1, WeightIs, LayoutIs
  <2>3. x \div W \in Nat
    BY DivModIs
  <2>4. (x \div W) % B \in Nat
    BY <2>3, DivModIs
  <2> QED BY <2>2, <2>4
<1> QED BY <1>1 DEF Le

\* Reading a number at a place where it was written gives it back.
LEMMA ReadBack ==
    ASSUME NEW bytes \in Seq(Nat), NEW at \in Nat, NEW width \in Nat, NEW x \in Nat,
           x < Weight[width], Holds(bytes, at, Le(x, width))
    PROVE  Number(bytes, at, width) = x
<1>1. PICK r \in [0..width -> Nat] :
        /\ r[0] = 0
        /\ \A k \in 1..width : r[k] = r[k - 1] + ByteAt(bytes, at + k) * Weight[k - 1]
        /\ Number(bytes, at, width) = r[width]
  <2>1. at \in Int
    OBVIOUS
  <2> QED BY <2>1, NumberIs
<1>2. ASSUME NEW k \in 1..width
      PROVE  ByteAt(bytes, at + k) = (x \div Weight[k - 1]) % Byte
  <2>1. /\ at + width <= Len(bytes)
        /\ bytes[at + k] = (x \div Weight[k - 1]) % Byte
    BY LeIs DEF Holds
  <2>2. at + k \in DOMAIN bytes
    BY <2>1
  <2> QED BY <2>1, <2>2 DEF ByteAt
<1> DEFINE S == {k \in Nat : k <= width => r[k] = x % Weight[k]}
<1>3. 0 \in S
  <2>1. x % 1 = 0
    OBVIOUS
  <2> QED BY <2>1, <1>1, WeightIs
<1>4. ASSUME NEW k \in Nat, k \in S PROVE k + 1 \in S
  <2>1. SUFFICES ASSUME k + 1 <= width PROVE r[k + 1] = x % Weight[k + 1]
    OBVIOUS
  <2>2. k + 1 \in 1..width /\ (k + 1) - 1 = k /\ r[k] = x % Weight[k]
    BY <1>4, <2>1
  <2>3. r[k + 1] = r[k] + ByteAt(bytes, at + (k + 1)) * Weight[k]
    BY <2>2, <1>1
  <2>4. ByteAt(bytes, at + (k + 1)) = (x \div Weight[k]) % Byte
    BY <2>2, <1>2
  <2> QED BY <2>2, <2>3, <2>4, OneDigitMore
<1>5. width \in S
  <2> HIDE DEF S
  <2> QED BY <1>3, <1>4, Induction
<1>6. PICK W \in Nat \ {0} : W = Weight[width] /\ x < W
  BY WeightIs
<1>7. x % W = x
  <2>1. x = W * 0 + x /\ x \in 0..(W - 1) /\ 0 \in Int
    BY <1>6
  <2>2. (W * 0 + x) % W = x
    BY <2>1, DivMod, Zenon
  <2> QED BY <2>1, <2>2
<1> QED BY <1>1, <1>5, <1>6, <1>7

-------------------------------------------------------------------------------
(* Pieces of a sequence.                                                     *)

LEMMA Joined ==
    ASSUME NEW a \in Seq(Nat), NEW b \in Seq(Nat)
    PROVE  /\ a \o b \in Seq(Nat) /\ Len(a \o b) = Len(a) + Len(b)
           /\ Len(a) \in Nat /\ Len(b) \in Nat
           /\ Holds(a \o b, 0, a) /\ Holds(a \o b, Len(a), b)
<1>1. a \o b \in Seq(Nat) /\ Len(a \o b) = Len(a) + Len(b) /\ Len(a) \in Nat /\ Len(b) \in Nat
  OBVIOUS
<1>2. \A i \in 1..Len(a) : (a \o b)[0 + i] = a[i]
  BY <1>1
<1>3. \A i \in 1..Len(b) : (a \o b)[Len(a) + i] = b[i]
  BY <1>1
<1> QED BY <1>1, <1>2, <1>3 DEF Holds

\* A piece of a piece.
LEMMA Within ==
    ASSUME NEW bytes \in Seq(Nat), NEW a \in Seq(Nat), NEW b \in Seq(Nat),
           NEW at \in Nat, NEW off \in Nat, Holds(bytes, at, a), Holds(a, off, b)
    PROVE  Holds(bytes, at + off, b)
<1>1. at + Len(a) <= Len(bytes) /\ off + Len(b) <= Len(a) /\ Len(a) \in Nat
      /\ Len(b) \in Nat /\ Len(bytes) \in Nat
  BY DEF Holds
<1>2. ASSUME NEW i \in 1..Len(b) PROVE bytes[(at + off) + i] = b[i]
  <2>1. off + i \in 1..Len(a) /\ (at + off) + i = at + (off + i)
    BY <1>1
  <2> QED BY <2>1 DEF Holds
<1> QED BY <1>1, <1>2 DEF Holds

\* What stands in the first n bytes.
LEMMA CutHolds ==
    ASSUME NEW bytes \in Seq(Nat), NEW n \in 0..Len(bytes), NEW a \in Seq(Nat),
           NEW at \in Nat, Holds(bytes, at, a), at + Len(a) <= n
    PROVE  Holds(SubSeq(bytes, 1, n), at, a)
<1>1. /\ Len(SubSeq(bytes, 1, n)) = n /\ Len(a) \in Nat
      /\ \A i \in 1..n : SubSeq(bytes, 1, n)[i] = bytes[i]
  OBVIOUS
<1>2. ASSUME NEW i \in 1..Len(a) PROVE SubSeq(bytes, 1, n)[at + i] = a[i]
  <2>1. at + i \in 1..n
    BY <1>1
  <2> QED BY <1>1, <2>1 DEF Holds
<1> QED BY <1>1, <1>2 DEF Holds

\* FlattenSeq of pieces of the same width.
LEMMA FlattenIs ==
    ASSUME NEW w \in Nat, NEW N \in Nat, NEW seqs \in [1..N -> Seq(Nat)],
           \A i \in 1..N : Len(seqs[i]) = w
    PROVE  /\ FlattenSeq(seqs) \in Seq(Nat) /\ Len(FlattenSeq(seqs)) = N * w
           /\ \A i \in 1..N : Holds(FlattenSeq(seqs), (i - 1) * w, seqs[i])
<1>0. seqs \in Seq(Seq(Nat)) /\ Len(seqs) = N
  OBVIOUS
<1>1. CASE N = 0
  <2>1. FlattenSeq(seqs) = seqs /\ seqs = <<>> /\ 0 * w = 0
    BY <1>0, <1>1 DEF FlattenSeq
  <2> QED BY <1>1, <2>1
<1>2. CASE N # 0
  <2> DEFINE G == [k \in 1..N |-> [v \in Seq(Nat) |-> v \o seqs[k]]]
             Is(f) == f = [i \in 1..N |-> IF i = 1 THEN seqs[i] ELSE f[i - 1] \o seqs[i]]
  <2>1. PICK g \in [0..N -> Seq(Nat)] : Recursive(g, N, <<>>, G)
    <3>1. G \in [1..N -> [Seq(Nat) -> Seq(Nat)]] /\ <<>> \in Seq(Nat)
      OBVIOUS
    <3> HIDE DEF G
    <3> QED BY <3>1, Recursion
  <2>2. ASSUME NEW k \in 1..N
        PROVE  /\ g[k - 1] \in Seq(Nat) /\ g[k] = g[k - 1] \o seqs[k]
               /\ g[0] = <<>>
    <3>1. k \in 0..N /\ k - 1 \in 0..N /\ k # 0 /\ 0 \in 0..N
      OBVIOUS
    <3>2. g[k] = G[k][g[k - 1]] /\ g[k - 1] \in Seq(Nat) /\ g[0] = <<>>
      BY <2>1, <3>1 DEF Recursive
    <3> QED BY <3>2
  <2>3. PICK h : h = [k \in 1..N |-> g[k]]
    OBVIOUS
  <2>4. ASSUME NEW k \in 1..N
        PROVE  h[k] = IF k = 1 THEN seqs[k] ELSE h[k - 1] \o seqs[k]
    <3>1. CASE k = 1
      <4>1. g[1] = <<>> \o seqs[1] /\ seqs[1] \in Seq(Nat)
        <5>1. 1 \in 1..N /\ 1 - 1 = 0
          BY <3>1
        <5>2. g[1] = g[1 - 1] \o seqs[1] /\ g[0] = <<>>
          BY <2>2, <5>1
        <5> QED BY <5>1, <5>2
      <4>2. <<>> \o seqs[1] = seqs[1]
        BY <4>1
      <4> QED BY <2>3, <3>1, <4>1, <4>2
    <3>2. CASE k # 1
      <4>1. k - 1 \in 1..N
        BY <3>2
      <4> QED BY <2>2, <2>3, <3>2, <4>1
    <3> QED BY <3>1, <3>2
  <2>5. Is(h)
    BY <2>3, <2>4
  <2>6. PICK f : f = CHOOSE ff : Is(ff)
    OBVIOUS
  <2>7. Is(f)
    <3> HIDE DEF Is
    <3> QED BY <2>5, <2>6
  <2>8. FlattenSeq(seqs) = f[N]
    BY <1>0, <1>2, <2>6 DEF FlattenSeq
  <2> DEFINE Good(k) == /\ f[k] \in Seq(Nat) /\ Len(f[k]) = k * w
                        /\ \A i \in 1..k : Holds(f[k], (i - 1) * w, seqs[i])
             S == {k \in Nat : k + 1 <= N => Good(k + 1)}
  <2>9. 0 \in S
    <3>1. f[1] = seqs[1] /\ seqs[1] \in Seq(Nat) /\ Len(seqs[1]) = w
      BY <1>2, <2>7
    <3>2. 0 * w = 0 /\ 1 * w = w
      OBVIOUS
    <3>3. Holds(seqs[1], 0, seqs[1])
      BY <3>1 DEF Holds
    <3>4. Good(1)
      <4>1. \A i \in 1..1 : i = 1 /\ i - 1 = 0
        OBVIOUS
      <4> QED BY <3>1, <3>2, <3>3, <4>1
    <3>5. 0 \in Nat /\ 0 + 1 = 1
      OBVIOUS
    <3> HIDE DEF Good
    <3> QED BY <3>4, <3>5
  <2>10. ASSUME NEW k \in Nat, k \in S PROVE k + 1 \in S
    <3>1. SUFFICES ASSUME k + 2 <= N PROVE Good(k + 2)
      OBVIOUS
    <3> DEFINE m == k + 1
    <3>2. /\ m + 1 = k + 2 /\ m \in 1..N /\ m + 1 \in 1..N /\ m + 1 # 1 /\ (m + 1) - 1 = m
      BY <3>1
    <3>3. Good(m)
      BY <2>10, <3>1
    <3> HIDE DEF m
    <3>4. f[m + 1] = f[m] \o seqs[m + 1] /\ seqs[m + 1] \in Seq(Nat) /\ Len(seqs[m + 1]) = w
      BY <2>7, <3>2
    <3>5. (m + 1) * w = m * w + w /\ m * w \in Nat
      BY <3>2
    <3>6. f[m] \in Seq(Nat) /\ Len(f[m]) = m * w
      BY <3>3
    <3>7. /\ f[m + 1] \in Seq(Nat) /\ Len(f[m + 1]) = (m + 1) * w
          /\ Holds(f[m + 1], 0, f[m]) /\ Holds(f[m + 1], m * w, seqs[m + 1])
      BY <3>4, <3>5, <3>6, Joined
    <3>8. ASSUME NEW i \in 1..(m + 1) PROVE Holds(f[m + 1], (i - 1) * w, seqs[i])
      <4>1. CASE i = m + 1
        BY <4>1, <3>2, <3>7
      <4>2. CASE i # m + 1
        <5>1. i \in 1..m /\ i \in 1..N /\ (i - 1) * w \in Nat /\ seqs[i] \in Seq(Nat)
          BY <4>2, <3>2
        <5>2. Holds(f[m], (i - 1) * w, seqs[i])
          BY <3>3, <5>1
        <5>3. Holds(f[m + 1], 0 + (i - 1) * w, seqs[i])
          BY <3>6, <3>7, <5>1, <5>2, Within
        <5> QED BY <5>1, <5>3
      <4> QED BY <4>1, <4>2
    <3> QED BY <3>2, <3>7, <3>8
  <2>11. \A k \in Nat : k \in S
    <3> HIDE DEF S
    <3> QED BY <2>9, <2>10, Induction
  <2>12. Good(N)
    <3>1. N - 1 \in Nat /\ (N - 1) + 1 = N /\ (N - 1) + 1 <= N
      BY <1>2
    <3>2. N - 1 \in S
      <4> HIDE DEF S
      <4> QED BY <2>11, <3>1
    <3> HIDE DEF Good
    <3> QED BY <3>1, <3>2
  <2> QED BY <2>8, <2>12
<1> QED BY <1>1, <1>2

-------------------------------------------------------------------------------
(* The keys in ascending order.                                              *)

LEMMA Least ==
    ASSUME NEW S \in SUBSET Nat, S # {}
    PROVE  \E x \in S : \A y \in S : x <= y
<1> DEFINE R == OpToRel(<, Nat)
<1>1. IsWellFoundedOn(R, Nat)
  BY NatLessThanWellFounded
<1>2. PICK x \in S : \A y \in S : ~ (<<y, x>> \in R)
  <2> HIDE DEF R
  <2> QED BY <1>1, WFMin
<1>3. \A y \in S : ~ (y < x)
  BY <1>2 DEF OpToRel
<1> QED BY <1>3

Enumerates(f, S) ==
    /\ f \in [1..Cardinality(S) -> S]
    /\ \A i, j \in 1..Cardinality(S) : i < j => f[i] < f[j]

LEMMA CanEnumerate ==
    ASSUME NEW S \in SUBSET Nat, IsFiniteSet(S)
    PROVE  \E f : Enumerates(f, S)
<1> DEFINE Fine(n) == \A A \in SUBSET Nat :
                          IsFiniteSet(A) /\ Cardinality(A) = n => \E f : Enumerates(f, A)
           M == {n \in Nat : Fine(n)}
<1>1. 0 \in M
  <2>1. ASSUME NEW A \in SUBSET Nat, IsFiniteSet(A), Cardinality(A) = 0
        PROVE  Enumerates(<<>>, A)
    <3>1. A = {} /\ 1..0 = {}
      BY <2>1, FS_EmptySet
    <3> QED BY <2>1, <3>1 DEF Enumerates
  <2> QED BY <2>1
<1>2. ASSUME NEW n \in Nat, n \in M PROVE n + 1 \in M
  <2>1. SUFFICES ASSUME NEW A \in SUBSET Nat, IsFiniteSet(A), Cardinality(A) = n + 1
                 PROVE  \E f : Enumerates(f, A)
    OBVIOUS
  <2>2. A # {}
    BY <2>1, FS_EmptySet
  <2>3. PICK x \in A : \A y \in A : x <= y
    BY <2>2, Least
  <2>4. PICK D : D = A \ {x}
    OBVIOUS
  <2>5. D \in SUBSET Nat /\ IsFiniteSet(D) /\ Cardinality(D) = n
    <3>1. D \in SUBSET Nat
      BY <2>4
    <3>2. IsFiniteSet(A \ {x}) /\ Cardinality(A \ {x}) = Cardinality(A) - 1
      BY <2>1, FS_RemoveElement
    <3> QED BY <2>1, <2>4, <3>1, <3>2
  <2>6. PICK g : Enumerates(g, D)
    BY <1>2, <2>5
  <2>7. g \in [1..n -> D] /\ \A i, j \in 1..n : i < j => g[i] < g[j]
    BY <2>5, <2>6 DEF Enumerates
  <2>8. PICK f : f = [i \in 1..(n + 1) |-> IF i = 1 THEN x ELSE g[i - 1]]
    OBVIOUS
  <2>9. \A i \in 1..(n + 1) : i # 1 => i - 1 \in 1..n /\ f[i] = g[i - 1] /\ f[i] \in D
    BY <2>7, <2>8
  <2>10. f[1] = x /\ f \in [1..(n + 1) -> A]
    BY <2>4, <2>8, <2>9
  <2>11. ASSUME NEW i \in 1..(n + 1), NEW j \in 1..(n + 1), i < j PROVE f[i] < f[j]
    <3>1. j # 1 /\ f[j] \in D /\ j - 1 \in 1..n
      BY <2>9, <2>11
    <3>2. CASE i = 1
      <4>1. f[i] = x /\ x <= f[j] /\ x # f[j] /\ x \in Nat /\ f[j] \in Nat
        BY <2>3, <2>4, <2>5, <2>10, <3>1, <3>2
      <4> QED BY <4>1
    <3>3. CASE i # 1
      <4>1. i - 1 \in 1..n /\ i - 1 < j - 1 /\ f[i] = g[i - 1] /\ f[j] = g[j - 1]
        BY <2>9, <2>11, <3>1, <3>3
      <4> QED BY <2>7, <3>1, <4>1
    <3> QED BY <3>2, <3>3
  <2> QED BY <2>1, <2>10, <2>11 DEF Enumerates
<1>3. Cardinality(S) \in M
  <2>1. Cardinality(S) \in Nat
    BY FS_CardinalityType
  <2>2. \A n \in Nat : n \in M => n + 1 \in M
    BY <1>2
  <2> HIDE DEF M
  <2> QED BY <1>1, <2>1, <2>2, Induction
<1> QED BY <1>3

LEMMA AscendingIs ==
    ASSUME NEW S \in SUBSET Nat, IsFiniteSet(S), NEW f, f = Ascending(S)
    PROVE  /\ Cardinality(S) \in Nat /\ f \in [1..Cardinality(S) -> S]
           /\ \A i, j \in 1..Cardinality(S) : f[i] = f[j] => i = j
           /\ \A x \in S : \E i \in 1..Cardinality(S) : f[i] = x
<1>1. PICK n \in Nat : n = Cardinality(S)
  BY FS_CardinalityType
<1>2. f \in [1..n -> S] /\ \A i, j \in 1..n : i < j => f[i] < f[j]
  <2>1. PICK g : Enumerates(g, S)
    BY CanEnumerate
  <2>2. g \in [1..n -> S] /\ \A i, j \in DOMAIN g : i < j => g[i] < g[j]
    BY <1>1, <2>1 DEF Enumerates
  <2>3. f \in [1..n -> S] /\ \A i, j \in DOMAIN f : i < j => f[i] < f[j]
    BY <1>1, <2>2 DEF Ascending
  <2> QED BY <2>3
<1>3. \A i, j \in 1..n : f[i] = f[j] => i = j
  <2> TAKE i, j \in 1..n
  <2>1. f[i] \in Nat /\ f[j] \in Nat
    BY <1>2
  <2> QED BY <1>2, <2>1
<1>4. f \in Injection(1..n, S)
  BY <1>2, <1>3 DEF Injection, IsInjective
<1>5. Cardinality(1..n) = Cardinality(S)
  <2>1. 1 \in Int /\ n \in Int
    OBVIOUS
  <2>2. Cardinality(1..n) = IF 1 > n THEN 0 ELSE n - 1 + 1
    BY <2>1, FS_Interval
  <2> QED BY <1>1, <2>2
<1>6. f \in Surjection(1..n, S)
  BY <1>4, <1>5, FS_Injection
<1>7. \A x \in S : \E i \in 1..n : f[i] = x
  BY <1>6 DEF Surjection
<1> QED BY <1>1, <1>2, <1>3, <1>7

-------------------------------------------------------------------------------
(* Where save() puts what.                                                   *)

LEMMA U64VecIs ==
    ASSUME NEW v \in Seq(Nat)
    PROVE  /\ U64Vec(v) \in Seq(Nat) /\ Len(U64Vec(v)) = U64 + U64 * Len(v)
           /\ Holds(U64Vec(v), 0, Le(Len(v), U64))
           /\ \A i \in 1..Len(v) : Holds(U64Vec(v), i * U64, Le(v[i], U64))
<1>1. PICK n, h : n \in Nat /\ n = Len(v) /\ h = Le(n, U64)
  OBVIOUS
<1>2. PICK d : d = [i \in 1..n |-> Le(v[i], U64)]
  OBVIOUS
<1>3. h \in Seq(Nat) /\ Len(h) = U64 /\ U64 \in Nat
  BY <1>1, LeIs, LayoutIs
<1>4. d \in [1..n -> Seq(Nat)] /\ \A i \in 1..n : Len(d[i]) = U64 /\ d[i] = Le(v[i], U64)
  <2>1. \A i \in 1..n : v[i] \in Nat
    BY <1>1
  <2>2. \A i \in 1..n : Le(v[i], U64) \in Seq(Nat) /\ Len(Le(v[i], U64)) = U64
    BY <1>3, <2>1, LeIs
  <2> QED BY <1>2, <2>2
<1>5. PICK t : t = FlattenSeq(d)
  OBVIOUS
<1>6. /\ t \in Seq(Nat) /\ Len(t) = n * U64
      /\ \A i \in 1..n : Holds(t, (i - 1) * U64, d[i])
  BY <1>1, <1>3, <1>4, <1>5, FlattenIs
<1>7. U64Vec(v) = h \o t
  <2>1. DOMAIN v = 1..n
    BY <1>1
  <2> QED BY <2>1, <1>1, <1>2, <1>5 DEF U64Vec
<1>8. /\ h \o t \in Seq(Nat) /\ Len(h \o t) = U64 + n * U64
      /\ Holds(h \o t, 0, h) /\ Holds(h \o t, U64, t)
  BY <1>3, <1>6, Joined
<1>9. ASSUME NEW i \in 1..n PROVE Holds(h \o t, i * U64, Le(v[i], U64))
  <2>1. (i - 1) * U64 \in Nat /\ U64 + (i - 1) * U64 = i * U64 /\ d[i] \in Seq(Nat)
    <3>1. i - 1 \in Nat /\ (i - 1) * U64 = i * U64 - U64 /\ i * U64 \in Nat
      BY <1>3
    <3>2. (i - 1) * U64 \in Nat
      BY <1>3, <3>1
    <3> QED BY <1>3, <1>4, <3>1, <3>2
  <2>2. Holds(h \o t, U64 + (i - 1) * U64, d[i])
    BY <1>3, <1>6, <1>8, <2>1, Within
  <2> QED BY <1>4, <2>1, <2>2
<1>10. n * U64 = U64 * n
  BY <1>1, <1>3
<1> QED BY <1>1, <1>7, <1>8, <1>9, <1>10

LEMMA SortedIs ==
    ASSUME NEW D \in SUBSET Nat, IsFiniteSet(D), NEW w \in Nat, NEW e \in [D -> Seq(Nat)],
           \A b \in D : Len(e[b]) = w
    PROVE  LET n == Cardinality(D)
               o == Ascending(D)
           IN  /\ Sorted(e) \in Seq(Nat) /\ Len(Sorted(e)) = U64 + n * w
               /\ Holds(Sorted(e), 0, Le(n, U64))
               /\ \A i \in 1..n : Holds(Sorted(e), U64 + (i - 1) * w, e[o[i]])
<1>1. PICK n, o : n = Cardinality(D) /\ o = Ascending(D)
  OBVIOUS
<1>2. n \in Nat /\ o \in [1..n -> D] /\ o \in Seq(D) /\ Len(o) = n
  <2>1. n \in Nat /\ o \in [1..n -> D]
    BY <1>1, AscendingIs
  <2> QED BY <2>1
<1>3. PICK h, d, t : h = Le(n, U64) /\ d = [i \in 1..n |-> e[o[i]]] /\ t = FlattenSeq(d)
  OBVIOUS
<1>4. h \in Seq(Nat) /\ Len(h) = U64 /\ U64 \in Nat
  BY <1>2, <1>3, LeIs, LayoutIs
<1>5. d \in [1..n -> Seq(Nat)] /\ \A i \in 1..n : Len(d[i]) = w /\ d[i] = e[o[i]]
  BY <1>2, <1>3
<1>6. /\ t \in Seq(Nat) /\ Len(t) = n * w
      /\ \A i \in 1..n : Holds(t, (i - 1) * w, d[i])
  BY <1>2, <1>3, <1>5, FlattenIs
<1>7. Sorted(e) = h \o t
  <2>1. DOMAIN o = 1..n /\ DOMAIN e = D
    BY <1>2
  <2> QED BY <2>1, <1>1, <1>2, <1>3 DEF Sorted
<1>8. /\ h \o t \in Seq(Nat) /\ Len(h \o t) = U64 + n * w
      /\ Holds(h \o t, 0, h) /\ Holds(h \o t, U64, t)
  BY <1>4, <1>6, Joined
<1>9. ASSUME NEW i \in 1..n PROVE Holds(h \o t, U64 + (i - 1) * w, e[o[i]])
  <2>1. (i - 1) * w \in Nat /\ d[i] \in Seq(Nat)
    <3>1. i - 1 \in Nat
      OBVIOUS
    <3> QED BY <1>5, <3>1
  <2>2. Holds(h \o t, U64 + (i - 1) * w, d[i])
    BY <1>4, <1>6, <1>8, <2>1, Within
  <2> QED BY <1>5, <2>2
<1> QED BY <1>1, <1>3, <1>7, <1>8, <1>9

\* A state whose numbers may be too large for their fields.
Loose(rows, shares) ==
    [my_ids : Seq(Nat), table : [rows -> [1..K -> Nat]], J : SUBSET Nat,
     cache : [shares -> Nat], t_share : Nat, my_size : Nat, query_no : Nat,
     oracle_salt : Nat]

RowWidth == U32 + K * U64
ShareWidth == U32 + U64

\* The bytes of an entry of each of the three maps.
RowBytes(s) ==
    [b \in DOMAIN s.table |-> Le(b, U32) \o FlattenSeq([k \in 1..K |-> Le(s.table[b][k], U64)])]
IndexBytes(s) == [b \in s.J |-> Le(b, U32)]
ShareBytes(s) == [b \in DOMAIN s.cache |-> Le(b, U32) \o Le(s.cache[b], U64)]

RowsAt(s)  == U64 + U64 * Len(s.my_ids)
JAt(s)     == RowsAt(s) + U64 + Cardinality(DOMAIN s.table) * RowWidth
CacheAt(s) == JAt(s) + U64 + Cardinality(s.J) * U32
TailAt(s)  == CacheAt(s) + U64 + Cardinality(DOMAIN s.cache) * ShareWidth

LEMMA RowBytesIs ==
    ASSUME NEW b \in Nat, NEW r \in [1..K -> Nat]
    PROVE  LET e == Le(b, U32) \o FlattenSeq([k \in 1..K |-> Le(r[k], U64)])
           IN  /\ e \in Seq(Nat) /\ Len(e) = RowWidth
               /\ Holds(e, 0, Le(b, U32))
               /\ \A k \in 1..K : Holds(e, U32 + (k - 1) * U64, Le(r[k], U64))
<1>1. PICK h, d, t : /\ h = Le(b, U32) /\ d = [k \in 1..K |-> Le(r[k], U64)]
                     /\ t = FlattenSeq(d)
  OBVIOUS
<1>2. h \in Seq(Nat) /\ Len(h) = U32 /\ U32 \in Nat /\ U64 \in Nat /\ K \in Nat
  BY <1>1, LeIs, LayoutIs
<1>3. d \in [1..K -> Seq(Nat)] /\ \A k \in 1..K : Len(d[k]) = U64 /\ d[k] = Le(r[k], U64)
  <2>1. \A k \in 1..K : Le(r[k], U64) \in Seq(Nat) /\ Len(Le(r[k], U64)) = U64
    BY <1>2, LeIs
  <2> QED BY <1>1, <2>1
<1>4. t \in Seq(Nat) /\ Len(t) = K * U64 /\ \A k \in 1..K : Holds(t, (k - 1) * U64, d[k])
  BY <1>1, <1>2, <1>3, FlattenIs
<1>5. /\ h \o t \in Seq(Nat) /\ Len(h \o t) = RowWidth
      /\ Holds(h \o t, 0, h) /\ Holds(h \o t, U32, t)
  BY <1>2, <1>4, Joined DEF RowWidth
<1>6. ASSUME NEW k \in 1..K PROVE Holds(h \o t, U32 + (k - 1) * U64, Le(r[k], U64))
  <2>1. (k - 1) * U64 \in Nat /\ d[k] \in Seq(Nat)
    <3>1. k - 1 \in Nat
      OBVIOUS
    <3> QED BY <1>2, <1>3, <3>1
  <2>2. Holds(h \o t, U32 + (k - 1) * U64, d[k])
    BY <1>2, <1>4, <1>5, <2>1, Within
  <2> QED BY <1>3, <2>2
<1> QED BY <1>1, <1>5, <1>6

LEMMA ShareBytesIs ==
    ASSUME NEW b \in Nat, NEW v \in Nat
    PROVE  LET e == Le(b, U32) \o Le(v, U64)
           IN  /\ e \in Seq(Nat) /\ Len(e) = ShareWidth
               /\ Holds(e, 0, Le(b, U32)) /\ Holds(e, U32, Le(v, U64))
<1>1. /\ Le(b, U32) \in Seq(Nat) /\ Len(Le(b, U32)) = U32
      /\ Le(v, U64) \in Seq(Nat) /\ Len(Le(v, U64)) = U64
  BY LeIs, LayoutIs
<1> QED BY <1>1, Joined DEF ShareWidth

\* The rows, the marked buckets and the shares, as they stand one behind the other.
LEMMA RowsHeld ==
    ASSUME NEW rows \in SUBSET Nat, IsFiniteSet(rows),
           NEW s, s.table \in [rows -> [1..K -> Nat]],
           NEW n, n = Cardinality(rows), NEW o, o = Ascending(rows)
    PROVE  LET z == Sorted(RowBytes(s))
           IN  /\ z \in Seq(Nat) /\ Len(z) = U64 + n * RowWidth
               /\ Holds(z, 0, Le(n, U64))
               /\ \A i \in 1..n :
                     /\ Holds(z, U64 + (i - 1) * RowWidth, Le(o[i], U32))
                     /\ \A k \in 1..K :
                           Holds(z, (U64 + (i - 1) * RowWidth) + (U32 + (k - 1) * U64),
                                 Le(s.table[o[i]][k], U64))
<1>1. PICK e, z : e = RowBytes(s) /\ z = Sorted(e)
  OBVIOUS
<1>2. ASSUME NEW b \in rows
      PROVE  /\ e[b] \in Seq(Nat) /\ Len(e[b]) = RowWidth /\ Holds(e[b], 0, Le(b, U32))
             /\ \A k \in 1..K : Holds(e[b], U32 + (k - 1) * U64, Le(s.table[b][k], U64))
  <2>1. b \in Nat /\ s.table[b] \in [1..K -> Nat] /\ DOMAIN s.table = rows
    OBVIOUS
  <2>2. e[b] = Le(b, U32) \o FlattenSeq([k \in 1..K |-> Le(s.table[b][k], U64)])
    BY <1>1, <2>1 DEF RowBytes
  <2> QED BY <2>1, <2>2, RowBytesIs
<1>3. e \in [rows -> Seq(Nat)] /\ \A b \in rows : Len(e[b]) = RowWidth
  <2>1. DOMAIN s.table = rows
    OBVIOUS
  <2>2. e = [b \in rows |-> e[b]]
    BY <1>1, <2>1 DEF RowBytes
  <2> QED BY <1>2, <2>2
<1>4. RowWidth \in Nat /\ U32 \in Nat /\ U64 \in Nat /\ K \in Nat
  BY LayoutIs DEF RowWidth
<1>5. /\ z \in Seq(Nat) /\ Len(z) = U64 + n * RowWidth /\ Holds(z, 0, Le(n, U64))
      /\ \A i \in 1..n : Holds(z, U64 + (i - 1) * RowWidth, e[o[i]])
  BY <1>1, <1>3, <1>4, SortedIs
<1>6. n \in Nat /\ o \in [1..n -> rows]
  BY AscendingIs
<1>7. ASSUME NEW i \in 1..n
      PROVE  /\ Holds(z, U64 + (i - 1) * RowWidth, Le(o[i], U32))
             /\ \A k \in 1..K : Holds(z, (U64 + (i - 1) * RowWidth) + (U32 + (k - 1) * U64),
                                      Le(s.table[o[i]][k], U64))
  <2>1. PICK at \in Nat : at = U64 + (i - 1) * RowWidth
    <3>1. i - 1 \in Nat
      BY <1>6
    <3>2. (i - 1) * RowWidth \in Nat
      BY <1>4, <3>1
    <3> QED BY <1>4, <3>2
  <2>2. PICK b \in rows : b = o[i]
    BY <1>6
  <2>3. b \in Nat /\ e[b] \in Seq(Nat) /\ Holds(z, at, e[b])
    BY <1>2, <1>5, <2>1, <2>2
  <2>4. Holds(z, at, Le(b, U32))
    <3>1. Le(b, U32) \in Seq(Nat) /\ 0 \in Nat /\ Holds(e[b], 0, Le(b, U32)) /\ z \in Seq(Nat)
      BY <1>2, <1>4, <1>5, <2>3, LeIs
    <3>2. Holds(z, at + 0, Le(b, U32))
      BY ONLY <2>3, <3>1, at \in Nat, Within
    <3>3. at + 0 = at
      OBVIOUS
    <3> QED BY <3>2, <3>3
  <2>5. ASSUME NEW k \in 1..K
        PROVE  Holds(z, at + (U32 + (k - 1) * U64), Le(s.table[b][k], U64))
    <3>1. U32 + (k - 1) * U64 \in Nat
      <4>1. k - 1 \in Nat
        BY <1>4
      <4>2. (k - 1) * U64 \in Nat
        BY <1>4, <4>1
      <4> QED BY <1>4, <4>2
    <3>2. s.table[b][k] \in Nat
      OBVIOUS
    <3>3. /\ Le(s.table[b][k], U64) \in Seq(Nat) /\ z \in Seq(Nat)
          /\ Holds(e[b], U32 + (k - 1) * U64, Le(s.table[b][k], U64))
      BY <1>2, <1>4, <1>5, <3>2, LeIs
    <3> QED BY ONLY <2>3, <3>1, <3>3, at \in Nat, Within
  <2> QED BY <2>1, <2>2, <2>4, <2>5
<1> QED BY <1>1, <1>5, <1>7

LEMMA IndexesHeld ==
    ASSUME NEW s, s.J \in SUBSET Nat, IsFiniteSet(s.J),
           NEW n, n = Cardinality(s.J), NEW o, o = Ascending(s.J)
    PROVE  LET z == Sorted(IndexBytes(s))
           IN  /\ z \in Seq(Nat) /\ Len(z) = U64 + n * U32
               /\ Holds(z, 0, Le(n, U64))
               /\ \A i \in 1..n : Holds(z, U64 + (i - 1) * U32, Le(o[i], U32))
<1>1. PICK e, z : e = IndexBytes(s) /\ z = Sorted(e)
  OBVIOUS
<1>2. e \in [s.J -> Seq(Nat)] /\ \A b \in s.J : Len(e[b]) = U32 /\ e[b] = Le(b, U32)
  <2>1. \A b \in s.J : Le(b, U32) \in Seq(Nat) /\ Len(Le(b, U32)) = U32
    BY LeIs, LayoutIs
  <2> QED BY <1>1, <2>1 DEF IndexBytes
<1>3. /\ z \in Seq(Nat) /\ Len(z) = U64 + n * U32 /\ Holds(z, 0, Le(n, U64))
      /\ \A i \in 1..n : Holds(z, U64 + (i - 1) * U32, e[o[i]])
  BY <1>1, <1>2, SortedIs, LayoutIs
<1>4. n \in Nat /\ o \in [1..n -> s.J]
  BY AscendingIs
<1> QED BY <1>1, <1>2, <1>3, <1>4

LEMMA SharesHeld ==
    ASSUME NEW shares \in SUBSET Nat, IsFiniteSet(shares),
           NEW s, s.cache \in [shares -> Nat],
           NEW n, n = Cardinality(shares), NEW o, o = Ascending(shares)
    PROVE  LET z == Sorted(ShareBytes(s))
           IN  /\ z \in Seq(Nat) /\ Len(z) = U64 + n * ShareWidth
               /\ Holds(z, 0, Le(n, U64))
               /\ \A i \in 1..n :
                     /\ Holds(z, U64 + (i - 1) * ShareWidth, Le(o[i], U32))
                     /\ Holds(z, (U64 + (i - 1) * ShareWidth) + U32, Le(s.cache[o[i]], U64))
<1>1. PICK e, z : e = ShareBytes(s) /\ z = Sorted(e)
  OBVIOUS
<1>2. ASSUME NEW b \in shares
      PROVE  /\ e[b] \in Seq(Nat) /\ Len(e[b]) = ShareWidth /\ Holds(e[b], 0, Le(b, U32))
             /\ Holds(e[b], U32, Le(s.cache[b], U64))
  <2>1. b \in Nat /\ s.cache[b] \in Nat /\ DOMAIN s.cache = shares
    OBVIOUS
  <2>2. e[b] = Le(b, U32) \o Le(s.cache[b], U64)
    BY <1>1, <2>1 DEF ShareBytes
  <2> QED BY <2>1, <2>2, ShareBytesIs
<1>3. e \in [shares -> Seq(Nat)] /\ \A b \in shares : Len(e[b]) = ShareWidth
  <2>1. DOMAIN s.cache = shares
    OBVIOUS
  <2>2. e = [b \in shares |-> e[b]]
    BY <1>1, <2>1 DEF ShareBytes
  <2> QED BY <1>2, <2>2
<1>4. ShareWidth \in Nat /\ U32 \in Nat /\ U64 \in Nat
  BY LayoutIs DEF ShareWidth
<1>5. /\ z \in Seq(Nat) /\ Len(z) = U64 + n * ShareWidth /\ Holds(z, 0, Le(n, U64))
      /\ \A i \in 1..n : Holds(z, U64 + (i - 1) * ShareWidth, e[o[i]])
  BY <1>1, <1>3, <1>4, SortedIs
<1>6. n \in Nat /\ o \in [1..n -> shares]
  BY AscendingIs
<1>7. ASSUME NEW i \in 1..n
      PROVE  /\ Holds(z, U64 + (i - 1) * ShareWidth, Le(o[i], U32))
             /\ Holds(z, (U64 + (i - 1) * ShareWidth) + U32, Le(s.cache[o[i]], U64))
  <2>1. PICK at \in Nat : at = U64 + (i - 1) * ShareWidth
    <3>1. i - 1 \in Nat
      BY <1>6
    <3>2. (i - 1) * ShareWidth \in Nat
      BY <1>4, <3>1
    <3> QED BY <1>4, <3>2
  <2>2. PICK b \in shares : b = o[i]
    BY <1>6
  <2>3. b \in Nat /\ s.cache[b] \in Nat /\ e[b] \in Seq(Nat) /\ Holds(z, at, e[b])
    BY <1>2, <1>5, <2>1, <2>2
  <2>4. /\ Le(b, U32) \in Seq(Nat) /\ Le(s.cache[b], U64) \in Seq(Nat) /\ 0 \in Nat
        /\ Holds(e[b], 0, Le(b, U32)) /\ Holds(e[b], U32, Le(s.cache[b], U64))
        /\ z \in Seq(Nat) /\ U32 \in Nat
    BY <1>2, <1>4, <1>5, <2>3, LeIs
  <2>5. Holds(z, at + 0, Le(b, U32)) /\ Holds(z, at + U32, Le(s.cache[b], U64))
    BY ONLY <2>3, <2>4, at \in Nat, Within
  <2>6. at + 0 = at
    OBVIOUS
  <2> QED BY <2>1, <2>2, <2>5, <2>6
<1> QED BY <1>1, <1>5, <1>7

\* One more piece at the end.
LEMMA JoinedOn ==
    ASSUME NEW x \in Seq(Nat), NEW a \in Seq(Nat), NEW z \in Seq(Nat), Holds(z, 0, x \o a)
    PROVE  /\ Holds(z, 0, x) /\ Holds(z, Len(x), a)
           /\ Len(x) \in Nat /\ Len(a) \in Nat /\ Len(x \o a) = Len(x) + Len(a)
<1>1. /\ x \o a \in Seq(Nat) /\ Len(x) \in Nat /\ Len(a) \in Nat
      /\ Len(x \o a) = Len(x) + Len(a)
      /\ Holds(x \o a, 0, x) /\ Holds(x \o a, Len(x), a)
  BY Joined
<1>2. Holds(z, 0 + 0, x) /\ Holds(z, 0 + Len(x), a)
  BY <1>1, Within
<1> QED BY <1>1, <1>2

\* What save() writes, piece by piece.
LEMMA SerializeIs ==
    ASSUME NEW rows \in SUBSET Nat, NEW shares \in SUBSET Nat, NEW s \in Loose(rows, shares),
           IsFiniteSet(rows), IsFiniteSet(shares), IsFiniteSet(s.J),
           NEW bytes, bytes = Serialize(s)
    PROVE  /\ bytes \in Seq(Nat) /\ Len(bytes) = TailAt(s) + Trailer
           /\ RowsAt(s) \in Nat /\ JAt(s) \in Nat /\ CacheAt(s) \in Nat /\ TailAt(s) \in Nat
           /\ Holds(bytes, 0, U64Vec(s.my_ids))
           /\ Holds(bytes, RowsAt(s), Sorted(RowBytes(s)))
           /\ Holds(bytes, JAt(s), Sorted(IndexBytes(s)))
           /\ Holds(bytes, CacheAt(s), Sorted(ShareBytes(s)))
           /\ Holds(bytes, TailAt(s), Le(s.t_share, U64))
           /\ Holds(bytes, TailAt(s) + U64, Le(s.my_size, U64))
           /\ Holds(bytes, TailAt(s) + 2 * U64, Le(s.query_no, U64))
           /\ Holds(bytes, TailAt(s) + 3 * U64, Le(s.oracle_salt, SaltBytes))
<1>1. /\ s.my_ids \in Seq(Nat) /\ s.table \in [rows -> [1..K -> Nat]] /\ s.J \in SUBSET Nat
      /\ s.cache \in [shares -> Nat] /\ s.t_share \in Nat /\ s.my_size \in Nat
      /\ s.query_no \in Nat /\ s.oracle_salt \in Nat
      /\ DOMAIN s.table = rows /\ DOMAIN s.cache = shares
  BY DEF Loose
<1>2. PICK a1, a2, a3, a4, a5, a6, a7, a8 :
        /\ a1 = U64Vec(s.my_ids) /\ a2 = Sorted(RowBytes(s)) /\ a3 = Sorted(IndexBytes(s))
        /\ a4 = Sorted(ShareBytes(s)) /\ a5 = Le(s.t_share, U64) /\ a6 = Le(s.my_size, U64)
        /\ a7 = Le(s.query_no, U64) /\ a8 = Le(s.oracle_salt, SaltBytes)
  OBVIOUS
<1>3. PICK b2, b3, b4, b5, b6, b7, b8 :
        /\ b2 = a1 \o a2 /\ b3 = b2 \o a3 /\ b4 = b3 \o a4 /\ b5 = b4 \o a5
        /\ b6 = b5 \o a6 /\ b7 = b6 \o a7 /\ b8 = b7 \o a8
  OBVIOUS
<1>4. bytes = b8
  BY <1>2, <1>3 DEF Serialize, RowBytes, IndexBytes, ShareBytes
<1>5. a1 \in Seq(Nat) /\ Len(a1) = RowsAt(s)
  BY <1>1, <1>2, U64VecIs DEF RowsAt
<1>6. a2 \in Seq(Nat) /\ Len(a2) = U64 + Cardinality(rows) * RowWidth
  BY <1>1, <1>2, RowsHeld
<1>7. a3 \in Seq(Nat) /\ Len(a3) = U64 + Cardinality(s.J) * U32
  BY <1>1, <1>2, IndexesHeld
<1>8. a4 \in Seq(Nat) /\ Len(a4) = U64 + Cardinality(shares) * ShareWidth
  BY <1>1, <1>2, SharesHeld
<1>9. /\ a5 \in Seq(Nat) /\ a6 \in Seq(Nat) /\ a7 \in Seq(Nat) /\ a8 \in Seq(Nat)
      /\ Len(a5) = U64 /\ Len(a6) = U64 /\ Len(a7) = U64 /\ Len(a8) = SaltBytes
  BY <1>1, <1>2, LeIs, LayoutIs
<1>10. /\ b2 \in Seq(Nat) /\ b3 \in Seq(Nat) /\ b4 \in Seq(Nat) /\ b5 \in Seq(Nat)
       /\ b6 \in Seq(Nat) /\ b7 \in Seq(Nat) /\ b8 \in Seq(Nat) /\ bytes \in Seq(Nat)
  BY <1>3, <1>4, <1>5, <1>6, <1>7, <1>8, <1>9, Joined
<1>11. Holds(bytes, 0, b8)
  BY <1>4, <1>10 DEF Holds
<1>12. Holds(bytes, 0, b7) /\ Holds(bytes, Len(b7), a8) /\ Len(b8) = Len(b7) + Len(a8)
  <2>1. /\ b8 = b7 \o a8 /\ b7 \in Seq(Nat) /\ a8 \in Seq(Nat)
        /\ bytes \in Seq(Nat) /\ Holds(bytes, 0, b8)
    BY <1>3, <1>9, <1>10, <1>11
  <2> QED BY ONLY <2>1, JoinedOn
<1>13. Holds(bytes, 0, b6) /\ Holds(bytes, Len(b6), a7) /\ Len(b7) = Len(b6) + Len(a7)
  <2>1. /\ b7 = b6 \o a7 /\ b6 \in Seq(Nat) /\ a7 \in Seq(Nat)
        /\ bytes \in Seq(Nat) /\ Holds(bytes, 0, b7)
    BY <1>3, <1>9, <1>10, <1>12
  <2> QED BY ONLY <2>1, JoinedOn
<1>14. Holds(bytes, 0, b5) /\ Holds(bytes, Len(b5), a6) /\ Len(b6) = Len(b5) + Len(a6)
  <2>1. /\ b6 = b5 \o a6 /\ b5 \in Seq(Nat) /\ a6 \in Seq(Nat)
        /\ bytes \in Seq(Nat) /\ Holds(bytes, 0, b6)
    BY <1>3, <1>9, <1>10, <1>13
  <2> QED BY ONLY <2>1, JoinedOn
<1>15. /\ Holds(bytes, 0, b4) /\ Holds(bytes, Len(b4), a5) /\ Len(b5) = Len(b4) + Len(a5)
       /\ Len(b4) \in Nat
  <2>1. /\ b5 = b4 \o a5 /\ b4 \in Seq(Nat) /\ a5 \in Seq(Nat)
        /\ bytes \in Seq(Nat) /\ Holds(bytes, 0, b5)
    BY <1>3, <1>9, <1>10, <1>14
  <2> QED BY ONLY <2>1, JoinedOn
<1>16. /\ Holds(bytes, 0, b3) /\ Holds(bytes, Len(b3), a4) /\ Len(b4) = Len(b3) + Len(a4)
       /\ Len(b3) \in Nat
  <2>1. /\ b4 = b3 \o a4 /\ b3 \in Seq(Nat) /\ a4 \in Seq(Nat)
        /\ bytes \in Seq(Nat) /\ Holds(bytes, 0, b4)
    BY <1>3, <1>8, <1>10, <1>15
  <2> QED BY ONLY <2>1, JoinedOn
<1>17. /\ Holds(bytes, 0, b2) /\ Holds(bytes, Len(b2), a3) /\ Len(b3) = Len(b2) + Len(a3)
       /\ Len(b2) \in Nat
  <2>1. /\ b3 = b2 \o a3 /\ b2 \in Seq(Nat) /\ a3 \in Seq(Nat)
        /\ bytes \in Seq(Nat) /\ Holds(bytes, 0, b3)
    BY <1>3, <1>7, <1>10, <1>16
  <2> QED BY ONLY <2>1, JoinedOn
<1>18. /\ Holds(bytes, 0, a1) /\ Holds(bytes, Len(a1), a2) /\ Len(b2) = Len(a1) + Len(a2)
       /\ Len(a1) \in Nat
  <2>1. /\ b2 = a1 \o a2 /\ a1 \in Seq(Nat) /\ a2 \in Seq(Nat)
        /\ bytes \in Seq(Nat) /\ Holds(bytes, 0, b2)
    BY <1>3, <1>5, <1>6, <1>10, <1>17
  <2> QED BY ONLY <2>1, JoinedOn
<1>19. /\ Cardinality(rows) * RowWidth \in Nat /\ Cardinality(s.J) * U32 \in Nat
       /\ Cardinality(shares) * ShareWidth \in Nat
  <2>1. /\ Cardinality(rows) \in Nat /\ Cardinality(s.J) \in Nat
        /\ Cardinality(shares) \in Nat
    BY FS_CardinalityType
  <2>2. RowWidth \in Nat /\ ShareWidth \in Nat /\ U32 \in Nat
    BY LayoutIs DEF RowWidth, ShareWidth
  <2> QED BY ONLY <2>1, <2>2
<1>20. Len(b2) = JAt(s) /\ Len(b3) = CacheAt(s) /\ Len(b4) = TailAt(s)
  <2>1. Len(b2) = JAt(s)
    BY <1>1, <1>5, <1>6, <1>18, <1>19, LayoutIs DEF JAt
  <2>2. Len(b3) = CacheAt(s)
    BY <1>7, <1>17, <1>19, <2>1, LayoutIs DEF CacheAt
  <2> QED BY <1>1, <1>8, <1>16, <1>19, <2>1, <2>2, LayoutIs DEF TailAt
<1>21. /\ Len(b5) = TailAt(s) + U64 /\ Len(b6) = TailAt(s) + 2 * U64
       /\ Len(b7) = TailAt(s) + 3 * U64 /\ Len(bytes) = TailAt(s) + Trailer
  <2>1. TailAt(s) \in Nat /\ Len(b5) = TailAt(s) + U64
    BY <1>9, <1>15, <1>20
  <2>2. Len(b6) = Len(b5) + U64 /\ Len(b7) = Len(b6) + U64 /\ Len(bytes) = Len(b7) + SaltBytes
    BY <1>4, <1>9, <1>12, <1>13, <1>14
  <2> QED BY ONLY <2>1, <2>2, LayoutIs DEF Trailer
<1> QED
  BY ONLY <1>2, <1>5, <1>10, <1>12, <1>13, <1>14, <1>15, <1>16, <1>17, <1>18, <1>20, <1>21

\* Each part ends where the next one starts, behind the one before it.
LEMMA StartsApart ==
    ASSUME NEW s, Len(s.my_ids) \in Nat, Cardinality(DOMAIN s.table) \in Nat,
           Cardinality(s.J) \in Nat
    PROVE  /\ RowsAt(s) >= U64 /\ JAt(s) >= RowsAt(s) + U64 /\ CacheAt(s) >= JAt(s) + U64
<1>1. PICK l \in Nat, r \in Nat, j \in Nat :
        /\ l = U64 * Len(s.my_ids) /\ r = Cardinality(DOMAIN s.table) * RowWidth
        /\ j = Cardinality(s.J) * U32
  <2>1. U64 \in Nat /\ U32 \in Nat /\ RowWidth \in Nat
    BY LayoutIs DEF RowWidth
  <2>2. /\ U64 * Len(s.my_ids) \in Nat /\ Cardinality(DOMAIN s.table) * RowWidth \in Nat
        /\ Cardinality(s.J) * U32 \in Nat
    BY <2>1
  <2> QED BY <2>2
<1>2. U64 \in Nat
  BY LayoutIs
<1>3. RowsAt(s) = U64 + l
  BY <1>1 DEF RowsAt
<1>4. JAt(s) = RowsAt(s) + U64 + r
  BY <1>1 DEF JAt
<1>5. CacheAt(s) = JAt(s) + U64 + j
  BY <1>1 DEF CacheAt
<1> QED BY ONLY <1>2, <1>3, <1>4, <1>5, l \in Nat, r \in Nat, j \in Nat

-------------------------------------------------------------------------------
(* Where load() looks for what.                                              *)

IdsN(bytes)     == Number(bytes, 0, U64)
RowsPos(bytes)  == WireSize(IdsN(bytes))
RowsN(bytes)    == Number(bytes, RowsPos(bytes), U64)
RowPos(bytes, i) == RowsPos(bytes) + U64 + i * (U32 + K * U64)
JPos(bytes)     == RowPos(bytes, RowsN(bytes))
JN(bytes)       == Number(bytes, JPos(bytes), U64)
CachePos(bytes) == JPos(bytes) + U64 + JN(bytes) * U32
CacheN(bytes)   == Number(bytes, CachePos(bytes), U64)
SharePos(bytes, i) == CachePos(bytes) + U64 + i * (U32 + U64)
TailPos(bytes)  == SharePos(bytes, CacheN(bytes))

Sound(bytes) ==
    /\ Fits(IdsN(bytes), RowsPos(bytes))
    /\ TailPos(bytes) + Trailer <= Len(bytes)
    /\ \A i \in 0..(RowsN(bytes) - 1), k \in 0..(K - 1) :
           Number(bytes, RowPos(bytes, i) + U32 + k * U64, U64) < P
    /\ \A i \in 0..(CacheN(bytes) - 1) : Number(bytes, SharePos(bytes, i) + U32, U64) < P
    /\ Number(bytes, TailPos(bytes), U64) < P

RowEntries(bytes) ==
    [i \in 1..RowsN(bytes) |->
        [key   |-> Number(bytes, RowPos(bytes, i - 1), U32),
         value |-> [k \in 1..K |->
                       Number(bytes, RowPos(bytes, i - 1) + U32 + (k - 1) * U64, U64)]]]
ShareEntries(bytes) ==
    [i \in 1..CacheN(bytes) |->
        [key   |-> Number(bytes, SharePos(bytes, i - 1), U32),
         value |-> Number(bytes, SharePos(bytes, i - 1) + U32, U64)]]

Loaded(bytes) ==
    [my_ids |-> [i \in 1..IdsN(bytes) |-> Number(bytes, i * U64, U64)],
     table  |-> MapOf(RowEntries(bytes)),
     J      |-> {Number(bytes, JPos(bytes) + U64 + i * U32, U32) : i \in 0..(JN(bytes) - 1)},
     cache  |-> MapOf(ShareEntries(bytes)),
     t_share     |-> Number(bytes, TailPos(bytes), U64),
     my_size     |-> Number(bytes, TailPos(bytes) + U64, U64),
     query_no    |-> Number(bytes, TailPos(bytes) + 2 * U64, U64),
     oracle_salt |-> Number(bytes, TailPos(bytes) + 3 * U64, SaltBytes)]

LEMMA LoadIs ==
    ASSUME NEW bytes
    PROVE  Load(bytes) = IF Sound(bytes) THEN {Loaded(bytes)} ELSE {}
BY DEF Load, Sound, Loaded, RowEntries, ShareEntries, IdsN, RowsPos, RowsN, RowPos, JPos, JN,
       CachePos, CacheN, SharePos, TailPos

LEMMA NumberTyped ==
    ASSUME NEW bytes \in Seq(Nat), NEW at \in Int, NEW width \in Nat
    PROVE  Number(bytes, at, width) \in Nat
<1>1. PICK r \in [0..width -> Nat] : Number(bytes, at, width) = r[width]
  BY NumberIs
<1> QED BY <1>1

LEMMA WireSizeIs ==
    ASSUME NEW n \in Nat
    PROVE  /\ WireSize(n) \in Nat
           /\ U64 + U64 * n \in Word => WireSize(n) = U64 + U64 * n
<1>1. PICK W \in Nat \ {0}, x \in Nat : W = Weight[U64] /\ x = U64 + U64 * n
  <2>1. Weight[U64] \in Nat \ {0}
    BY WeightIs, LayoutIs
  <2>2. U64 + U64 * n \in Nat
    BY LayoutIs
  <2> QED BY <2>1, <2>2
<1>2. WireSize(n) = x % W
  BY <1>1 DEF WireSize
<1>3. x % W \in Nat
  <2>1. x \in Int /\ x % W \in 0..(W - 1)
    BY DivModIs
  <2> QED BY <2>1
<1>4. ASSUME x \in Word PROVE x % W = x
  <2>1. x = W * 0 + x /\ x \in 0..(W - 1) /\ 0 \in Int
    BY <1>1, <1>4 DEF Word
  <2>2. (W * 0 + x) % W = x
    BY <2>1, DivMod, Zenon
  <2> QED BY <2>1, <2>2
<1> QED BY <1>1, <1>2, <1>3, <1>4

LEMMA Positions ==
    ASSUME NEW b \in Seq(Nat)
    PROVE  /\ IdsN(b) \in Nat /\ RowsN(b) \in Nat /\ JN(b) \in Nat /\ CacheN(b) \in Nat
           /\ RowsPos(b) \in Nat /\ JPos(b) \in Nat /\ CachePos(b) \in Nat /\ TailPos(b) \in Nat
           /\ \A i \in Nat : RowPos(b, i) \in Nat /\ SharePos(b, i) \in Nat
           /\ JPos(b) = RowsPos(b) + U64 + RowsN(b) * RowWidth
           /\ CachePos(b) = JPos(b) + U64 + JN(b) * U32
           /\ TailPos(b) = CachePos(b) + U64 + CacheN(b) * ShareWidth
           /\ JPos(b) >= RowsPos(b) + U64 /\ CachePos(b) >= JPos(b) + U64
           /\ TailPos(b) >= CachePos(b) + U64
<1>1. U64 \in Nat /\ U32 \in Nat /\ RowWidth \in Nat /\ ShareWidth \in Nat
  BY LayoutIs DEF RowWidth, ShareWidth
<1>2. IdsN(b) \in Nat
  BY <1>1, NumberTyped DEF IdsN
<1>3. RowsPos(b) \in Nat
  BY <1>2, WireSizeIs DEF RowsPos
<1>4. RowsN(b) \in Nat
  BY <1>1, <1>3, NumberTyped DEF RowsN
<1>5. \A i \in Nat : i * RowWidth \in Nat /\ i * U32 \in Nat /\ i * ShareWidth \in Nat
  BY <1>1
<1>6. ASSUME NEW i \in Nat
      PROVE  RowPos(b, i) = RowsPos(b) + U64 + i * RowWidth /\ RowPos(b, i) \in Nat
  <2>1. RowPos(b, i) = RowsPos(b) + U64 + i * RowWidth
    BY DEF RowPos, RowWidth
  <2>2. i * RowWidth \in Nat
    BY <1>5
  <2> QED BY ONLY <1>1, <1>3, <2>1, <2>2
<1>7. JPos(b) = RowsPos(b) + U64 + RowsN(b) * RowWidth /\ JPos(b) \in Nat
  BY <1>4, <1>6 DEF JPos
<1>8. JN(b) \in Nat
  BY <1>1, <1>7, NumberTyped DEF JN
<1>9. CachePos(b) = JPos(b) + U64 + JN(b) * U32 /\ CachePos(b) \in Nat
  BY <1>1, <1>5, <1>7, <1>8 DEF CachePos
<1>10. CacheN(b) \in Nat
  BY <1>1, <1>9, NumberTyped DEF CacheN
<1>11. \A i \in Nat : /\ SharePos(b, i) = CachePos(b) + U64 + i * ShareWidth
                      /\ SharePos(b, i) \in Nat
  BY <1>1, <1>5, <1>9 DEF SharePos, ShareWidth
<1>12. TailPos(b) = CachePos(b) + U64 + CacheN(b) * ShareWidth /\ TailPos(b) \in Nat
  BY <1>10, <1>11 DEF TailPos
<1>13. /\ RowsN(b) * RowWidth \in Nat /\ JN(b) * U32 \in Nat
       /\ CacheN(b) * ShareWidth \in Nat
  BY <1>4, <1>5, <1>8, <1>10
<1>14. /\ JPos(b) >= RowsPos(b) + U64 /\ CachePos(b) >= JPos(b) + U64
       /\ TailPos(b) >= CachePos(b) + U64
  <2>1. \A x, y, z, t : x \in Nat /\ z \in Nat /\ t \in Nat /\ y = x + z + t => y >= x + z
    OBVIOUS
  <2>2. JPos(b) >= RowsPos(b) + U64
    BY ONLY <1>1, <1>3, <1>7, <1>13, <2>1
  <2>3. CachePos(b) >= JPos(b) + U64
    BY ONLY <1>1, <1>7, <1>9, <1>13, <2>1
  <2>4. TailPos(b) >= CachePos(b) + U64
    BY ONLY <1>1, <1>9, <1>12, <1>13, <2>1
  <2> QED BY <2>2, <2>3, <2>4
<1> QED BY ONLY <1>2, <1>3, <1>4, <1>6, <1>7, <1>8, <1>9, <1>10, <1>11, <1>12, <1>14

-------------------------------------------------------------------------------
(* What a state in memory fits into.                                         *)

LEMMA WeightGrows ==
    ASSUME NEW m \in Nat, NEW n \in Nat, m < n
    PROVE  Weight[m] < Weight[n]
<1> DEFINE S == {k \in Nat : Weight[m] < Weight[m + k + 1]}
<1>0. \A k \in Nat : /\ Weight[k] \in Nat /\ Weight[k] > 0 /\ Weight[k + 1] = Byte * Weight[k]
                     /\ Weight[k] < Weight[k + 1]
  <2> TAKE k \in Nat
  <2>1. PICK w \in Nat, B \in Nat :
            w = Weight[k] /\ w > 0 /\ Weight[k + 1] = Byte * w /\ B = Byte /\ B >= 2
    BY WeightIs, LayoutIs
  <2>2. PICK c \in Nat : B = c + 2
    <3>1. B - 2 \in Nat /\ B = (B - 2) + 2
      BY <2>1
    <3> QED BY <3>1
  <2>3. B * w = c * w + 2 * w /\ c * w \in Nat
    BY <2>2
  <2>4. B * w \in Nat /\ w < B * w
    BY <2>1, <2>3
  <2>5. Weight[k + 1] = B * w
    BY <2>1
  <2> QED BY <2>1, <2>4, <2>5
<1>1. 0 \in S
  BY <1>0
<1>2. ASSUME NEW k \in Nat, k \in S PROVE k + 1 \in S
  <2>1. m + k + 1 \in Nat /\ m + (k + 1) + 1 = (m + k + 1) + 1 /\ m \in Nat
    OBVIOUS
  <2>2. Weight[m] < Weight[m + k + 1]
    BY <1>2
  <2>3. /\ Weight[m] \in Nat /\ Weight[m + k + 1] \in Nat /\ Weight[(m + k + 1) + 1] \in Nat
        /\ Weight[m + k + 1] < Weight[(m + k + 1) + 1]
    BY <1>0, <2>1
  <2>4. Weight[m] < Weight[(m + k + 1) + 1]
    BY ONLY <2>2, <2>3
  <2> QED BY <2>1, <2>4
<1>3. n - m - 1 \in S
  <2>1. n - m - 1 \in Nat
    OBVIOUS
  <2>2. \A k \in Nat : k \in S => k + 1 \in S
    BY <1>2
  <2> HIDE DEF S
  <2> QED BY <1>1, <2>1, <2>2, Induction
<1>4. m + (n - m - 1) + 1 = n
  OBVIOUS
<1> QED BY <1>3, <1>4

\* A word counts any set of buckets.
LEMMA CountsFit ==
    ASSUME NEW S \in SUBSET Index
    PROVE  /\ S \in SUBSET Nat /\ IsFiniteSet(S) /\ Cardinality(S) \in Nat
           /\ Cardinality(S) < Weight[U64]
           /\ \A b \in S : b < Weight[U32]
<1>1. PICK w \in Nat, W \in Nat : w = Weight[U32] /\ w > 0 /\ W = Weight[U64] /\ w < W
  BY WeightIs, WeightGrows, LayoutIs
<1>2. Index = 0..(w - 1)
  BY <1>1 DEF Index
<1>3. IsFiniteSet(0..(w - 1)) /\ Cardinality(0..(w - 1)) = w
  <2>1. 0 \in Int /\ w - 1 \in Int /\ ~ (0 > w - 1) /\ w - 1 - 0 + 1 = w
    BY <1>1
  <2>2. /\ IsFiniteSet(0..(w - 1))
        /\ Cardinality(0..(w - 1)) = IF 0 > w - 1 THEN 0 ELSE w - 1 - 0 + 1
    BY <2>1, FS_Interval
  <2> QED BY <2>1, <2>2
<1>4. IsFiniteSet(S) /\ Cardinality(S) <= w
  BY <1>2, <1>3, FS_Subset
<1>5. Cardinality(S) \in Nat
  BY <1>4, FS_CardinalityType
<1>6. \A b \in S : b \in Nat /\ b < w
  BY <1>2
<1> QED BY <1>1, <1>4, <1>5, <1>6

\* A state in memory, and its bytes.
InBytes(s, rows, shares) ==
    /\ rows \in SUBSET Index /\ shares \in SUBSET Index
    /\ s \in Held(rows, shares)
    /\ U64 + U64 * Len(s.my_ids) \in Word

LEMMA HeldIs ==
    ASSUME NEW s, NEW rows, NEW shares, InBytes(s, rows, shares)
    PROVE  /\ rows \in SUBSET Nat /\ shares \in SUBSET Nat /\ s \in Loose(rows, shares)
           /\ IsFiniteSet(rows) /\ IsFiniteSet(shares) /\ IsFiniteSet(s.J)
           /\ s.my_ids \in Seq(Nat) /\ Len(s.my_ids) \in Nat /\ Len(s.my_ids) < Weight[U64]
           /\ \A i \in 1..Len(s.my_ids) : s.my_ids[i] \in Nat /\ s.my_ids[i] < Weight[U64]
           /\ s.table \in [rows -> [1..K -> Nat]]
           /\ \A b \in rows : \A k \in 1..K :
                  s.table[b][k] \in Nat /\ s.table[b][k] < P /\ s.table[b][k] < Weight[U64]
           /\ s.J \in SUBSET Nat /\ s.J \in SUBSET Index
           /\ s.cache \in [shares -> Nat]
           /\ \A b \in shares :
                  s.cache[b] \in Nat /\ s.cache[b] < P /\ s.cache[b] < Weight[U64]
           /\ s.t_share \in Nat /\ s.t_share < P /\ s.t_share < Weight[U64]
           /\ s.my_size \in Nat /\ s.my_size < Weight[U64]
           /\ s.query_no \in Nat /\ s.query_no < Weight[U64]
           /\ s.oracle_salt \in Nat /\ s.oracle_salt < Weight[SaltBytes]
<1>1. /\ s.my_ids \in Seq(Word) /\ s.table \in [rows -> [1..K -> Element]]
      /\ s.J \in SUBSET Index /\ s.cache \in [shares -> Element] /\ s.t_share \in Element
      /\ s.my_size \in Word /\ s.query_no \in Word /\ s.oracle_salt \in Salt
  BY DEF InBytes, Held
<1>2. /\ \A x \in Word : x \in Nat /\ x < Weight[U64]
      /\ \A x \in Salt : x \in Nat /\ x < Weight[SaltBytes]
      /\ \A x \in Element : x \in Nat /\ x < P /\ x < Weight[U64]
      /\ \A x \in Index : x \in Nat
  <2>1. /\ Weight[U64] \in Nat /\ Weight[SaltBytes] \in Nat /\ Weight[U32] \in Nat /\ P \in Nat
        /\ Element \subseteq Word
    BY WeightIs, LayoutIs, ModulusAssumption
  <2>2. \A x \in Word : x \in Nat /\ x < Weight[U64]
    BY <2>1 DEF Word
  <2>3. \A x \in Salt : x \in Nat /\ x < Weight[SaltBytes]
    BY <2>1 DEF Salt
  <2>4. \A x \in Element : x < P
    BY <2>1 DEF Element
  <2>5. \A x \in Index : x \in Nat
    BY <2>1 DEF Index
  <2> QED BY <2>1, <2>2, <2>3, <2>4, <2>5
<1>3. /\ s.my_ids \in Seq(Nat) /\ Len(s.my_ids) \in Nat
      /\ \A i \in 1..Len(s.my_ids) : s.my_ids[i] \in Nat /\ s.my_ids[i] < Weight[U64]
  <2>1. Len(s.my_ids) \in Nat /\ \A i \in 1..Len(s.my_ids) : s.my_ids[i] \in Word
    BY <1>1
  <2>2. \A i \in 1..Len(s.my_ids) : s.my_ids[i] \in Nat /\ s.my_ids[i] < Weight[U64]
    BY <1>2, <2>1
  <2>3. s.my_ids \in Seq(Nat)
    <3>1. PICK q \in Seq(Word) : q = s.my_ids
      BY <1>1
    <3>2. q = [i \in 1..Len(q) |-> q[i]] /\ Len(q) \in Nat /\ \A i \in 1..Len(q) : q[i] \in Nat
      BY <2>2, <3>1
    <3>3. [i \in 1..Len(q) |-> q[i]] \in Seq(Nat)
      BY ONLY <3>2
    <3> QED BY <3>1, <3>2, <3>3
  <2> QED BY <2>1, <2>2, <2>3
<1>4. Len(s.my_ids) < Weight[U64]
  <2>1. PICK l \in Nat, u \in Nat, W \in Nat :
            l = Len(s.my_ids) /\ u = U64 /\ u > 0 /\ W = Weight[U64]
    BY <1>3, LayoutIs, WeightIs
  <2>2. u + u * l < W
    BY <1>2, <2>1 DEF InBytes
  <2>3. u * l >= l /\ u * l \in Nat
    <3>1. PICK v \in Nat : u = v + 1
      <4>1. u - 1 \in Nat /\ u = (u - 1) + 1
        BY <2>1
      <4> QED BY <4>1
    <3>2. u * l = v * l + l /\ v * l \in Nat
      BY <3>1
    <3> QED BY <3>2
  <2> QED BY <2>1, <2>2, <2>3
<1>5. s.table \in [rows -> [1..K -> Nat]]
  <2>1. \A r \in [1..K -> Element] : r \in [1..K -> Nat]
    BY <1>2
  <2> QED BY <1>1, <2>1
<1>6. s.J \in SUBSET Nat /\ s.cache \in [shares -> Nat]
  BY <1>1, <1>2
<1>7. /\ \A b \in rows : \A k \in 1..K :
             s.table[b][k] \in Nat /\ s.table[b][k] < P /\ s.table[b][k] < Weight[U64]
      /\ \A b \in shares : s.cache[b] \in Nat /\ s.cache[b] < P /\ s.cache[b] < Weight[U64]
  BY <1>1, <1>2
<1>8. s \in Loose(rows, shares)
  <2>1. s = [my_ids |-> s.my_ids, table |-> s.table, J |-> s.J, cache |-> s.cache,
             t_share |-> s.t_share, my_size |-> s.my_size, query_no |-> s.query_no,
             oracle_salt |-> s.oracle_salt]
    BY DEF InBytes, Held
  <2>2. s.t_share \in Nat /\ s.my_size \in Nat /\ s.query_no \in Nat /\ s.oracle_salt \in Nat
    BY <1>1, <1>2
  <2> QED BY ONLY <1>3, <1>5, <1>6, <2>1, <2>2 DEF Loose
<1>9. /\ rows \in SUBSET Nat /\ shares \in SUBSET Nat
      /\ IsFiniteSet(rows) /\ IsFiniteSet(shares) /\ IsFiniteSet(s.J)
  BY <1>1, CountsFit DEF InBytes
<1> QED BY <1>1, <1>2, <1>3, <1>4, <1>5, <1>6, <1>7, <1>8, <1>9

-------------------------------------------------------------------------------
(* A file cut short.                                                         *)

\* The number at the head of a piece that stands in the first n bytes.
LEMMA HeadRead ==
    ASSUME NEW bytes \in Seq(Nat), NEW n \in 0..Len(bytes), NEW at \in Nat,
           NEW piece \in Seq(Nat), NEW off \in Nat, NEW width \in Nat, NEW x \in Nat,
           x < Weight[width],
           Holds(bytes, at, piece), Holds(piece, off, Le(x, width)), at + off + width <= n
    PROVE  Number(SubSeq(bytes, 1, n), at + off, width) = x
<1>1. Le(x, width) \in Seq(Nat) /\ Len(Le(x, width)) = width
  BY LeIs
<1>2. Holds(bytes, at + off, Le(x, width))
  BY <1>1, Within
<1>3. Holds(SubSeq(bytes, 1, n), at + off, Le(x, width))
  <2>1. at + off \in Nat /\ (at + off) + Len(Le(x, width)) <= n
    BY <1>1
  <2> QED BY <1>1, <1>2, <2>1, CutHolds
<1>4. SubSeq(bytes, 1, n) \in Seq(Nat) /\ at + off \in Nat
  OBVIOUS
<1>5. PICK c \in Seq(Nat), a \in Nat : c = SubSeq(bytes, 1, n) /\ a = at + off
  BY <1>4
<1>6. Holds(c, a, Le(x, width))
  BY <1>3, <1>5
<1>7. Number(c, a, width) = x
  BY ONLY <1>6, ReadBack, width \in Nat, x \in Nat, x < Weight[width], c \in Seq(Nat), a \in Nat
<1> QED BY <1>5, <1>7

\* What a field is read as, whole files and cut ones alike, once it is there.
LEMMA CutFields ==
    ASSUME NEW s, NEW rows, NEW shares, InBytes(s, rows, shares),
           NEW bytes, bytes = Serialize(s), NEW n \in 0..Len(bytes),
           NEW c, c = SubSeq(bytes, 1, n)
    PROVE  /\ n >= U64 => IdsN(c) = Len(s.my_ids) /\ RowsPos(c) = RowsAt(s)
           /\ n >= RowsAt(s) + U64 => RowsN(c) = Cardinality(rows) /\ JPos(c) = JAt(s)
           /\ n >= JAt(s) + U64 => JN(c) = Cardinality(s.J) /\ CachePos(c) = CacheAt(s)
           /\ n >= CacheAt(s) + U64 => CacheN(c) = Cardinality(shares) /\ TailPos(c) = TailAt(s)
<1>1. /\ rows \in SUBSET Nat /\ shares \in SUBSET Nat /\ s \in Loose(rows, shares)
      /\ IsFiniteSet(rows) /\ IsFiniteSet(shares) /\ IsFiniteSet(s.J)
      /\ s.my_ids \in Seq(Nat) /\ Len(s.my_ids) \in Nat /\ Len(s.my_ids) < Weight[U64]
      /\ s.table \in [rows -> [1..K -> Nat]] /\ s.cache \in [shares -> Nat]
      /\ DOMAIN s.table = rows /\ DOMAIN s.cache = shares /\ s.J \in SUBSET Index
      /\ s.J \in SUBSET Nat
  BY HeldIs
<1>2. /\ bytes \in Seq(Nat) /\ Len(bytes) = TailAt(s) + Trailer
      /\ RowsAt(s) \in Nat /\ JAt(s) \in Nat /\ CacheAt(s) \in Nat /\ TailAt(s) \in Nat
      /\ Holds(bytes, 0, U64Vec(s.my_ids))
      /\ Holds(bytes, RowsAt(s), Sorted(RowBytes(s)))
      /\ Holds(bytes, JAt(s), Sorted(IndexBytes(s)))
      /\ Holds(bytes, CacheAt(s), Sorted(ShareBytes(s)))
  BY <1>1, SerializeIs
<1>3. U64 \in Nat /\ c \in Seq(Nat)
  BY <1>2, LayoutIs
<1>4. /\ U64Vec(s.my_ids) \in Seq(Nat)
      /\ Holds(U64Vec(s.my_ids), 0, Le(Len(s.my_ids), U64))
  BY <1>1, U64VecIs
<1>5. /\ Sorted(RowBytes(s)) \in Seq(Nat)
      /\ Holds(Sorted(RowBytes(s)), 0, Le(Cardinality(rows), U64))
  BY <1>1, RowsHeld
<1>6. /\ Sorted(IndexBytes(s)) \in Seq(Nat)
      /\ Holds(Sorted(IndexBytes(s)), 0, Le(Cardinality(s.J), U64))
  BY <1>1, IndexesHeld
<1>7. /\ Sorted(ShareBytes(s)) \in Seq(Nat)
      /\ Holds(Sorted(ShareBytes(s)), 0, Le(Cardinality(shares), U64))
  BY <1>1, SharesHeld
<1>8. /\ Cardinality(rows) \in Nat /\ Cardinality(rows) < Weight[U64]
      /\ Cardinality(shares) \in Nat /\ Cardinality(shares) < Weight[U64]
      /\ Cardinality(s.J) \in Nat /\ Cardinality(s.J) < Weight[U64]
  BY <1>1, CountsFit DEF InBytes
<1>9. ASSUME NEW at \in Nat, NEW piece \in Seq(Nat), NEW x \in Nat, x < Weight[U64],
             Holds(bytes, at, piece), Holds(piece, 0, Le(x, U64)), n >= at + U64
      PROVE  Number(c, at, U64) = x
  <2>1. at + 0 = at /\ (at + 0) + U64 <= n /\ 0 \in Nat
    BY <1>3, <1>9
  <2>2. Number(SubSeq(bytes, 1, n), at + 0, U64) = x
    BY ONLY <1>2, <1>3, <1>9, <2>1, HeadRead, n \in 0..Len(bytes)
  <2> QED BY <2>1, <2>2
<1>10. RowsAt(s) >= U64 /\ JAt(s) >= RowsAt(s) + U64 /\ CacheAt(s) >= JAt(s) + U64
  <2>1. Cardinality(DOMAIN s.table) \in Nat /\ Cardinality(s.J) \in Nat
    BY <1>1, <1>8
  <2> QED BY <1>1, <2>1, StartsApart
<1>11. ASSUME n >= U64 PROVE IdsN(c) = Len(s.my_ids) /\ RowsPos(c) = RowsAt(s)
  <2>1. IdsN(c) = Len(s.my_ids)
    BY <1>1, <1>2, <1>3, <1>4, <1>9, <1>11 DEF IdsN
  <2>2. WireSize(Len(s.my_ids)) = U64 + U64 * Len(s.my_ids)
    BY <1>1, WireSizeIs DEF InBytes
  <2> QED BY <2>1, <2>2 DEF RowsPos, RowsAt
<1>12. ASSUME n >= RowsAt(s) + U64 PROVE RowsN(c) = Cardinality(rows) /\ JPos(c) = JAt(s)
  <2>1. RowsPos(c) = RowsAt(s)
    BY <1>2, <1>3, <1>10, <1>11, <1>12
  <2>2. RowsN(c) = Cardinality(rows)
    BY <1>2, <1>5, <1>8, <1>9, <1>12, <2>1 DEF RowsN
  <2> QED BY <1>1, <1>3, <2>1, <2>2, Positions DEF JAt
<1>13. ASSUME n >= JAt(s) + U64 PROVE JN(c) = Cardinality(s.J) /\ CachePos(c) = CacheAt(s)
  <2>1. JPos(c) = JAt(s)
    BY <1>2, <1>3, <1>10, <1>12, <1>13
  <2>2. JN(c) = Cardinality(s.J)
    BY <1>2, <1>6, <1>8, <1>9, <1>13, <2>1 DEF JN
  <2> QED BY <1>1, <1>3, <2>1, <2>2, Positions DEF CacheAt
<1>14. ASSUME n >= CacheAt(s) + U64
       PROVE  CacheN(c) = Cardinality(shares) /\ TailPos(c) = TailAt(s)
  <2>1. CachePos(c) = CacheAt(s)
    BY <1>2, <1>3, <1>10, <1>13, <1>14
  <2>2. CacheN(c) = Cardinality(shares)
    BY <1>2, <1>7, <1>8, <1>9, <1>14, <2>1 DEF CacheN
  <2> QED BY <1>1, <1>3, <2>1, <2>2, Positions DEF TailAt
<1> QED BY <1>11, <1>12, <1>13, <1>14

\* load() refuses a file whose end is missing.
LEMMA RefusesCut ==
    ASSUME NEW s, NEW rows, NEW shares, InBytes(s, rows, shares),
           NEW n \in 0..(Len(Serialize(s)) - 1)
    PROVE  Load(SubSeq(Serialize(s), 1, n)) = {}
<1>1. PICK bytes, c : bytes = Serialize(s) /\ c = SubSeq(bytes, 1, n)
  OBVIOUS
<1>2. /\ bytes \in Seq(Nat) /\ Len(bytes) = TailAt(s) + Trailer
      /\ RowsAt(s) \in Nat /\ JAt(s) \in Nat /\ CacheAt(s) \in Nat /\ TailAt(s) \in Nat
  BY <1>1, HeldIs, SerializeIs
<1>3. n \in Nat /\ n \in 0..Len(bytes) /\ n < Len(bytes) /\ c \in Seq(Nat) /\ Len(c) = n
  BY <1>1, <1>2
<1>4. /\ n >= U64 => RowsPos(c) = RowsAt(s)
      /\ n >= RowsAt(s) + U64 => JPos(c) = JAt(s)
      /\ n >= JAt(s) + U64 => CachePos(c) = CacheAt(s)
      /\ n >= CacheAt(s) + U64 => TailPos(c) = TailAt(s)
  BY <1>1, <1>3, CutFields
<1>5. /\ RowsPos(c) \in Nat /\ JPos(c) \in Nat /\ CachePos(c) \in Nat /\ TailPos(c) \in Nat
      /\ JPos(c) >= RowsPos(c) + U64 /\ CachePos(c) >= JPos(c) + U64
      /\ TailPos(c) >= CachePos(c) + U64
  BY <1>3, Positions
<1>6. U64 \in Nat /\ U64 > 0 /\ Trailer \in Nat /\ Trailer > 0
  BY LayoutIs DEF Trailer
<1>7. TailPos(c) + Trailer > Len(c)
  <2>1. PICK m \in Nat, u \in Nat, z \in Nat, R \in Nat, J \in Nat, C \in Nat, T \in Nat :
          /\ m = n /\ u = U64 /\ z = Trailer /\ R = RowsAt(s) /\ J = JAt(s) /\ C = CacheAt(s)
          /\ T = TailAt(s)
    BY <1>2, <1>3, <1>6
  <2>2. PICK r \in Nat, j \in Nat, k \in Nat, t \in Nat :
          r = RowsPos(c) /\ j = JPos(c) /\ k = CachePos(c) /\ t = TailPos(c)
    BY <1>5
  <2>3. /\ m < T + z /\ Len(c) = m /\ u > 0 /\ z > 0
        /\ j >= r + u /\ k >= j + u /\ t >= k + u
    BY ONLY <1>2, <1>3, <1>5, <1>6, <2>1, <2>2
  <2>4. /\ m >= u => r = R
        /\ m >= R + u => j = J
        /\ m >= J + u => k = C
        /\ m >= C + u => t = T
    BY ONLY <1>4, <2>1, <2>2
  <2>5. t + z > m
    BY ONLY <2>3, <2>4, m \in Nat, u \in Nat, z \in Nat, R \in Nat, J \in Nat, C \in Nat,
            T \in Nat, r \in Nat, j \in Nat, k \in Nat, t \in Nat
  <2> QED BY ONLY <2>1, <2>2, <2>3, <2>5
<1>8. ~ Sound(c)
  BY <1>3, <1>5, <1>6, <1>7 DEF Sound
<1> QED BY <1>1, <1>8, LoadIs

-------------------------------------------------------------------------------
(* What a whole file gives back.                                             *)

\* Entry i is that of key o[i] of the map m, and every key has one.
Enters(e, n, o, D, m) ==
    /\ n \in Nat /\ o \in [1..n -> D]
    /\ \A i, j \in 1..n : o[i] = o[j] => i = j
    /\ \A x \in D : \E i \in 1..n : o[i] = x
    /\ DOMAIN e = 1..n /\ \A i \in 1..n : e[i].key = o[i] /\ e[i].value = m[o[i]]

\* The entries of a map, read one after the other, give it back.
LEMMA MapOfIs ==
    ASSUME NEW D, NEW n, NEW o, NEW R, NEW m \in [D -> R], NEW e, Enters(e, n, o, D, m)
    PROVE  MapOf(e) = m
<1> USE DEF Enters
<1>1. {x.key : x \in ToSet(e)} = D
  <2>1. ToSet(e) = {e[i] : i \in 1..n}
    BY DEF ToSet
  <2> QED BY <2>1
<1>2. ASSUME NEW b \in D PROVE e[Max({i \in DOMAIN e : e[i].key = b})].value = m[b]
  <2>1. PICK i \in 1..n : o[i] = b
    OBVIOUS
  <2>2. {j \in DOMAIN e : e[j].key = b} = {i}
    BY <2>1
  <2>3. Max({i}) = i
    BY DEF Max
  <2> QED BY <2>1, <2>2, <2>3
<1>3. MapOf(e) = [b \in D |-> e[Max({i \in DOMAIN e : e[i].key = b})].value]
  BY <1>1 DEF MapOf
<1>4. MapOf(e) = [b \in D |-> m[b]]
  BY <1>2, <1>3
<1> QED BY <1>4

\* A number of any piece of a whole file.
LEMMA PieceRead ==
    ASSUME NEW bytes \in Seq(Nat), NEW at \in Nat, NEW piece \in Seq(Nat), NEW off \in Nat,
           NEW width \in Nat, NEW x \in Nat, x < Weight[width],
           Holds(bytes, at, piece), Holds(piece, off, Le(x, width))
    PROVE  Number(bytes, at + off, width) = x
<1>1. Le(x, width) \in Seq(Nat)
  BY LeIs
<1>2. Holds(bytes, at + off, Le(x, width))
  BY <1>1, Within
<1>3. PICK a \in Nat : a = at + off
  OBVIOUS
<1>4. Holds(bytes, a, Le(x, width))
  BY <1>2, <1>3
<1>5. Number(bytes, a, width) = x
  BY ONLY <1>4, ReadBack, width \in Nat, x \in Nat, x < Weight[width], bytes \in Seq(Nat),
          a \in Nat
<1> QED BY <1>3, <1>5

LEMMA WholeFields ==
    ASSUME NEW s, NEW rows, NEW shares, InBytes(s, rows, shares),
           NEW bytes, bytes = Serialize(s)
    PROVE  /\ bytes \in Seq(Nat) /\ Len(bytes) = TailAt(s) + Trailer
           /\ IdsN(bytes) = Len(s.my_ids) /\ RowsPos(bytes) = RowsAt(s)
           /\ RowsN(bytes) = Cardinality(rows) /\ JPos(bytes) = JAt(s)
           /\ JN(bytes) = Cardinality(s.J) /\ CachePos(bytes) = CacheAt(s)
           /\ CacheN(bytes) = Cardinality(shares) /\ TailPos(bytes) = TailAt(s)
<1>1. PICK n : n = Len(bytes)
  OBVIOUS
<1>2. /\ bytes \in Seq(Nat) /\ Len(bytes) = TailAt(s) + Trailer
      /\ RowsAt(s) \in Nat /\ JAt(s) \in Nat /\ CacheAt(s) \in Nat /\ TailAt(s) \in Nat
  BY HeldIs, SerializeIs
<1>3. n \in 0..Len(bytes) /\ SubSeq(bytes, 1, n) = bytes
  BY <1>1, <1>2
<1>4. /\ n >= U64 => IdsN(bytes) = Len(s.my_ids) /\ RowsPos(bytes) = RowsAt(s)
      /\ n >= RowsAt(s) + U64 => RowsN(bytes) = Cardinality(rows) /\ JPos(bytes) = JAt(s)
      /\ n >= JAt(s) + U64 => JN(bytes) = Cardinality(s.J) /\ CachePos(bytes) = CacheAt(s)
      /\ n >= CacheAt(s) + U64 =>
            CacheN(bytes) = Cardinality(shares) /\ TailPos(bytes) = TailAt(s)
  BY <1>3, CutFields
<1>5. /\ RowsAt(s) >= U64 /\ JAt(s) >= RowsAt(s) + U64 /\ CacheAt(s) >= JAt(s) + U64
      /\ TailAt(s) >= CacheAt(s) + U64
  <2>1. /\ Len(s.my_ids) \in Nat /\ s.J \in SUBSET Index
        /\ DOMAIN s.table = rows /\ DOMAIN s.cache = shares
    BY HeldIs
  <2>2. Cardinality(rows) \in Nat /\ Cardinality(s.J) \in Nat /\ Cardinality(shares) \in Nat
    BY <2>1, CountsFit DEF InBytes
  <2>3. ShareWidth \in Nat
    BY LayoutIs DEF ShareWidth
  <2>4. PICK x \in Nat : x = Cardinality(shares) * ShareWidth
    BY <2>2, <2>3
  <2>5. TailAt(s) = CacheAt(s) + U64 + x
    BY <2>1, <2>4 DEF TailAt
  <2>6. TailAt(s) >= CacheAt(s) + U64
    BY <1>2, <2>5, LayoutIs
  <2> QED BY <2>1, <2>2, <2>6, StartsApart
<1>6. Trailer \in Nat /\ U64 \in Nat
  BY LayoutIs DEF Trailer
<1>7. n >= CacheAt(s) + U64 /\ n >= JAt(s) + U64 /\ n >= RowsAt(s) + U64 /\ n >= U64
  BY ONLY <1>1, <1>2, <1>5, <1>6
<1> QED BY <1>2, <1>4, <1>7

\* What each field of a whole file is read as.
LEMMA WholeRows ==
    ASSUME NEW s, NEW rows, NEW shares, InBytes(s, rows, shares),
           NEW bytes, bytes = Serialize(s)
    PROVE  /\ \A i \in 0..(RowsN(bytes) - 1), k \in 0..(K - 1) :
                  Number(bytes, RowPos(bytes, i) + U32 + k * U64, U64) < P
           /\ MapOf(RowEntries(bytes)) = s.table
<1>1. PICK n, o : n = Cardinality(rows) /\ o = Ascending(rows)
  OBVIOUS
<1>2. /\ rows \in SUBSET Nat /\ IsFiniteSet(rows) /\ s.table \in [rows -> [1..K -> Nat]]
      /\ \A b \in rows : \A k \in 1..K :
             s.table[b][k] \in Nat /\ s.table[b][k] < P /\ s.table[b][k] < Weight[U64]
      /\ \A b \in rows : b < Weight[U32]
  <2>1. rows \in SUBSET Index
    BY DEF InBytes
  <2> QED BY <2>1, HeldIs, CountsFit
<1>3. /\ n \in Nat /\ o \in [1..n -> rows]
      /\ \A i, j \in 1..n : o[i] = o[j] => i = j
      /\ \A x \in rows : \E i \in 1..n : o[i] = x
  <2>1. rows \in SUBSET Nat /\ IsFiniteSet(rows) /\ o = Ascending(rows)
    BY <1>1, <1>2
  <2>2. /\ Cardinality(rows) \in Nat /\ o \in [1..Cardinality(rows) -> rows]
        /\ \A i, j \in 1..Cardinality(rows) : o[i] = o[j] => i = j
        /\ \A x \in rows : \E i \in 1..Cardinality(rows) : o[i] = x
    BY ONLY <2>1, AscendingIs
  <2> QED BY <1>1, <2>2
<1>4. bytes \in Seq(Nat) /\ RowsN(bytes) = n /\ RowsPos(bytes) = RowsAt(s)
  BY <1>1, WholeFields
<1>5. PICK z : z = Sorted(RowBytes(s))
  OBVIOUS
<1>6. /\ z \in Seq(Nat)
      /\ \A i \in 1..n :
            /\ Holds(z, U64 + (i - 1) * RowWidth, Le(o[i], U32))
            /\ \A k \in 1..K : Holds(z, (U64 + (i - 1) * RowWidth) + (U32 + (k - 1) * U64),
                                     Le(s.table[o[i]][k], U64))
  BY <1>1, <1>2, <1>5, RowsHeld
<1>7. Holds(bytes, RowsAt(s), z) /\ RowsAt(s) \in Nat
  BY <1>5, HeldIs, SerializeIs
<1>8. RowWidth \in Nat /\ U32 \in Nat /\ U64 \in Nat /\ K \in Nat
  BY LayoutIs DEF RowWidth
<1>9. ASSUME NEW i \in 1..n
      PROVE  /\ Number(bytes, RowPos(bytes, i - 1), U32) = o[i]
             /\ \A k \in 1..K :
                   Number(bytes, RowPos(bytes, i - 1) + U32 + (k - 1) * U64, U64)
                       = s.table[o[i]][k]
  <2>1. PICK at \in Nat : at = U64 + (i - 1) * RowWidth
    <3>1. i - 1 \in Nat
      BY <1>3
    <3>2. (i - 1) * RowWidth \in Nat
      BY <1>8, <3>1
    <3> QED BY <1>8, <3>2
  <2>2. RowPos(bytes, i - 1) = RowsAt(s) + at
    <3>1. RowPos(bytes, i - 1) = RowsAt(s) + U64 + (i - 1) * RowWidth
      BY <1>4 DEF RowPos, RowWidth
    <3>2. (i - 1) * RowWidth \in Int
      BY <1>3, <1>8
    <3> QED BY ONLY <1>7, <1>8, <2>1, <3>1, <3>2
  <2>3. PICK b \in rows : b = o[i] /\ b \in Nat /\ b < Weight[U32]
    BY <1>2, <1>3
  <2>4. Number(bytes, RowsAt(s) + at, U32) = b
    <3>1. Holds(z, at, Le(b, U32))
      BY <1>6, <2>1, <2>3
    <3> QED BY ONLY <1>4, <1>6, <1>7, <1>8, <2>3, <3>1, at \in Nat, PieceRead
  <2>5. ASSUME NEW k \in 1..K
        PROVE  Number(bytes, RowPos(bytes, i - 1) + U32 + (k - 1) * U64, U64) = s.table[b][k]
    <3>1. PICK off \in Nat : off = U32 + (k - 1) * U64
      <4>1. k - 1 \in Nat
        BY <1>8
      <4>2. (k - 1) * U64 \in Nat
        BY <1>8, <4>1
      <4> QED BY <1>8, <4>2
    <3>2. PICK x \in Nat : x = s.table[b][k] /\ x < Weight[U64]
      BY <1>2
    <3>3. Holds(z, at + off, Le(x, U64)) /\ at + off \in Nat
      BY <1>6, <2>1, <2>3, <3>1, <3>2
    <3>4. Number(bytes, RowsAt(s) + (at + off), U64) = x
      BY ONLY <1>4, <1>6, <1>7, <1>8, <3>2, <3>3, PieceRead
    <3>5. RowPos(bytes, i - 1) + U32 + (k - 1) * U64 = RowsAt(s) + (at + off)
      <4>1. (k - 1) * U64 \in Int
        BY <1>8
      <4> QED BY ONLY <1>7, <1>8, <2>2, <3>1, <4>1, at \in Nat
    <3> QED BY <3>2, <3>4, <3>5
  <2> QED BY <2>2, <2>3, <2>4, <2>5
<1>10. ASSUME NEW i \in 0..(n - 1), NEW k \in 0..(K - 1)
       PROVE  Number(bytes, RowPos(bytes, i) + U32 + k * U64, U64) < P
  <2>1. i + 1 \in 1..n /\ k + 1 \in 1..K /\ (i + 1) - 1 = i /\ (k + 1) - 1 = k
    BY <1>3, <1>8
  <2>2. Number(bytes, RowPos(bytes, (i + 1) - 1) + U32 + ((k + 1) - 1) * U64, U64)
            = s.table[o[i + 1]][k + 1]
    BY <1>9, <2>1
  <2>3. s.table[o[i + 1]][k + 1] < P
    BY <1>2, <1>3, <2>1
  <2> QED BY <2>1, <2>2, <2>3
<1>11. PICK e : e = RowEntries(bytes)
  OBVIOUS
<1>12. DOMAIN e = 1..n /\ \A i \in 1..n : e[i].key = o[i] /\ e[i].value = s.table[o[i]]
  <2>1. DOMAIN e = 1..n
    BY <1>4, <1>11 DEF RowEntries
  <2>2. ASSUME NEW i \in 1..n PROVE e[i].key = o[i] /\ e[i].value = s.table[o[i]]
    <3>1. e[i].key = o[i]
      BY <1>4, <1>9, <1>11 DEF RowEntries
    <3>2. e[i].value = [k \in 1..K |->
                Number(bytes, RowPos(bytes, i - 1) + U32 + (k - 1) * U64, U64)]
      BY <1>4, <1>11 DEF RowEntries
    <3>3. e[i].value = [k \in 1..K |-> s.table[o[i]][k]]
      BY <1>9, <3>2
    <3>4. s.table[o[i]] \in [1..K -> Nat]
      BY <1>2, <1>3
    <3> QED BY <3>1, <3>3, <3>4
  <2> QED BY <2>1, <2>2
<1>13. MapOf(e) = s.table
  <2>1. PICK m, R : m = s.table /\ R = [1..K -> Nat] /\ m \in [rows -> R]
    BY <1>2
  <2>2. Enters(e, n, o, rows, m)
    BY <1>3, <1>12, <2>1 DEF Enters
  <2> QED BY ONLY <2>1, <2>2, MapOfIs
<1> QED BY <1>4, <1>10, <1>11, <1>13

LEMMA WholeIndexes ==
    ASSUME NEW s, NEW rows, NEW shares, InBytes(s, rows, shares),
           NEW bytes, bytes = Serialize(s)
    PROVE  {Number(bytes, JPos(bytes) + U64 + i * U32, U32) : i \in 0..(JN(bytes) - 1)} = s.J
<1>1. PICK n, o, D : D = s.J /\ n = Cardinality(D) /\ o = Ascending(D)
  OBVIOUS
<1>2. D \in SUBSET Nat /\ IsFiniteSet(D) /\ \A b \in D : b < Weight[U32]
  <2>1. D \in SUBSET Index
    BY <1>1, HeldIs
  <2> QED BY <2>1, CountsFit
<1>3. /\ n \in Nat /\ o \in [1..n -> D]
      /\ \A x \in D : \E i \in 1..n : o[i] = x
  <2>1. /\ Cardinality(D) \in Nat /\ o \in [1..Cardinality(D) -> D]
        /\ \A x \in D : \E i \in 1..Cardinality(D) : o[i] = x
    BY ONLY <1>1, <1>2, AscendingIs
  <2> QED BY <1>1, <2>1
<1>4. bytes \in Seq(Nat) /\ JN(bytes) = n /\ JPos(bytes) = JAt(s)
  BY <1>1, WholeFields
<1>5. PICK z : z = Sorted(IndexBytes(s))
  OBVIOUS
<1>6. /\ z \in Seq(Nat)
      /\ \A i \in 1..n : Holds(z, U64 + (i - 1) * U32, Le(o[i], U32))
  BY <1>1, <1>2, <1>5, IndexesHeld
<1>7. Holds(bytes, JAt(s), z) /\ JAt(s) \in Nat
  BY <1>5, HeldIs, SerializeIs
<1>8. U32 \in Nat /\ U64 \in Nat
  BY LayoutIs
<1>9. ASSUME NEW i \in 0..(n - 1)
      PROVE  Number(bytes, JPos(bytes) + U64 + i * U32, U32) = o[i + 1]
  <2>1. i \in Nat /\ i + 1 \in 1..n /\ (i + 1) - 1 = i
    BY <1>3
  <2>2. PICK at \in Nat : at = U64 + i * U32
    <3>1. i * U32 \in Nat
      BY <1>8, <2>1
    <3> QED BY <1>8, <3>1
  <2>3. PICK b \in D : b = o[i + 1] /\ b \in Nat /\ b < Weight[U32]
    BY <1>2, <1>3, <2>1
  <2>4. Holds(z, at, Le(b, U32))
    <3>1. Holds(z, U64 + ((i + 1) - 1) * U32, Le(o[i + 1], U32))
      BY <1>6, <2>1
    <3> QED BY <2>1, <2>2, <2>3, <3>1
  <2>5. Number(bytes, JAt(s) + at, U32) = b
    BY ONLY <1>4, <1>6, <1>7, <1>8, <2>3, <2>4, at \in Nat, PieceRead
  <2>6. JPos(bytes) + U64 + i * U32 = JAt(s) + at
    <3>1. i * U32 \in Int
      BY <1>8, <2>1
    <3> QED BY ONLY <1>4, <1>7, <1>8, <2>2, <3>1
  <2> QED BY <2>3, <2>5, <2>6
<1>10. ASSUME NEW x \in D
       PROVE  \E i \in 0..(n - 1) : Number(bytes, JPos(bytes) + U64 + i * U32, U32) = x
  <2>1. PICK i \in 1..n : o[i] = x
    BY <1>3
  <2>2. i - 1 \in 0..(n - 1) /\ (i - 1) + 1 = i
    BY <1>3
  <2> QED BY <1>9, <2>1, <2>2
<1>11. \A i \in 0..(n - 1) : o[i + 1] \in D
  <2>1. \A i \in 0..(n - 1) : i + 1 \in 1..n
    BY <1>3
  <2> QED BY <1>3, <2>1
<1> QED BY <1>1, <1>4, <1>9, <1>10, <1>11

LEMMA WholeShares ==
    ASSUME NEW s, NEW rows, NEW shares, InBytes(s, rows, shares),
           NEW bytes, bytes = Serialize(s)
    PROVE  /\ \A i \in 0..(CacheN(bytes) - 1) :
                  Number(bytes, SharePos(bytes, i) + U32, U64) < P
           /\ MapOf(ShareEntries(bytes)) = s.cache
<1>1. PICK n, o, m : n = Cardinality(shares) /\ o = Ascending(shares) /\ m = s.cache
  OBVIOUS
<1>2. /\ shares \in SUBSET Nat /\ IsFiniteSet(shares) /\ m \in [shares -> Nat]
      /\ \A b \in shares : m[b] \in Nat /\ m[b] < P /\ m[b] < Weight[U64]
      /\ \A b \in shares : b < Weight[U32]
  <2>1. shares \in SUBSET Index
    BY DEF InBytes
  <2> QED BY <1>1, <2>1, HeldIs, CountsFit
<1>3. /\ n \in Nat /\ o \in [1..n -> shares]
      /\ \A i, j \in 1..n : o[i] = o[j] => i = j
      /\ \A x \in shares : \E i \in 1..n : o[i] = x
  <2>1. shares \in SUBSET Nat /\ IsFiniteSet(shares) /\ o = Ascending(shares)
    BY <1>1, <1>2
  <2>2. /\ Cardinality(shares) \in Nat /\ o \in [1..Cardinality(shares) -> shares]
        /\ \A i, j \in 1..Cardinality(shares) : o[i] = o[j] => i = j
        /\ \A x \in shares : \E i \in 1..Cardinality(shares) : o[i] = x
    BY ONLY <2>1, AscendingIs
  <2> QED BY <1>1, <2>2
<1>4. bytes \in Seq(Nat) /\ CacheN(bytes) = n /\ CachePos(bytes) = CacheAt(s)
  BY <1>1, WholeFields
<1>5. PICK z : z = Sorted(ShareBytes(s))
  OBVIOUS
<1>6. /\ z \in Seq(Nat)
      /\ \A i \in 1..n :
            /\ Holds(z, U64 + (i - 1) * ShareWidth, Le(o[i], U32))
            /\ Holds(z, (U64 + (i - 1) * ShareWidth) + U32, Le(m[o[i]], U64))
  BY <1>1, <1>2, <1>5, SharesHeld
<1>7. Holds(bytes, CacheAt(s), z) /\ CacheAt(s) \in Nat
  BY <1>5, HeldIs, SerializeIs
<1>8. ShareWidth \in Nat /\ U32 \in Nat /\ U64 \in Nat
  BY LayoutIs DEF ShareWidth
<1>9. ASSUME NEW i \in 1..n
      PROVE  /\ Number(bytes, SharePos(bytes, i - 1), U32) = o[i]
             /\ Number(bytes, SharePos(bytes, i - 1) + U32, U64) = m[o[i]]
  <2>1. PICK at \in Nat : at = U64 + (i - 1) * ShareWidth
    <3>1. i - 1 \in Nat
      BY <1>3
    <3>2. (i - 1) * ShareWidth \in Nat
      BY <1>8, <3>1
    <3> QED BY <1>8, <3>2
  <2>2. SharePos(bytes, i - 1) = CacheAt(s) + at
    <3>1. SharePos(bytes, i - 1) = CacheAt(s) + U64 + (i - 1) * ShareWidth
      BY <1>4 DEF SharePos, ShareWidth
    <3>2. (i - 1) * ShareWidth \in Int
      BY <1>3, <1>8
    <3> QED BY ONLY <1>7, <1>8, <2>1, <3>1, <3>2
  <2>3. PICK b \in shares, x \in Nat : /\ b = o[i] /\ b \in Nat /\ b < Weight[U32]
                                       /\ x = m[b] /\ x < Weight[U64]
    BY <1>2, <1>3
  <2>4. Holds(z, at, Le(b, U32)) /\ Holds(z, at + U32, Le(x, U64)) /\ at + U32 \in Nat
    BY <1>6, <1>8, <2>1, <2>3
  <2>5. Number(bytes, CacheAt(s) + at, U32) = b
    BY ONLY <1>4, <1>6, <1>7, <1>8, <2>3, <2>4, at \in Nat, PieceRead
  <2>6. Number(bytes, CacheAt(s) + (at + U32), U64) = x
    BY ONLY <1>4, <1>6, <1>7, <1>8, <2>3, <2>4, PieceRead
  <2>7. CacheAt(s) + (at + U32) = (CacheAt(s) + at) + U32
    BY <1>7, <1>8
  <2> QED BY <2>2, <2>3, <2>5, <2>6, <2>7
<1>10. ASSUME NEW i \in 0..(n - 1)
       PROVE  Number(bytes, SharePos(bytes, i) + U32, U64) < P
  <2>1. i + 1 \in 1..n /\ (i + 1) - 1 = i
    BY <1>3
  <2>2. Number(bytes, SharePos(bytes, (i + 1) - 1) + U32, U64) = m[o[i + 1]]
    BY <1>9, <2>1
  <2>3. m[o[i + 1]] < P
    BY <1>2, <1>3, <2>1
  <2> QED BY <2>1, <2>2, <2>3
<1>11. PICK e : e = ShareEntries(bytes)
  OBVIOUS
<1>12. DOMAIN e = 1..n /\ \A i \in 1..n : e[i].key = o[i] /\ e[i].value = m[o[i]]
  BY <1>4, <1>9, <1>11 DEF ShareEntries
<1>13. MapOf(e) = m
  <2>1. Enters(e, n, o, shares, m)
    BY <1>3, <1>12 DEF Enters
  <2> QED BY ONLY <1>2, <2>1, MapOfIs
<1> QED BY <1>1, <1>4, <1>10, <1>11, <1>13

\* load() gives back the state a whole file was made of.
LEMMA WholeLoads ==
    ASSUME NEW s, NEW rows, NEW shares, InBytes(s, rows, shares)
    PROVE  Load(Serialize(s)) = {s}
<1>1. PICK bytes : bytes = Serialize(s)
  OBVIOUS
<1>2. /\ bytes \in Seq(Nat) /\ Len(bytes) = TailAt(s) + Trailer
      /\ IdsN(bytes) = Len(s.my_ids) /\ RowsPos(bytes) = RowsAt(s)
      /\ TailPos(bytes) = TailAt(s)
  BY <1>1, WholeFields
<1>3. /\ Holds(bytes, 0, U64Vec(s.my_ids)) /\ TailAt(s) \in Nat
      /\ Holds(bytes, TailAt(s), Le(s.t_share, U64))
      /\ Holds(bytes, TailAt(s) + U64, Le(s.my_size, U64))
      /\ Holds(bytes, TailAt(s) + 2 * U64, Le(s.query_no, U64))
      /\ Holds(bytes, TailAt(s) + 3 * U64, Le(s.oracle_salt, SaltBytes))
  BY <1>1, HeldIs, SerializeIs
<1>4. U64 \in Nat /\ U64 > 0 /\ SaltBytes \in Nat /\ Trailer \in Nat
  BY LayoutIs DEF Trailer
<1>5. /\ s.my_ids \in Seq(Nat) /\ Len(s.my_ids) \in Nat
      /\ \A i \in 1..Len(s.my_ids) : s.my_ids[i] \in Nat /\ s.my_ids[i] < Weight[U64]
      /\ s.t_share \in Nat /\ s.t_share < P /\ s.t_share < Weight[U64]
      /\ s.my_size \in Nat /\ s.my_size < Weight[U64]
      /\ s.query_no \in Nat /\ s.query_no < Weight[U64]
      /\ s.oracle_salt \in Nat /\ s.oracle_salt < Weight[SaltBytes]
  BY HeldIs
<1>6. /\ Number(bytes, TailPos(bytes), U64) = s.t_share
      /\ Number(bytes, TailPos(bytes) + U64, U64) = s.my_size
      /\ Number(bytes, TailPos(bytes) + 2 * U64, U64) = s.query_no
      /\ Number(bytes, TailPos(bytes) + 3 * U64, SaltBytes) = s.oracle_salt
  <2>1. /\ TailAt(s) + U64 \in Nat /\ TailAt(s) + 2 * U64 \in Nat /\ TailAt(s) + 3 * U64 \in Nat
    BY <1>3, <1>4
  <2> QED BY ONLY <1>2, <1>3, <1>4, <1>5, <2>1, ReadBack
<1>7. [i \in 1..IdsN(bytes) |-> Number(bytes, i * U64, U64)] = s.my_ids
  <2>1. U64Vec(s.my_ids) \in Seq(Nat)
        /\ \A i \in 1..Len(s.my_ids) : Holds(U64Vec(s.my_ids), i * U64, Le(s.my_ids[i], U64))
    BY <1>5, U64VecIs
  <2>2. ASSUME NEW i \in 1..Len(s.my_ids) PROVE Number(bytes, i * U64, U64) = s.my_ids[i]
    <3>1. PICK off \in Nat, x \in Nat : off = i * U64 /\ x = s.my_ids[i] /\ x < Weight[U64]
      <4>1. i \in Nat
        BY <1>5
      <4>2. i * U64 \in Nat
        BY <1>4, <4>1
      <4> QED BY <1>5, <4>2
    <3>2. Holds(U64Vec(s.my_ids), off, Le(x, U64)) /\ 0 \in Nat /\ 0 + off = off
      BY <2>1, <3>1
    <3>3. Number(bytes, 0 + off, U64) = x
      BY ONLY <1>2, <1>3, <1>4, <2>1, <3>1, <3>2, PieceRead
    <3> QED BY <3>1, <3>2, <3>3
  <2>3. s.my_ids = [i \in 1..Len(s.my_ids) |-> s.my_ids[i]]
    BY <1>5
  <2> QED BY <1>2, <2>2, <2>3
<1>8. Fits(IdsN(bytes), RowsPos(bytes))
  <2>1. PICK l \in Nat, u \in Nat \ {0} : l = Len(s.my_ids) /\ u = U64
    BY <1>4, <1>5
  <2>2. IdsN(bytes) = l /\ RowsPos(bytes) = u + u * l
    BY <1>2, <2>1 DEF RowsAt
  <2>3. (u + u * l) - u = u * l + 0 /\ 0 \in 0..(u - 1) /\ l \in Int /\ u <= u + u * l
    <3>1. u * l \in Nat
      OBVIOUS
    <3> QED BY <3>1
  <2>4. (u * l + 0) \div u = l
    BY <2>3, DivMod, Zenon
  <2>5. U64 <= RowsPos(bytes) /\ (RowsPos(bytes) - U64) \div U64 = l
    BY <2>1, <2>2, <2>3, <2>4
  <2> QED BY <2>2, <2>5 DEF Fits
<1>9. Sound(bytes)
  <2>1. TailPos(bytes) + Trailer <= Len(bytes)
    BY <1>2, <1>3, <1>4
  <2> QED BY <1>1, <1>5, <1>6, <1>8, <2>1, WholeRows, WholeShares DEF Sound
<1>10. Loaded(bytes) = s
  <2>1. s = [my_ids |-> s.my_ids, table |-> s.table, J |-> s.J, cache |-> s.cache,
             t_share |-> s.t_share, my_size |-> s.my_size, query_no |-> s.query_no,
             oracle_salt |-> s.oracle_salt]
    BY DEF InBytes, Held
  <2>2. /\ MapOf(RowEntries(bytes)) = s.table /\ MapOf(ShareEntries(bytes)) = s.cache
        /\ {Number(bytes, JPos(bytes) + U64 + i * U32, U32) : i \in 0..(JN(bytes) - 1)} = s.J
    BY <1>1, WholeRows, WholeIndexes, WholeShares
  <2> QED BY ONLY <1>6, <1>7, <2>1, <2>2 DEF Loaded
<1> QED BY <1>1, <1>9, <1>10, LoadIs

-------------------------------------------------------------------------------
(* Whatever load() accepts is no more than the file holds.                   *)

LEMMA Greatest ==
    ASSUME NEW n \in Nat, NEW S \in SUBSET (1..n), S # {}
    PROVE  Max(S) \in S
<1>1. PICK T \in SUBSET Nat : T = {n - i : i \in S}
  <2>1. \A i \in S : n - i \in Nat
    OBVIOUS
  <2> QED BY <2>1
<1>2. T # {}
  BY <1>1
<1>3. PICK x \in T : \A y \in T : x <= y
  BY <1>2, Least
<1>4. PICK i \in S : x = n - i
  BY <1>1, <1>3
<1>5. ASSUME NEW j \in S PROVE i >= j
  <2>1. n - j \in T /\ i \in Nat /\ j \in Nat
    BY <1>1
  <2>2. n - i <= n - j
    BY <1>3, <1>4, <2>1
  <2> QED BY <2>1, <2>2
<1> QED BY <1>5 DEF Max

LEMMA ImageIs ==
    ASSUME NEW n \in Nat, NEW f \in [1..n -> Nat], NEW D, D = {f[i] : i \in 1..n}
    PROVE  /\ D \in SUBSET Nat /\ IsFiniteSet(D)
           /\ Cardinality(D) \in Nat /\ Cardinality(D) <= n
<1>1. f \in Surjection(1..n, D)
  BY DEF Surjection
<1>2. IsFiniteSet(1..n) /\ Cardinality(1..n) = n
  <2>1. 1 \in Int /\ n \in Int
    OBVIOUS
  <2>2. IsFiniteSet(1..n) /\ Cardinality(1..n) = IF 1 > n THEN 0 ELSE n - 1 + 1
    BY <2>1, FS_Interval
  <2> QED BY <2>2
<1>3. IsFiniteSet(D) /\ Cardinality(D) <= n
  BY <1>1, <1>2, FS_Surjection
<1>4. Cardinality(D) \in Nat
  BY <1>3, FS_CardinalityType
<1> QED BY <1>3, <1>4

\* n entries, each a bucket and something of R.
Lists(e, n, R) ==
    /\ n \in Nat /\ DOMAIN e = 1..n
    /\ \A i \in 1..n : e[i].key \in Nat /\ e[i].value \in R

\* A map has no more keys than it had entries.
LEMMA MapOfTyped ==
    ASSUME NEW n, NEW R, NEW e, Lists(e, n, R), NEW m, m = MapOf(e), NEW D, D = DOMAIN m
    PROVE  /\ D \in SUBSET Nat /\ IsFiniteSet(D) /\ m \in [D -> R]
           /\ Cardinality(D) \in Nat /\ Cardinality(D) <= n
<1> USE DEF Lists
<1>1. PICK f : f = [i \in 1..n |-> e[i].key]
  OBVIOUS
<1>2. D = {f[i] : i \in 1..n} /\ f \in [1..n -> Nat]
  <2>1. D = {x.key : x \in {e[i] : i \in 1..n}}
    BY DEF MapOf, ToSet
  <2> QED BY <1>1, <2>1
<1>3. m = [b \in D |-> e[Max({i \in 1..n : e[i].key = b})].value]
  BY <1>2 DEF MapOf, ToSet
<1>4. ASSUME NEW b \in D PROVE e[Max({i \in 1..n : e[i].key = b})].value \in R
  <2>1. PICK S \in SUBSET (1..n) : S = {i \in 1..n : e[i].key = b}
    OBVIOUS
  <2>2. S # {}
    BY <1>1, <1>2, <2>1
  <2>3. Max(S) \in 1..n
    BY <2>2, Greatest
  <2> QED BY <2>1, <2>3
<1>5. m \in [D -> R]
  BY <1>3, <1>4
<1>6. /\ D \in SUBSET Nat /\ IsFiniteSet(D)
      /\ Cardinality(D) \in Nat /\ Cardinality(D) <= n
  <2>1. n \in Nat
    OBVIOUS
  <2> QED BY ONLY <1>2, <2>1, ImageIs
<1> QED BY <1>5, <1>6

\* The rows, marked buckets and shares loaded are no more than were counted.
LEMMA LoadedIs ==
    ASSUME NEW bytes \in Seq(Nat), NEW r, r = Loaded(bytes),
           NEW rows, rows = DOMAIN r.table, NEW shares, shares = DOMAIN r.cache
    PROVE  /\ rows \in SUBSET Nat /\ shares \in SUBSET Nat /\ r \in Loose(rows, shares)
           /\ IsFiniteSet(rows) /\ IsFiniteSet(shares) /\ IsFiniteSet(r.J)
           /\ Cardinality(rows) \in Nat /\ Cardinality(rows) <= RowsN(bytes)
           /\ Cardinality(r.J) \in Nat /\ Cardinality(r.J) <= JN(bytes)
           /\ Cardinality(shares) \in Nat /\ Cardinality(shares) <= CacheN(bytes)
           /\ r.my_ids \in Seq(Nat) /\ Len(r.my_ids) = IdsN(bytes)
<1>1. /\ IdsN(bytes) \in Nat /\ RowsN(bytes) \in Nat /\ JN(bytes) \in Nat /\ CacheN(bytes) \in Nat
      /\ JPos(bytes) \in Nat /\ TailPos(bytes) \in Nat
      /\ \A i \in Nat : RowPos(bytes, i) \in Nat /\ SharePos(bytes, i) \in Nat
  BY Positions
<1>2. U64 \in Nat /\ U32 \in Nat /\ SaltBytes \in Nat /\ K \in Nat
  BY LayoutIs
<1>3. PICK et, ec : et = RowEntries(bytes) /\ ec = ShareEntries(bytes)
  OBVIOUS
<1>4. /\ r.my_ids = [i \in 1..IdsN(bytes) |-> Number(bytes, i * U64, U64)]
      /\ r.table = MapOf(et) /\ r.cache = MapOf(ec)
      /\ r.J = {Number(bytes, JPos(bytes) + U64 + i * U32, U32) : i \in 0..(JN(bytes) - 1)}
      /\ r.t_share = Number(bytes, TailPos(bytes), U64)
      /\ r.my_size = Number(bytes, TailPos(bytes) + U64, U64)
      /\ r.query_no = Number(bytes, TailPos(bytes) + 2 * U64, U64)
      /\ r.oracle_salt = Number(bytes, TailPos(bytes) + 3 * U64, SaltBytes)
  BY <1>3 DEF Loaded
<1>5. /\ r.t_share \in Nat /\ r.my_size \in Nat /\ r.query_no \in Nat /\ r.oracle_salt \in Nat
  <2>1. /\ TailPos(bytes) \in Int /\ TailPos(bytes) + U64 \in Int
        /\ TailPos(bytes) + 2 * U64 \in Int /\ TailPos(bytes) + 3 * U64 \in Int
    <3>1. PICK t \in Nat : t = TailPos(bytes)
      BY <1>1
    <3>2. t \in Int /\ t + U64 \in Int /\ t + 2 * U64 \in Int /\ t + 3 * U64 \in Int
      BY <1>2
    <3> QED BY <3>1, <3>2
  <2> QED BY ONLY <1>2, <1>4, <2>1, NumberTyped, bytes \in Seq(Nat)
<1>6. r.my_ids \in Seq(Nat) /\ Len(r.my_ids) = IdsN(bytes)
  <2>1. \A i \in 1..IdsN(bytes) : Number(bytes, i * U64, U64) \in Nat
    <3>1. \A i \in 1..IdsN(bytes) : i * U64 \in Int
      BY <1>1, <1>2
    <3> QED BY <1>2, <3>1, NumberTyped
  <2>2. PICK n, q : n \in Nat /\ n = IdsN(bytes) /\ q = [i \in 1..n |-> Number(bytes, i * U64, U64)]
    BY <1>1
  <2>3. \A i \in 1..n : q[i] \in Nat
    BY <2>1, <2>2
  <2>4. q = [i \in 1..n |-> q[i]]
    BY <2>2
  <2>5. q \in Seq(Nat) /\ Len(q) = n
    <3>1. n \in Nat
      BY <2>2
    <3>2. [i \in 1..n |-> q[i]] \in Seq(Nat) /\ Len([i \in 1..n |-> q[i]]) = n
      BY ONLY <2>3, <3>1
    <3> QED BY <2>4, <3>2
  <2> QED BY <1>4, <2>2, <2>5
<1>7. /\ r.J \in SUBSET Nat /\ IsFiniteSet(r.J)
      /\ Cardinality(r.J) \in Nat /\ Cardinality(r.J) <= JN(bytes)
  <2>1. PICK n \in Nat : n = JN(bytes)
    BY <1>1
  <2>2. PICK f : f = [i \in 1..n |-> Number(bytes, JPos(bytes) + U64 + (i - 1) * U32, U32)]
    OBVIOUS
  <2>3. f \in [1..n -> Nat]
    <3>1. ASSUME NEW i \in 1..n
          PROVE  Number(bytes, JPos(bytes) + U64 + (i - 1) * U32, U32) \in Nat
      <4>1. PICK t \in Int : t = (i - 1) * U32
        BY <1>2
      <4>2. JPos(bytes) + U64 + t \in Int
        BY <1>1, <1>2
      <4> QED BY <1>2, <4>1, <4>2, NumberTyped
    <3> QED BY <2>2, <3>1
  <2>4. r.J = {f[i] : i \in 1..n}
    <3>1. \A i \in 0..(n - 1) : i + 1 \in 1..n /\ (i + 1) - 1 = i
      OBVIOUS
    <3>2. \A i \in 1..n : i - 1 \in 0..(n - 1)
      OBVIOUS
    <3> QED BY <1>4, <2>1, <2>2, <3>1, <3>2
  <2>5. /\ r.J \in SUBSET Nat /\ IsFiniteSet(r.J)
        /\ Cardinality(r.J) \in Nat /\ Cardinality(r.J) <= n
    BY ONLY <2>3, <2>4, ImageIs, n \in Nat
  <2> QED BY <2>1, <2>5
<1>8. /\ rows \in SUBSET Nat /\ IsFiniteSet(rows) /\ r.table \in [rows -> [1..K -> Nat]]
      /\ Cardinality(rows) \in Nat /\ Cardinality(rows) <= RowsN(bytes)
  <2>1. PICK n, R : n \in Nat /\ n = RowsN(bytes) /\ R = [1..K -> Nat]
    BY <1>1
  <2>2. ASSUME NEW i \in 1..n PROVE et[i].key \in Nat /\ et[i].value \in R
    <3>1. i - 1 \in Nat
      OBVIOUS
    <3>2. PICK p \in Nat : p = RowPos(bytes, i - 1)
      BY <1>1, <3>1
    <3>3. Number(bytes, p, U32) \in Nat
      BY <1>2, NumberTyped
    <3>4. ASSUME NEW k \in 1..K PROVE Number(bytes, p + U32 + (k - 1) * U64, U64) \in Nat
      <4>1. PICK t \in Int : t = (k - 1) * U64
        BY <1>2
      <4>2. p + U32 + t \in Int
        BY <1>2
      <4> QED BY <1>2, <4>1, <4>2, NumberTyped
    <3>5. /\ et[i].key = Number(bytes, p, U32)
          /\ et[i].value = [k \in 1..K |-> Number(bytes, p + U32 + (k - 1) * U64, U64)]
      BY <1>3, <2>1, <3>2 DEF RowEntries
    <3> QED BY <2>1, <3>3, <3>4, <3>5
  <2>3. DOMAIN et = 1..n
    BY <1>3, <2>1 DEF RowEntries
  <2>4. Lists(et, n, R)
    BY <2>1, <2>2, <2>3 DEF Lists
  <2>5. PICK m, D : m = MapOf(et) /\ D = DOMAIN m
    OBVIOUS
  <2>6. /\ D \in SUBSET Nat /\ IsFiniteSet(D) /\ m \in [D -> R]
        /\ Cardinality(D) \in Nat /\ Cardinality(D) <= n
    BY ONLY <2>4, <2>5, MapOfTyped
  <2>7. m = r.table /\ D = rows
    BY <1>4, <2>5
  <2> QED BY <2>1, <2>6, <2>7
<1>9. /\ shares \in SUBSET Nat /\ IsFiniteSet(shares) /\ r.cache \in [shares -> Nat]
      /\ Cardinality(shares) \in Nat /\ Cardinality(shares) <= CacheN(bytes)
  <2>1. PICK n \in Nat : n = CacheN(bytes)
    BY <1>1
  <2>2. ASSUME NEW i \in 1..n PROVE ec[i].key \in Nat /\ ec[i].value \in Nat
    <3>1. i - 1 \in Nat
      OBVIOUS
    <3>2. PICK p \in Nat : p = SharePos(bytes, i - 1)
      BY <1>1, <3>1
    <3>3. Number(bytes, p, U32) \in Nat /\ Number(bytes, p + U32, U64) \in Nat
      <4>1. p \in Int /\ p + U32 \in Int
        BY <1>2
      <4> QED BY <1>2, <4>1, NumberTyped
    <3>4. ec[i].key = Number(bytes, p, U32) /\ ec[i].value = Number(bytes, p + U32, U64)
      BY <1>3, <2>1, <3>2 DEF ShareEntries
    <3> QED BY <3>3, <3>4
  <2>3. DOMAIN ec = 1..n
    BY <1>3, <2>1 DEF ShareEntries
  <2>4. Lists(ec, n, Nat)
    BY <2>2, <2>3 DEF Lists
  <2>5. PICK m, D : m = MapOf(ec) /\ D = DOMAIN m
    OBVIOUS
  <2>6. /\ D \in SUBSET Nat /\ IsFiniteSet(D) /\ m \in [D -> Nat]
        /\ Cardinality(D) \in Nat /\ Cardinality(D) <= n
    BY ONLY <2>4, <2>5, MapOfTyped
  <2>7. m = r.cache /\ D = shares
    BY <1>4, <2>5
  <2> QED BY <2>1, <2>6, <2>7
<1>10. r \in Loose(rows, shares)
  <2>1. r = [my_ids |-> r.my_ids, table |-> r.table, J |-> r.J, cache |-> r.cache,
             t_share |-> r.t_share, my_size |-> r.my_size, query_no |-> r.query_no,
             oracle_salt |-> r.oracle_salt]
    BY DEF Loaded
  <2> QED BY ONLY <1>5, <1>6, <1>7, <1>8, <1>9, <2>1 DEF Loose
<1> QED BY <1>6, <1>7, <1>8, <1>9, <1>10

\* Fewer, in less room.
LEMMA TimesMonotone ==
    ASSUME NEW a \in Nat, NEW b \in Nat, NEW w \in Nat, a <= b
    PROVE  a * w \in Nat /\ b * w \in Nat /\ a * w <= b * w
<1>1. PICK d \in Nat : b = a + d
  <2>1. b - a \in Nat /\ b = a + (b - a)
    OBVIOUS
  <2> QED BY <2>1
<1>2. b * w = a * w + d * w /\ a * w \in Nat /\ d * w \in Nat
  BY <1>1
<1> QED BY <1>2

LEMMA EndsNoLater ==
    ASSUME NEW a \in Nat, NEW b \in Nat, NEW x \in Nat, NEW y \in Nat, a <= b, x <= y
    PROVE  a + U64 + x \in Nat /\ a + U64 + x <= b + U64 + y
BY LayoutIs

\* load() takes no more than is there.
LEMMA LoadsWhatIsThere ==
    ASSUME NEW bytes \in Seq(Nat), NEW r \in Load(bytes)
    PROVE  Len(Serialize(r)) <= Len(bytes)
<1>1. Sound(bytes) /\ r = Loaded(bytes)
  BY LoadIs
<1>2. PICK rows, shares : rows = DOMAIN r.table /\ shares = DOMAIN r.cache
  OBVIOUS
<1>3. /\ rows \in SUBSET Nat /\ shares \in SUBSET Nat /\ r \in Loose(rows, shares)
      /\ IsFiniteSet(rows) /\ IsFiniteSet(shares) /\ IsFiniteSet(r.J)
      /\ Cardinality(rows) \in Nat /\ Cardinality(rows) <= RowsN(bytes)
      /\ Cardinality(r.J) \in Nat /\ Cardinality(r.J) <= JN(bytes)
      /\ Cardinality(shares) \in Nat /\ Cardinality(shares) <= CacheN(bytes)
      /\ r.my_ids \in Seq(Nat) /\ Len(r.my_ids) = IdsN(bytes)
  BY <1>1, <1>2, LoadedIs
<1>4. Len(Serialize(r)) = TailAt(r) + Trailer
  BY <1>3, SerializeIs
<1>5. /\ IdsN(bytes) \in Nat /\ RowsN(bytes) \in Nat /\ JN(bytes) \in Nat /\ CacheN(bytes) \in Nat
      /\ RowsPos(bytes) \in Nat /\ JPos(bytes) \in Nat /\ CachePos(bytes) \in Nat
      /\ TailPos(bytes) \in Nat
      /\ JPos(bytes) = RowsPos(bytes) + U64 + RowsN(bytes) * RowWidth
      /\ CachePos(bytes) = JPos(bytes) + U64 + JN(bytes) * U32
      /\ TailPos(bytes) = CachePos(bytes) + U64 + CacheN(bytes) * ShareWidth
  BY Positions
<1>6. U64 \in Nat /\ U64 > 0 /\ U32 \in Nat /\ RowWidth \in Nat /\ ShareWidth \in Nat /\ Trailer \in Nat
  BY LayoutIs DEF RowWidth, ShareWidth, Trailer
<1>7. RowsAt(r) \in Nat /\ RowsAt(r) <= RowsPos(bytes)
  <2>1. PICK l \in Nat, u \in Nat \ {0}, p \in Nat :
          l = IdsN(bytes) /\ u = U64 /\ p = RowsPos(bytes)
    <3>1. IdsN(bytes) \in Nat /\ U64 \in Nat \ {0} /\ RowsPos(bytes) \in Nat
      BY <1>5, <1>6
    <3> QED BY ONLY <3>1
  <2>2. u <= p /\ l <= (p - u) \div u
    BY <1>1, <2>1 DEF Sound, Fits
  <2>3. PICK q \in Nat, t \in Nat : q = (p - u) \div u /\ p - u = u * q + t
    <3>1. PICK x \in Nat : x = p - u /\ x \in Int
      BY <2>2
    <3>2. /\ x \div u \in Int /\ x % u \in 0..(u - 1)
          /\ x = u * (x \div u) + (x % u)
          /\ x \in Nat => x \div u \in Nat
      BY <3>1, DivModIs, Zenon
    <3>3. x \div u \in Nat /\ x % u \in Nat
      BY <3>2
    <3> QED BY ONLY <3>1, <3>2, <3>3
  <2>4. l * u <= q * u /\ l * u \in Nat /\ q * u \in Nat
    BY <2>2, <2>3, TimesMonotone
  <2>5. RowsAt(r) = u + u * l
    BY <1>3, <2>1 DEF RowsAt
  <2>6. u * l = l * u /\ u * q = q * u
    OBVIOUS
  <2>7. PICK a \in Nat, b \in Nat : a = u * l /\ b = u * q /\ a <= b
    BY <2>4, <2>6
  <2>8. RowsAt(r) = u + a /\ RowsPos(bytes) = u + b + t
    <3>1. p = u + b + t
      BY <2>3, <2>7
    <3> QED BY <2>1, <2>5, <2>7, <3>1
  <2>9. u + a \in Nat /\ u + a <= u + b + t
    BY <2>7
  <2> QED BY <2>8, <2>9
<1>8. /\ Cardinality(rows) * RowWidth \in Nat /\ RowsN(bytes) * RowWidth \in Nat
      /\ Cardinality(rows) * RowWidth <= RowsN(bytes) * RowWidth
      /\ Cardinality(r.J) * U32 \in Nat /\ JN(bytes) * U32 \in Nat
      /\ Cardinality(r.J) * U32 <= JN(bytes) * U32
      /\ Cardinality(shares) * ShareWidth \in Nat /\ CacheN(bytes) * ShareWidth \in Nat
      /\ Cardinality(shares) * ShareWidth <= CacheN(bytes) * ShareWidth
  BY ONLY <1>3, <1>5, <1>6, TimesMonotone
<1>9. JAt(r) \in Nat /\ JAt(r) <= JPos(bytes)
  <2>1. JAt(r) = RowsAt(r) + U64 + Cardinality(rows) * RowWidth
    BY <1>2 DEF JAt
  <2>2. PICK a \in Nat, b \in Nat, x \in Nat, y \in Nat :
          /\ a = RowsAt(r) /\ b = RowsPos(bytes) /\ a <= b
          /\ x = Cardinality(rows) * RowWidth /\ y = RowsN(bytes) * RowWidth /\ x <= y
    BY ONLY <1>5, <1>7, <1>8
  <2>3. a + U64 + x \in Nat /\ a + U64 + x <= b + U64 + y
    BY <2>2, EndsNoLater
  <2>4. JAt(r) = a + U64 + x
    BY <2>1, <2>2
  <2>5. JPos(bytes) = b + U64 + y
    BY <1>5, <2>2
  <2> QED BY <2>3, <2>4, <2>5
<1>10. CacheAt(r) \in Nat /\ CacheAt(r) <= CachePos(bytes)
  <2>1. CacheAt(r) = JAt(r) + U64 + Cardinality(r.J) * U32
    BY DEF CacheAt
  <2>2. PICK a \in Nat, b \in Nat, x \in Nat, y \in Nat :
          /\ a = JAt(r) /\ b = JPos(bytes) /\ a <= b
          /\ x = Cardinality(r.J) * U32 /\ y = JN(bytes) * U32 /\ x <= y
    BY ONLY <1>5, <1>9, <1>8
  <2>3. a + U64 + x \in Nat /\ a + U64 + x <= b + U64 + y
    BY <2>2, EndsNoLater
  <2>4. CacheAt(r) = a + U64 + x
    BY <2>1, <2>2
  <2>5. CachePos(bytes) = b + U64 + y
    BY <1>5, <2>2
  <2> QED BY <2>3, <2>4, <2>5
<1>11. TailAt(r) \in Nat /\ TailAt(r) <= TailPos(bytes)
  <2>1. TailAt(r) = CacheAt(r) + U64 + Cardinality(shares) * ShareWidth
    BY <1>2 DEF TailAt
  <2>2. PICK a \in Nat, b \in Nat, x \in Nat, y \in Nat :
          /\ a = CacheAt(r) /\ b = CachePos(bytes) /\ a <= b
          /\ x = Cardinality(shares) * ShareWidth /\ y = CacheN(bytes) * ShareWidth /\ x <= y
    BY ONLY <1>5, <1>10, <1>8
  <2>3. a + U64 + x \in Nat /\ a + U64 + x <= b + U64 + y
    BY <2>2, EndsNoLater
  <2>4. TailAt(r) = a + U64 + x
    BY <2>1, <2>2
  <2>5. TailPos(bytes) = b + U64 + y
    BY <1>5, <2>2
  <2> QED BY <2>3, <2>4, <2>5
<1>12. TailPos(bytes) + Trailer <= Len(bytes)
  BY <1>1 DEF Sound
<1>13. Len(bytes) \in Nat /\ TailPos(bytes) \in Nat /\ Trailer \in Nat
  BY <1>5, <1>6
<1> QED BY ONLY <1>4, <1>11, <1>12, <1>13

-------------------------------------------------------------------------------
(* The two properties of the bytes.                                          *)

\* A file that is there is a state of the party and some of its bytes.
LEMMA FileIs ==
    ASSUME HeldInBytes, TypeOK, NEW f \in {tmp, path, dir}, Exists(f)
    PROVE  /\ f.state \in State /\ f.blocks \in 0..Size[f.state]
           /\ Size[f.state] = Len(Serialize(f.state)) /\ Size[f.state] \in Nat
           /\ \E rows, shares : InBytes(f.state, rows, shares)
<1>1. f \in File
  BY DEF TypeOK, Exists
<1>2. /\ f.state \in State /\ Size[f.state] \in Nat /\ f.blocks \in 0..Size[f.state]
  BY <1>1, StateFileAssumption DEF File
<1>3. /\ \E rows, shares \in SUBSET Index : f.state \in Held(rows, shares)
      /\ U64 + U64 * Len(f.state.my_ids) \in Word
      /\ Size[f.state] = Len(Serialize(f.state))
  BY <1>2 DEF HeldInBytes
<1>4. \E rows, shares : InBytes(f.state, rows, shares)
  BY <1>3 DEF InBytes
<1> QED BY <1>2, <1>3, <1>4

LEMMA WholeOrNothing == HeldInBytes /\ TypeOK => OnlyWholeFilesLoad
<1> SUFFICES ASSUME HeldInBytes, TypeOK, NEW f \in {tmp, path, dir}, Exists(f)
             PROVE  Loads[f.state][f.blocks] = IF Whole(f) THEN {f.state} ELSE {}
  BY DEF OnlyWholeFilesLoad
<1>1. PICK s, n, z, rows, shares :
        /\ s = f.state /\ n = f.blocks /\ z = Size[s] /\ s \in State /\ n \in 0..z
        /\ z = Len(Serialize(s)) /\ z \in Nat /\ InBytes(s, rows, shares)
  BY FileIs
<1>2. Loads[s][n] = Load(SubSeq(Serialize(s), 1, n))
  BY <1>1 DEF Loads
<1>3. CASE n = z
  <2>1. Serialize(s) \in Seq(Nat)
    BY <1>1, WholeFields
  <2>2. SubSeq(Serialize(s), 1, n) = Serialize(s)
    BY <1>1, <1>3, <2>1
  <2>3. Load(Serialize(s)) = {s}
    BY <1>1, WholeLoads
  <2> QED BY <1>1, <1>2, <1>3, <2>2, <2>3 DEF Whole
<1>4. CASE n # z
  <2>1. n \in 0..(Len(Serialize(s)) - 1)
    BY <1>1, <1>4
  <2>2. Load(SubSeq(Serialize(s), 1, n)) = {}
    BY <1>1, <2>1, RefusesCut
  <2> QED BY <1>1, <1>2, <1>4, <2>2 DEF Whole
<1> QED BY <1>3, <1>4

LEMMA WithinTheFile == HeldInBytes /\ TypeOK => NothingFromBeyond
<1> SUFFICES ASSUME HeldInBytes, TypeOK, Exists(path), NEW n \in Word,
                    NEW r \in LoadsWithLength[path.state][n]
             PROVE  Len(Serialize(r)) <= Size[path.state]
  BY DEF NothingFromBeyond
<1>1. PICK s, z, rows, shares :
        /\ s = path.state /\ z = Size[s] /\ s \in State
        /\ z = Len(Serialize(s)) /\ z \in Nat /\ InBytes(s, rows, shares)
  BY FileIs
<1>2. PICK a, b : a = Le(n, U64) /\ b = SubSeq(Serialize(s), U64 + 1, z)
  OBVIOUS
<1>3. r \in Load(a \o b)
  BY <1>1, <1>2 DEF LoadsWithLength
<1>4. a \in Seq(Nat) /\ Len(a) = U64 /\ U64 \in Nat
  <2>1. n \in Nat
    BY WeightIs, LayoutIs DEF Word
  <2> QED BY <1>2, <2>1, LeIs, LayoutIs
<1>5. Serialize(s) \in Seq(Nat) /\ z >= U64
  <2>1. Serialize(s) \in Seq(Nat) /\ z = TailAt(s) + Trailer
    BY <1>1, WholeFields
  <2>2. TailAt(s) \in Nat
    BY <1>1, HeldIs, SerializeIs
  <2>3. Trailer = 3 * U64 + SaltBytes /\ SaltBytes \in Nat
    BY LayoutIs DEF Trailer
  <2> QED BY <1>4, <2>1, <2>2, <2>3
<1>6. b \in Seq(Nat) /\ Len(b) = z - U64
  BY <1>1, <1>2, <1>4, <1>5
<1>7. a \o b \in Seq(Nat) /\ Len(a \o b) = z
  BY <1>1, <1>4, <1>6
<1> QED BY <1>1, <1>3, <1>7, LoadsWhatIsThere

\* load() tells a whole file from one cut short at any byte, files of the older
\* formats without query_no or oracle_salt among them, and gives back the very
\* state a whole one was made of (state.cpp:153-238, 222-235).
THEOREM OnlyWholeFilesLoadHolds == HeldInBytes => (Spec => []OnlyWholeFilesLoad)
<1> SUFFICES ASSUME HeldInBytes PROVE Spec => []OnlyWholeFilesLoad
  OBVIOUS
<1>1. FilesInv => OnlyWholeFilesLoad
  BY WholeOrNothing DEF FilesInv
<1> QED BY <1>1, FilesInit, FilesNext, PTL DEF Spec

\* Whatever number stands in front of a file, load() refuses it or finds all it
\* takes within the file (serdes.cpp:49-55).
THEOREM NothingFromBeyondHolds == HeldInBytes => (Spec => []NothingFromBeyond)
<1> SUFFICES ASSUME HeldInBytes PROVE Spec => []NothingFromBeyond
  OBVIOUS
<1>1. FilesInv => NothingFromBeyond
  BY WithinTheFile DEF FilesInv
<1> QED BY <1>1, FilesInit, FilesNext, PTL DEF Spec
===============================================================================
