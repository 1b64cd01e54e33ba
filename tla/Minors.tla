-------------------------------- MODULE Minors --------------------------------
(***************************************************************************)
(* The leading principal minors D1..D4 of the Hankel matrix of a syndrome  *)
(* d[1..7], by two layers of products with linear combinations after each. *)
(* The combinations are the same on field elements and on shares of them,  *)
(* so the operators below serve both; only who multiplies differs.         *)
(***************************************************************************)
EXTENDS Encoding, Sequences

T == 4

Xi == <<0, 1, 0, 1, 0, 1, 2, 1, 2, 2, 3, 2, 3, 2, 3, 4, 3, 4, 4, 5>>
Yi == <<2, 1, 3, 2, 4, 3, 2, 4, 3, 4, 3, 5, 4, 6, 5, 4, 6, 5, 6, 5>>

\* The factors of layer 1.
LayerOne(d) == [i \in 1..20 |-> <<d[Xi[i] + 1], d[Yi[i] + 1]>>]

\* The 2 x 2 minors of the rows i < j of the first and of the last two columns,
\* from the products m of layer 1.
Top(m) ==
    [T12 |-> Sub(m[1], m[2]),  T13 |-> Sub(m[3], m[4]),  T14 |-> Sub(m[5], m[6]),
     T23 |-> Sub(m[6], m[7]),  T24 |-> Sub(m[8], m[9]),  T34 |-> Sub(m[10], m[11])]

Bottom(m) ==
    [B12 |-> Sub(m[10], m[11]), B13 |-> Sub(m[12], m[13]), B14 |-> Sub(m[14], m[15]),
     B23 |-> Sub(m[15], m[16]), B24 |-> Sub(m[17], m[18]), B34 |-> Sub(m[19], m[20])]

\* The factors of layer 2: an expansion of D3 and the Laplace expansion of D4.
LayerTwo(d, m) ==
    LET t == Top(m)
        b == Bottom(m)
    IN  << <<d[1], t.T34>>, <<d[2], t.T24>>, <<d[3], t.T23>>,
           <<t.T12, b.B34>>, <<t.T13, b.B24>>, <<t.T14, b.B23>>,
           <<t.T23, b.B14>>, <<t.T24, b.B13>>, <<t.T34, b.B12>> >>

\* Mutant: the sign of one term of the Laplace expansion.
MinorsMissigned(d, m, n) ==
    << d[1], Top(m).T12,
       Add(Sub(n[1], n[2]), n[3]),
       Add(Sub(Sub(Add(Sub(n[4], n[5]), n[6]), n[7]), n[8]), n[9]) >>

MinorsOf(d, m, n) ==
    << d[1], Top(m).T12,
       Add(Sub(n[1], n[2]), n[3]),
       Add(Sub(Add(Add(Sub(n[4], n[5]), n[6]), n[7]), n[8]), n[9]) >>

\* Mutant: the search ends at the first zero minor.
TOfFirstZero(D) ==
    CHOOSE t \in 0..T : (\A u \in 1..t : D[u] # 0) /\ (t = T \/ D[t + 1] = 0)

\* The largest tau whose minor is nonzero, 0 if none is: a zero minor below a
\* nonzero one does not count.
TOf(D) ==
    CHOOSE t \in 0..T : (t = 0 \/ D[t] # 0) /\ \A u \in (t + 1)..T : D[u] = 0

\* The circuit on field elements.
MinorsInClear(d) ==
    LET products(pairs) == [i \in DOMAIN pairs |-> Mul(pairs[i][1], pairs[i][2])]
        m == products(LayerOne(d))
    IN  MinorsOf(d, m, products(LayerTwo(d, m)))
===============================================================================
