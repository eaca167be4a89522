----------------------------- MODULE CsvProofs -----------------------------
(***************************************************************************)
(* The CSV files of CsvFormat, for texts, rows and columns of every number   *)
(* and length: a preview finds the rows that the import would offer, the     *)
(* reader cuts a file into the rows that the parser finds in the whole, and  *)
(* what an export wrote is read back.                                       *)
(*                                                                         *)
(* The prover has no induction over data.  What the proofs need of it comes  *)
(* first: of the places of a text from the left, of texts made of pieces, of *)
(* folds, and of sequences that grow by one.                               *)
(***************************************************************************)
EXTENDS CsvFormat, FiniteSetTheorems, WellFoundedInduction, TLAPS

-----------------------------------------------------------------------------
(* The places of a text.                                                   *)

\* The smallest and the largest of the places of a text.
LEMMA HaveEnds ==
  ASSUME NEW n \in Nat, NEW S \in SUBSET (1..n), S # {}
  PROVE  /\ Min(S) \in S /\ \A x \in S : Min(S) <= x
         /\ Max(S) \in S /\ \A x \in S : x <= Max(S)
<1> DEFINE R == OpToRel(<, Nat)
<1>1. IsWellFoundedOn(R, Nat)
  BY NatLessThanWellFounded
<1>2. \A x, y \in Nat : y < x => <<y, x>> \in R
  BY DEF OpToRel
<1> HIDE DEF R
<1>3. \A T \in SUBSET Nat : T # {} => \E x \in T : \A y \in T : x <= y
  <2> SUFFICES ASSUME NEW T \in SUBSET Nat, T # {} PROVE \E x \in T : \A y \in T : x <= y
    OBVIOUS
  <2>1. PICK x \in T : \A y \in T : ~ (<<y, x>> \in R)
    BY <1>1, WFMin
  <2>2. ASSUME NEW y \in T PROVE x <= y
    <3>1. ~(y < x)
      BY <1>2, <2>1
    <3>2. x \in Nat /\ y \in Nat
      OBVIOUS
    <3> QED
      BY <3>1, <3>2
  <2> QED
    BY <2>2
<1>4. \E x \in S : \A y \in S : x <= y
  <2>1. S \in SUBSET Nat
    OBVIOUS
  <2> QED
    BY <1>3, <2>1
<1>5. \E x \in S : \A y \in S : x >= y
  <2> DEFINE T == {n - x : x \in S}
  <2>1. T \in SUBSET Nat /\ T # {}
    <3>1. \A x \in S : n - x \in Nat
      OBVIOUS
    <3> QED
      BY <3>1
  <2>2. PICK t \in T : \A u \in T : t <= u
    <3> HIDE DEF T
    <3> QED
      BY <1>3, <2>1
  <2>3. PICK x \in S : t = n - x
    OBVIOUS
  <2>4. ASSUME NEW y \in S PROVE x >= y
    <3>1. n - x <= n - y
      BY <2>2, <2>3
    <3>2. x \in Int /\ y \in Int /\ n \in Int
      OBVIOUS
    <3> QED
      BY <3>1, <3>2
  <2> QED
    BY <2>4
<1>6. Min(S) \in S /\ \A x \in S : Min(S) <= x
  BY <1>4 DEF Min
<1>7. Max(S) \in S /\ \A x \in S : Max(S) >= x
  BY <1>5 DEF Max
<1> QED
  BY <1>6, <1>7

\* Texts one after the other.
LEMMA Joining ==
  ASSUME NEW S, NEW s \in Seq(S), NEW t \in Seq(S)
  PROVE  /\ s \o t \in Seq(S) /\ Len(s \o t) = Len(s) + Len(t)
         /\ \A i \in 1..Len(s) : (s \o t)[i] = s[i]
         /\ \A i \in 1..Len(t) : (s \o t)[Len(s) + i] = t[i]
OBVIOUS

\* Whatever holds of no place and of a place after one it holds of.
LEMMA FromTheLeft ==
  ASSUME NEW n \in Nat, NEW S, 0 \in S, \A k \in 1..n : k - 1 \in S => k \in S
  PROVE  \A k \in 0..n : k \in S
<1> DEFINE R == OpToRel(<, Nat)
           T == {k \in 0..n : k \notin S}
<1>1. IsWellFoundedOn(R, Nat)
  BY NatLessThanWellFounded
<1>2. \A x, y \in Nat : y < x => <<y, x>> \in R
  BY DEF OpToRel
<1> HIDE DEF R
<1> SUFFICES ASSUME T # {} PROVE FALSE
  OBVIOUS
<1>3. T \in SUBSET Nat
  OBVIOUS
<1>4. PICK x \in T : \A y \in T : ~ (<<y, x>> \in R)
  <2> HIDE DEF T
  <2> QED
    BY <1>1, <1>3, WFMin
<1>5. x \in 1..n /\ x - 1 \in Nat /\ x \in Nat /\ x - 1 < x /\ x - 1 \in 0..n
  BY <1>4
<1>6. x - 1 \notin T
  <2> HIDE DEF T
  <2> QED
    BY <1>2, <1>4, <1>5
<1> QED
  BY <1>4, <1>5, <1>6

-----------------------------------------------------------------------------
(* Texts made of pieces.                                                   *)

\* f gives the first pieces of s as one text.
Flattens(f, s, X) ==
  /\ f \in [0..Len(s) -> Seq(X)]
  /\ f[0] = <<>>
  /\ \A k \in 1..Len(s) : f[k] = f[k - 1] \o s[k]

LEMMA FlattenIs ==
  ASSUME NEW X, NEW s \in Seq(Seq(X)), NEW f, Flattens(f, s, X)
  PROVE  FlattenSeq(s) = f[Len(s)]
<1>1. CASE Len(s) = 0
  <2>1. s = <<>>
    BY <1>1
  <2> QED
    BY <1>1, <2>1 DEF FlattenSeq, Flattens
<1>2. CASE Len(s) # 0
  <2> DEFINE n == Len(s)
             Flat(g) == g = [i \in 1..n |-> IF i = 1 THEN s[i] ELSE g[i - 1] \o s[i]]
             h == [i \in 1..n |-> f[i]]
             c == CHOOSE g : Flat(g)
  <2>0. n \in Nat /\ n >= 1 /\ DOMAIN s = 1..n
    BY <1>2
  <2>1. f[1] = s[1]
    <3>1. 1 \in 1..n /\ 1 - 1 = 0
      BY <2>0
    <3>2. f[1] = f[0] \o s[1] /\ f[0] = <<>>
      BY <3>1 DEF Flattens
    <3>3. s[1] \in Seq(X)
      BY <3>1
    <3>4. <<>> \o s[1] = s[1]
      BY <3>3
    <3> QED
      BY <3>2, <3>4
  <2>2. ASSUME NEW i \in 1..n, i # 1 PROVE h[i] = h[i - 1] \o s[i]
    <3>1. i - 1 \in 1..n /\ h[i - 1] = f[i - 1] /\ h[i] = f[i]
      BY <2>0, <2>2
    <3>2. f[i] = f[i - 1] \o s[i]
      BY DEF Flattens
    <3> QED
      BY <3>1, <3>2
  <2>3. Flat(h)
    <3>1. \A i \in 1..n : h[i] = IF i = 1 THEN s[i] ELSE h[i - 1] \o s[i]
      BY <2>0, <2>1, <2>2
    <3>2. h = [i \in 1..n |-> h[i]]
      OBVIOUS
    <3> HIDE DEF h
    <3> QED
      BY <3>1, <3>2
  <2>4. Flat(c)
    <3> HIDE DEF Flat, h
    <3> QED
      BY <2>3
  <2>5. FlattenSeq(s) = c[n]
    BY <1>2 DEF FlattenSeq
  <2>6. \A i \in 1..n : c[i] = IF i = 1 THEN s[i] ELSE c[i - 1] \o s[i]
    <3> HIDE DEF c
    <3> QED
      BY <2>4
  <2> DEFINE S == {k \in 0..n : k = 0 \/ c[k] = f[k]}
  <2>7. ASSUME NEW k \in 1..n, k - 1 \in S PROVE k \in S
    <3> HIDE DEF c, h, Flat
    <3>1. CASE k = 1
      BY <2>0, <2>1, <2>6, <3>1
    <3>2. CASE k # 1
      <4>1. c[k - 1] = f[k - 1]
        BY <2>7, <3>2
      <4>2. c[k] = c[k - 1] \o s[k]
        BY <2>6, <3>2
      <4>3. f[k] = f[k - 1] \o s[k]
        BY DEF Flattens
      <4>4. c[k] = f[k] /\ k \in 0..n
        BY <2>0, <4>1, <4>2, <4>3
      <4> QED
        BY <4>4
    <3> QED
      BY <3>1, <3>2
  <2>8. n \in S
    <3>1. 0 \in S /\ n \in 0..n
      BY <2>0
    <3> HIDE DEF S
    <3> QED
      BY <2>0, <2>7, <3>1, FromTheLeft
  <2> QED
    BY <2>0, <2>5, <2>8
<1> QED
  BY <1>1, <1>2

LEMMA FlatteningExists ==
  ASSUME NEW X, NEW s \in Seq(Seq(X))
  PROVE  \E f : Flattens(f, s, X)
<1> DEFINE n == Len(s)
           Upto(f, k) == /\ f \in [0..k -> Seq(X)] /\ f[0] = <<>>
                         /\ \A i \in 1..k : f[i] = f[i - 1] \o s[i]
           S == {k \in 0..n : \E f : Upto(f, k)}
<1>0. n \in Nat /\ DOMAIN s = 1..n /\ \A i \in 1..n : s[i] \in Seq(X)
  OBVIOUS
<1>1. 0 \in S
  <2>1. Upto([i \in 0..0 |-> <<>>], 0)
    OBVIOUS
  <2> HIDE DEF Upto
  <2> QED
    BY <1>0, <2>1
<1>2. ASSUME NEW k \in 1..n, k - 1 \in S PROVE k \in S
  <2>1. PICK f : Upto(f, k - 1)
    BY <1>2
  <2> DEFINE g == [i \in 0..k |-> IF i = k THEN f[k - 1] \o s[k] ELSE f[i]]
  <2>2. f[k - 1] \o s[k] \in Seq(X)
    BY <1>0, <2>1
  <2>3. g \in [0..k -> Seq(X)] /\ g[0] = <<>>
    BY <1>0, <2>1, <2>2
  <2>4. ASSUME NEW i \in 1..k PROVE g[i] = g[i - 1] \o s[i]
    <3>1. CASE i = k
      <4>1. g[i - 1] = f[k - 1] /\ g[i] = f[k - 1] \o s[k]
        BY <1>0, <3>1
      <4> QED
        BY <3>1, <4>1
    <3>2. CASE i # k
      <4>1. g[i] = f[i] /\ g[i - 1] = f[i - 1] /\ i \in 1..(k - 1)
        BY <1>0, <3>2
      <4> QED
        BY <2>1, <4>1
    <3> QED
      BY <3>1, <3>2
  <2>5. Upto(g, k)
    <3> HIDE DEF g
    <3> QED
      BY <2>3, <2>4
  <2> HIDE DEF Upto, g
  <2>6. k \in 0..n
    BY <1>0
  <2> QED
    BY <2>5, <2>6
<1>3. n \in S
  <2>1. n \in 0..n
    BY <1>0
  <2> HIDE DEF S
  <2> QED
    BY <1>0, <1>1, <1>2, <2>1, FromTheLeft
<1> QED
  BY <1>3 DEF Flattens

\* The first k pieces as one text.
Beginning(s, k) == FlattenSeq(SubSeq(s, 1, k))

LEMMA Beginnings ==
  ASSUME NEW X, NEW s \in Seq(Seq(X))
  PROVE  /\ Flattens([k \in 0..Len(s) |-> Beginning(s, k)], s, X)
         /\ FlattenSeq(s) = Beginning(s, Len(s)) /\ FlattenSeq(s) \in Seq(X)
<1>1. PICK f : Flattens(f, s, X)
  BY FlatteningExists
<1>2. ASSUME NEW k \in 0..Len(s) PROVE Beginning(s, k) = f[k]
  <2> DEFINE t == SubSeq(s, 1, k)
             g == [i \in 0..k |-> f[i]]
  <2>1. /\ t \in Seq(Seq(X)) /\ Len(t) = k
        /\ \A i \in 1..k : t[i] = s[i]
    OBVIOUS
  <2>2. g \in [0..k -> Seq(X)] /\ g[0] = <<>>
    BY <1>1 DEF Flattens
  <2>3. ASSUME NEW i \in 1..k PROVE g[i] = g[i - 1] \o s[i]
    <3>1. g[i] = f[i] /\ g[i - 1] = f[i - 1] /\ i \in 1..Len(s)
      OBVIOUS
    <3>2. f[i] = f[i - 1] \o s[i]
      BY <1>1, <3>1 DEF Flattens
    <3> QED
      BY <3>1, <3>2
  <2> HIDE DEF t, g
  <2>4. Flattens(g, t, X)
    BY <2>1, <2>2, <2>3 DEF Flattens
  <2>5. FlattenSeq(t) = g[k]
    BY <2>1, <2>4, FlattenIs
  <2> QED
    BY <2>5 DEF Beginning, t, g
<1>3. [k \in 0..Len(s) |-> Beginning(s, k)] = f
  <2>1. f = [k \in 0..Len(s) |-> f[k]]
    BY <1>1 DEF Flattens
  <2> QED
    BY <1>2, <2>1
<1>4. FlattenSeq(s) = f[Len(s)] /\ Len(s) \in 0..Len(s)
  BY <1>1, FlattenIs
<1>5. f[Len(s)] \in Seq(X)
  BY <1>1, <1>4 DEF Flattens
<1> QED
  BY <1>1, <1>2, <1>3, <1>4, <1>5

\* One piece more.
LEMMA OnePieceMore ==
  ASSUME NEW X, NEW s \in Seq(Seq(X)), NEW k \in 1..Len(s)
  PROVE  /\ Beginning(s, k) = Beginning(s, k - 1) \o s[k]
         /\ Beginning(s, 0) = <<>> /\ Beginning(s, k - 1) \in Seq(X) /\ Beginning(s, k) \in Seq(X)
         /\ Len(Beginning(s, k)) = Len(Beginning(s, k - 1)) + Len(s[k])
<1>1. Flattens([i \in 0..Len(s) |-> Beginning(s, i)], s, X)
  BY Beginnings
<1>2. k \in 0..Len(s) /\ k - 1 \in 0..Len(s) /\ 0 \in 0..Len(s) /\ s[k] \in Seq(X)
  OBVIOUS
<1>3. /\ Beginning(s, k) = Beginning(s, k - 1) \o s[k] /\ Beginning(s, 0) = <<>>
      /\ Beginning(s, k - 1) \in Seq(X) /\ Beginning(s, k) \in Seq(X)
  BY <1>1, <1>2 DEF Flattens
<1> QED
  BY <1>2, <1>3, Joining

\* A text begins with what its beginning begins with.
BeginsWith(x, y) == Len(y) <= Len(x) /\ \A i \in 1..Len(y) : x[i] = y[i]

LEMMA BeginsAlike ==
  ASSUME NEW X, NEW x \in Seq(X), NEW y \in Seq(X), NEW z \in Seq(X), NEW w, w = y \o z,
         BeginsWith(y, x)
  PROVE  BeginsWith(w, x)
BY DEF BeginsWith

LEMMA EndsAlike ==
  ASSUME NEW X, NEW y \in Seq(X), NEW z \in Seq(X), NEW x, x = y \o z,
         NEW w \in Seq(X), BeginsWith(w, x)
  PROVE  /\ Len(y) \in Nat /\ Len(y) + Len(z) <= Len(w)
         /\ \A j \in 1..Len(z) : w[Len(y) + j] = z[j]
BY DEF BeginsWith

\* Where the symbols of a piece are.
LEMMA PieceIsThere ==
  ASSUME NEW X, NEW s \in Seq(Seq(X)), NEW k \in 1..Len(s)
  PROVE  /\ Len(Beginning(s, k - 1)) \in Nat
         /\ Len(Beginning(s, k - 1)) + Len(s[k]) <= Len(FlattenSeq(s))
         /\ \A j \in 1..Len(s[k]) : FlattenSeq(s)[Len(Beginning(s, k - 1)) + j] = s[k][j]
<1> DEFINE n == Len(s)
           b(m) == Beginning(s, m)
           S == {m \in 0..n : m < k \/ BeginsWith(b(m), b(k))}
<1>0. /\ n \in Nat /\ k \in 1..n /\ n \in 0..n /\ \A m \in 1..n : m \in 0..n /\ s[m] \in Seq(X)
      /\ \A m \in 1..n : m < k \/ m = k \/ m - 1 >= k
  OBVIOUS
<1>1. \A m \in 1..n : b(m) = b(m - 1) \o s[m] /\ b(m - 1) \in Seq(X) /\ b(m) \in Seq(X)
  BY OnePieceMore
<1>2. FlattenSeq(s) = b(n) /\ b(n) \in Seq(X)
  BY Beginnings
<1> HIDE DEF b
<1>3. BeginsWith(b(k), b(k))
  BY <1>0, <1>1 DEF BeginsWith
<1>4. ASSUME NEW m \in 1..n, m - 1 \in S PROVE m \in S
  <2>1. CASE m < k \/ m = k
    BY <1>0, <1>3, <2>1
  <2>2. CASE m - 1 >= k
    <3> DEFINE x == b(k)
               y == b(m - 1)
               z == s[m]
               w == b(m)
    <3>1. BeginsWith(y, x)
      BY <1>0, <1>4, <2>2
    <3>2. x \in Seq(X) /\ y \in Seq(X) /\ z \in Seq(X) /\ w = y \o z
      BY <1>0, <1>1
    <3>3. BeginsWith(w, x)
      <4> HIDE DEF x, y, z, w
      <4> QED
        BY <3>1, <3>2, BeginsAlike
    <3> QED
      BY <1>0, <3>3
  <2> QED
    BY <1>0, <2>1, <2>2
<1>5. BeginsWith(b(n), b(k))
  <2>1. 0 \in S
    BY <1>0
  <2>2. n \in S
    <3> HIDE DEF S
    <3> QED
      BY <1>0, <1>4, <2>1, FromTheLeft
  <2> QED
    BY <1>0, <2>2
<1> DEFINE x == b(k)
           y == b(k - 1)
           z == s[k]
           w == b(n)
<1>6. y \in Seq(X) /\ z \in Seq(X) /\ x = y \o z /\ w \in Seq(X) /\ BeginsWith(w, x)
  BY <1>0, <1>1, <1>2, <1>5
<1>7. Len(y) \in Nat /\ Len(y) + Len(z) <= Len(w) /\ \A j \in 1..Len(z) : w[Len(y) + j] = z[j]
  <2> HIDE DEF x, y, z, w
  <2> QED
    BY ONLY <1>6, EndsAlike
<1>8. w = FlattenSeq(s) /\ y = Beginning(s, k - 1)
  BY <1>2 DEF b
<1> QED
  <2> HIDE DEF y, w
  <2> QED
    BY <1>7, <1>8

LEMMA PieceAppended ==
  ASSUME NEW X, NEW s \in Seq(Seq(X)), NEW x \in Seq(X)
  PROVE  FlattenSeq(Append(s, x)) = FlattenSeq(s) \o x /\ FlattenSeq(s) \in Seq(X)
<1> DEFINE t == Append(s, x)
           n == Len(s)
<1>1. /\ t \in Seq(Seq(X)) /\ Len(t) = n + 1 /\ n \in Nat /\ t[n + 1] = x
      /\ SubSeq(t, 1, n) = s /\ n + 1 \in 1..Len(t) /\ (n + 1) - 1 = n
  OBVIOUS
<1> HIDE DEF t, n
<1>2. Beginning(t, n + 1) = Beginning(t, n) \o x
  BY <1>1, OnePieceMore
<1>3. FlattenSeq(t) = Beginning(t, n + 1)
  BY <1>1, Beginnings
<1>4. Beginning(t, n) = FlattenSeq(s)
  BY <1>1 DEF Beginning
<1>5. FlattenSeq(s) \in Seq(X)
  BY Beginnings
<1> QED
  BY <1>2, <1>3, <1>4, <1>5 DEF t

-----------------------------------------------------------------------------
(* Scans of a text from the left.                                          *)

\* g gives what is made of the places of each set, the last one last.
Descends(g, F, base, n) ==
  g = [s \in SUBSET (1..n) |-> IF s = {} THEN base ELSE F[<<g[s \ {Max(s)}], Max(s)>>]]

LEMMA FoldingExists ==
  ASSUME NEW n \in Nat, NEW A, NEW base \in A, NEW F \in [A \X (1..n) -> A]
  PROVE  \E g \in [SUBSET (1..n) -> A] : Descends(g, F, base, n)
<1> DEFINE Good(k) == \E g \in [SUBSET (1..k) -> A] : Descends(g, F, base, k)
           S == {k \in 0..n : Good(k)}
<1>1. 0 \in S
  <2> DEFINE g == [s \in SUBSET (1..0) |-> base]
  <2>1. \A s \in SUBSET (1..0) : s = {}
    OBVIOUS
  <2>2. Descends(g, F, base, 0)
    BY <2>1 DEF Descends
  <2>3. g \in [SUBSET (1..0) -> A]
    OBVIOUS
  <2> HIDE DEF g
  <2>4. Good(0)
    BY <2>2, <2>3
  <2> HIDE DEF Good
  <2> QED
    BY <2>4
<1>2. ASSUME NEW k \in 1..n, k - 1 \in S PROVE k \in S
  <2>1. PICK f \in [SUBSET (1..(k - 1)) -> A] : Descends(f, F, base, k - 1)
    BY <1>2
  <2> DEFINE g == [s \in SUBSET (1..k) |-> IF s = {} THEN base
                                           ELSE F[<<f[s \ {Max(s)}], Max(s)>>]]
  <2>2. ASSUME NEW s \in SUBSET (1..k), s # {}
        PROVE  /\ Max(s) \in 1..n /\ s \ {Max(s)} \in SUBSET (1..(k - 1))
               /\ s \ {Max(s)} \in SUBSET (1..k)
    <3>0. k \in Nat /\ \A x \in s : x \in 1..k
      BY <2>2
    <3>1. Max(s) \in s /\ \A x \in s : x <= Max(s)
      BY <2>2, <3>0, HaveEnds
    <3> DEFINE top == Max(s)
    <3>2. top \in s /\ \A x \in s : x <= top
      BY <3>1
    <3> HIDE DEF top
    <3>3. ASSUME NEW x \in s, x # top PROVE x \in 1..(k - 1)
      <4>1. x \in 1..k /\ top \in 1..k /\ x <= top
        BY <3>0, <3>2
      <4> QED
        BY <3>3, <4>1
    <3>4. top \in 1..n /\ s \ {top} \in SUBSET (1..(k - 1)) /\ s \ {top} \in SUBSET (1..k)
      BY <2>2, <3>0, <3>2, <3>3
    <3> QED
      BY <3>4 DEF top
  <2>3. ASSUME NEW s \in SUBSET (1..(k - 1)) PROVE g[s] = f[s]
    <3>1. s \in SUBSET (1..k)
      OBVIOUS
    <3>2. f[s] = IF s = {} THEN base ELSE F[<<f[s \ {Max(s)}], Max(s)>>]
      BY <2>1 DEF Descends
    <3> QED
      BY <3>1, <3>2
  <2>4. g \in [SUBSET (1..k) -> A]
    <3>1. ASSUME NEW s \in SUBSET (1..k), s # {} PROVE F[<<f[s \ {Max(s)}], Max(s)>>] \in A
      BY <2>2, <3>1
    <3> QED
      BY <3>1
  <2>5. \A s \in SUBSET (1..k) : g[s] = IF s = {} THEN base ELSE F[<<g[s \ {Max(s)}], Max(s)>>]
    <3>1. ASSUME NEW s \in SUBSET (1..k), s # {} PROVE g[s] = F[<<g[s \ {Max(s)}], Max(s)>>]
      <4>1. g[s] = F[<<f[s \ {Max(s)}], Max(s)>>]
        BY <3>1
      <4>2. g[s \ {Max(s)}] = f[s \ {Max(s)}]
        <5> HIDE DEF g
        <5> QED
          BY <2>2, <2>3, <3>1
      <4> QED
        BY <4>1, <4>2
    <3>2. g[{}] = base
      OBVIOUS
    <3> HIDE DEF g
    <3> QED
      BY <3>1, <3>2
  <2> HIDE DEF g
  <2>6. Descends(g, F, base, k)
    BY <2>4, <2>5 DEF Descends
  <2>7. k \in 0..n
    OBVIOUS
  <2> QED
    BY <2>4, <2>6, <2>7
<1>3. n \in S
  <2>1. n \in 0..n
    OBVIOUS
  <2> HIDE DEF S
  <2> QED
    BY <1>1, <1>2, <2>1, FromTheLeft
<1> QED
  BY <1>3

LEMMA LastPlace ==
  ASSUME NEW k \in Nat \ {0}
  PROVE  1..k # {} /\ Max(1..k) = k /\ (1..k) \ {k} = 1..(k - 1)
<1>1. k \in 1..k
  OBVIOUS
<1>2. Max(1..k) \in 1..k /\ \A x \in 1..k : x <= Max(1..k)
  BY <1>1, HaveEnds
<1>3. (1..k) \ {k} = 1..(k - 1)
  OBVIOUS
<1> QED
  BY <1>1, <1>2, <1>3

\* What a fold makes of a text it makes symbol by symbol.
LEMMA FoldingGoesUp ==
  ASSUME NEW n \in Nat, NEW A, NEW base \in A, NEW F \in [A \X (1..n) -> A],
         NEW g \in [SUBSET (1..n) -> A], Descends(g, F, base, n)
  PROVE  /\ g[1..0] = base /\ g[1..0] \in A
         /\ \A k \in 1..n : /\ g[1..(k - 1)] \in A /\ g[1..k] \in A
                            /\ g[1..k] = F[<<g[1..(k - 1)], k>>]
<1>1. 1..0 = {} /\ g[{}] = base /\ {} \in SUBSET (1..n)
  BY DEF Descends
<1>2. ASSUME NEW k \in 1..n
      PROVE  /\ g[1..(k - 1)] \in A /\ g[1..k] \in A
             /\ g[1..k] = F[<<g[1..(k - 1)], k>>]
  <2> DEFINE s == 1..k
  <2>1. s # {} /\ Max(s) = k /\ s \ {k} = 1..(k - 1) /\ s \in SUBSET (1..n)
        /\ 1..(k - 1) \in SUBSET (1..n)
    <3>1. k \in Nat \ {0}
      OBVIOUS
    <3>2. s # {} /\ Max(s) = k /\ s \ {k} = 1..(k - 1)
      BY <3>1, LastPlace
    <3>3. s \in SUBSET (1..n) /\ 1..(k - 1) \in SUBSET (1..n)
      OBVIOUS
    <3> QED
      BY <3>2, <3>3
  <2> HIDE DEF s
  <2>2. g[s] = F[<<g[s \ {Max(s)}], Max(s)>>]
    BY <2>1 DEF Descends
  <2> QED
    BY <2>1, <2>2 DEF s
<1> QED
  BY <1>1, <1>2

-----------------------------------------------------------------------------
(* Sequences that grow by one.                                             *)

LEMMA Appending ==
  ASSUME NEW S, NEW s \in Seq(S), NEW x \in S
  PROVE  /\ Append(s, x) \in Seq(S) /\ Len(Append(s, x)) = Len(s) + 1
         /\ s \o <<x>> = Append(s, x)
         /\ Front(Append(s, x)) = s /\ Last(Append(s, x)) = x
<1>1. /\ Append(s, x) \in Seq(S) /\ Len(Append(s, x)) = Len(s) + 1 /\ Len(s) \in Nat
      /\ \A i \in 1..Len(s) : Append(s, x)[i] = s[i]
      /\ Append(s, x)[Len(s) + 1] = x
  OBVIOUS
<1>2. <<x>> \in Seq(S) /\ Len(<<x>>) = 1 /\ <<x>>[1] = x
  OBVIOUS
<1>3. s \o <<x>> \in Seq(S) /\ Len(s \o <<x>>) = Len(s) + 1
      /\ \A i \in 1..Len(s) : (s \o <<x>>)[i] = s[i]
      /\ (s \o <<x>>)[Len(s) + 1] = x
  <2> DEFINE u == <<x>>
  <2>1. u \in Seq(S) /\ Len(u) = 1 /\ u[1] = x /\ 1 \in 1..Len(u)
    BY <1>2
  <2> HIDE DEF u
  <2>2. /\ s \o u \in Seq(S) /\ Len(s \o u) = Len(s) + Len(u)
        /\ \A i \in 1..Len(s) : (s \o u)[i] = s[i]
        /\ \A i \in 1..Len(u) : (s \o u)[Len(s) + i] = u[i]
    BY <2>1, Joining
  <2> QED
    BY <2>1, <2>2 DEF u
<1>4. s \o <<x>> = Append(s, x)
  <2> DEFINE u == s \o <<x>>
             v == Append(s, x)
             n == Len(s)
  <2>1. /\ u \in Seq(S) /\ v \in Seq(S) /\ Len(u) = n + 1 /\ Len(v) = n + 1 /\ n \in Nat
        /\ \A i \in 1..n : u[i] = v[i]
        /\ u[n + 1] = v[n + 1]
    BY <1>1, <1>3
  <2> HIDE DEF u, v, n
  <2>2. \A i \in 1..(n + 1) : u[i] = v[i]
    BY <2>1
  <2>3. u = v
    BY <2>1, <2>2
  <2> QED
    BY <2>3 DEF u, v
<1>5. Front(Append(s, x)) = s
  <2> DEFINE v == Append(s, x)
  <2>1. v \in Seq(S) /\ Len(v) = Len(s) + 1 /\ \A i \in 1..Len(s) : v[i] = s[i]
    BY <1>1
  <2> HIDE DEF v
  <2>2. SubSeq(v, 1, Len(s)) = s
    BY <2>1
  <2>3. Len(v) - 1 = Len(s)
    BY <1>1, <2>1
  <2> QED
    BY <2>2, <2>3 DEF Front, v
<1> QED
  BY <1>1, <1>4, <1>5 DEF Last

\* What holds of the empty sequence and of a sequence longer by one.
LEMMA GrowingSequences ==
  ASSUME NEW X, NEW T, <<>> \in T,
         \A s \in Seq(X) : \A x \in X : s \in T => Append(s, x) \in T
  PROVE  Seq(X) \subseteq T
<1> SUFFICES ASSUME NEW s \in Seq(X) PROVE s \in T
  OBVIOUS
<1> DEFINE n == Len(s)
           S == {k \in 0..n : SubSeq(s, 1, k) \in T}
<1>1. n \in Nat /\ SubSeq(s, 1, 0) = <<>> /\ SubSeq(s, 1, n) = s
  OBVIOUS
<1>2. ASSUME NEW k \in 1..n, k - 1 \in S PROVE k \in S
  <2> DEFINE u == SubSeq(s, 1, k - 1)
  <2>1. u \in Seq(X) /\ s[k] \in X /\ Append(u, s[k]) = SubSeq(s, 1, k) /\ k \in 0..n
    OBVIOUS
  <2>2. u \in T
    BY <1>2
  <2> HIDE DEF u
  <2> QED
    BY <2>1, <2>2
<1>3. 0 \in S /\ n \in 0..n
  <2>1. 0 \in 0..n /\ n \in 0..n
    BY ONLY <1>1
  <2> QED
    BY <1>1, <2>1
<1>4. n \in S
  <2> HIDE DEF S
  <2> QED
    BY <1>1, <1>2, <1>3, FromTheLeft
<1> QED
  BY <1>1, <1>4

\* The members of s that are in K.
Among(s, K) == FlattenSeq([i \in DOMAIN s |-> IF s[i] \in K THEN <<s[i]>> ELSE <<>>])

LEMMA AmongGrows ==
  ASSUME NEW X, NEW K, NEW parts \in Seq(X), NEW x \in X
  PROVE  /\ Among(<<>>, K) = <<>> /\ Among(parts, K) \in Seq(X)
         /\ Among(Append(parts, x), K) =
              IF x \in K THEN Append(Among(parts, K), x) ELSE Among(parts, K)
<1> DEFINE P(y) == IF y \in K THEN <<y>> ELSE <<>>
           Ps(s) == [i \in DOMAIN s |-> P(s[i])]
           n == Len(parts)
<1>1. \A s : Among(s, K) = FlattenSeq(Ps(s))
  BY DEF Among
<1>2. \A y \in X : P(y) \in Seq(X)
  OBVIOUS
<1>3. Ps(parts) \in Seq(Seq(X)) /\ P(x) \in Seq(X)
  <2>1. DOMAIN parts = 1..n /\ n \in Nat /\ \A i \in 1..n : parts[i] \in X
    OBVIOUS
  <2> HIDE DEF P
  <2>2. Ps(parts) \in [1..n -> Seq(X)]
    BY <1>2, <2>1
  <2> HIDE DEF Ps
  <2> QED
    BY <1>2, <2>1, <2>2
<1>4. Ps(Append(parts, x)) = Append(Ps(parts), P(x))
  <2> DEFINE s == Append(parts, x)
  <2>1. /\ DOMAIN s = 1..(n + 1) /\ n \in Nat /\ s[n + 1] = x /\ \A i \in 1..n : s[i] = parts[i]
        /\ DOMAIN parts = 1..n
    OBVIOUS
  <2> HIDE DEF s, P
  <2> DEFINE u == Ps(s)
             v == Append(Ps(parts), P(x))
  <2>2. u = [i \in 1..(n + 1) |-> P(s[i])]
    BY <2>1
  <2>3. /\ v \in Seq(Seq(X)) /\ Len(v) = n + 1 /\ v[n + 1] = P(x)
        /\ \A i \in 1..n : v[i] = P(parts[i])
    <3> DEFINE w == Ps(parts)
    <3>1. w \in Seq(Seq(X)) /\ Len(w) = n /\ \A i \in 1..n : w[i] = P(parts[i])
      <4>1. w \in Seq(Seq(X))
        BY <1>3
      <4>2. w = [i \in 1..n |-> P(parts[i])]
        BY <2>1
      <4> HIDE DEF w
      <4> QED
        BY <2>1, <4>1, <4>2
    <3> HIDE DEF w
    <3> QED
      BY <1>3, <2>1, <3>1
  <2>4. \A i \in 1..(n + 1) : u[i] = v[i]
    <3> SUFFICES ASSUME NEW i \in 1..(n + 1) PROVE u[i] = v[i]
      OBVIOUS
    <3>1. i \in 1..n \/ i = n + 1
      BY <2>1
    <3>2. u[i] = P(s[i])
      BY <2>2
    <3> HIDE DEF u, v
    <3> QED
      BY <2>1, <2>3, <3>1, <3>2
  <2>5. v = [i \in 1..(n + 1) |-> v[i]]
    <3> HIDE DEF v
    <3> QED
      BY <2>1, <2>3
  <2>6. u = [i \in 1..(n + 1) |-> u[i]]
    BY <2>2
  <2>7. u = v
    <3> HIDE DEF u, v
    <3> QED
      BY <2>4, <2>5, <2>6
  <2> QED
    BY <2>7 DEF s
<1> HIDE DEF Ps
<1>5. /\ FlattenSeq(Append(Ps(parts), P(x))) = FlattenSeq(Ps(parts)) \o P(x)
      /\ FlattenSeq(Ps(parts)) \in Seq(X)
  <2> HIDE DEF P
  <2> QED
    BY <1>3, PieceAppended
<1>6. Among(<<>>, K) = <<>>
  <2>1. Ps(<<>>) = <<>>
    BY DEF Ps
  <2>2. FlattenSeq(<<>>) = <<>>
    BY DEF FlattenSeq
  <2> QED
    BY ONLY <1>1, <2>1, <2>2
<1>7. FlattenSeq(Ps(parts)) \o P(x) =
        IF x \in K THEN Append(FlattenSeq(Ps(parts)), x) ELSE FlattenSeq(Ps(parts))
  <2> DEFINE f == FlattenSeq(Ps(parts))
  <2>1. f \in Seq(X)
    BY <1>5
  <2> HIDE DEF f
  <2>2. f \o <<x>> = Append(f, x) /\ f \o <<>> = f
    BY <2>1, Appending
  <2> QED
    BY <2>2 DEF f
<1> QED
  BY <1>1, <1>4, <1>5, <1>6, <1>7

-----------------------------------------------------------------------------
(* What a preview and an import make of the same rows.                      *)

\* As many are kept as are in K, each of them from a place of its own.
LEMMA AmongCounts ==
  ASSUME NEW X, NEW K, NEW s \in Seq(X)
  PROVE  Len(Among(s, K)) = Cardinality({i \in DOMAIN s : s[i] \in K})
<1> DEFINE In(v) == {i \in DOMAIN v : v[i] \in K}
           T == {v \in Seq(X) : Len(Among(v, K)) = Cardinality(In(v)) /\ IsFiniteSet(In(v))}
<1>1. <<>> \in T
  <2>1. In(<<>>) = {} /\ <<>> \in Seq(X)
    OBVIOUS
  <2>2. Among(<<>>, K) = <<>>
    BY DEF Among, FlattenSeq
  <2> HIDE DEF In
  <2>3. Len(Among(<<>>, K)) = 0
    BY <2>2
  <2> QED
    BY <2>1, <2>3, FS_EmptySet
<1>2. ASSUME NEW v \in Seq(X), NEW x \in X, v \in T PROVE Append(v, x) \in T
  <2> DEFINE n == Len(v)
             w == Append(v, x)
  <2>1. /\ n \in Nat /\ DOMAIN v = 1..n /\ DOMAIN w = 1..(n + 1) /\ w \in Seq(X)
        /\ w[n + 1] = x /\ \A i \in 1..n : w[i] = v[i]
    OBVIOUS
  <2>2. /\ Among(v, K) \in Seq(X)
        /\ Among(w, K) = IF x \in K THEN Append(Among(v, K), x) ELSE Among(v, K)
    BY AmongGrows
  <2>3. Len(Among(v, K)) = Cardinality(In(v)) /\ IsFiniteSet(In(v))
    BY <1>2
  <2>4. n + 1 \notin In(v)
    BY <2>1
  <2> HIDE DEF w, n
  <2>5. CASE x \in K
    <3>1. In(w) = In(v) \cup {n + 1}
      BY <2>1, <2>5
    <3> HIDE DEF In
    <3>2. Cardinality(In(w)) = Cardinality(In(v)) + 1 /\ IsFiniteSet(In(w))
      BY <2>3, <2>4, <3>1, FS_AddElement
    <3>3. Len(Among(w, K)) = Len(Among(v, K)) + 1
      BY <2>2, <2>5
    <3> QED
      BY <2>1, <2>3, <3>2, <3>3 DEF w
  <2>6. CASE x \notin K
    <3>1. In(w) = In(v)
      BY <2>1, <2>6
    <3> HIDE DEF In
    <3> QED
      BY <2>1, <2>2, <2>3, <2>6, <3>1 DEF w
  <2> QED
    BY <2>5, <2>6
<1>3. Seq(X) \subseteq T
  <2> HIDE DEF T
  <2> QED
    BY <1>1, <1>2, GrowingSequences
<1> QED
  BY <1>3

Distinct(s) == \A i, j \in 1..Len(s) : i # j => s[i] # s[j]

LEMMA AmongStaysDistinct ==
  ASSUME NEW X, NEW K, NEW s \in Seq(X)
  PROVE  /\ Among(s, K) \in Seq(X)
         /\ \A k \in 1..Len(Among(s, K)) : Among(s, K)[k] \in K
         /\ Distinct(s) => Distinct(Among(s, K))
<1> DEFINE Holds(v) ==
             /\ Among(v, K) \in Seq(X)
             /\ \A k \in 1..Len(Among(v, K)) :
                  Among(v, K)[k] \in K /\ \E i \in 1..Len(v) : v[i] = Among(v, K)[k]
             /\ Distinct(v) => Distinct(Among(v, K))
           T == {v \in Seq(X) : Holds(v)}
<1>1. <<>> \in T
  <2>1. Among(<<>>, K) = <<>>
    BY DEF Among, FlattenSeq
  <2>0. <<>> \in Seq(X) /\ Len(<<>>) = 0 /\ \A k \in 1..0 : FALSE
    OBVIOUS
  <2>3. Distinct(<<>>)
    BY <2>0 DEF Distinct
  <2>2. Holds(<<>>)
    BY <2>0, <2>1, <2>3
  <2> HIDE DEF Holds
  <2> QED
    BY <2>2
<1>2. ASSUME NEW v \in Seq(X), NEW x \in X, v \in T PROVE Append(v, x) \in T
  <2> DEFINE n == Len(v)
             w == Append(v, x)
             a == Among(v, K)
             b == Among(w, K)
  <2>1. /\ n \in Nat /\ Len(w) = n + 1 /\ w \in Seq(X)
        /\ w[n + 1] = x /\ \A i \in 1..n : w[i] = v[i]
    OBVIOUS
  <2>2. a \in Seq(X) /\ b = IF x \in K THEN Append(a, x) ELSE a
    BY AmongGrows
  <2>3. /\ \A k \in 1..Len(a) : a[k] \in K /\ \E i \in 1..n : v[i] = a[k]
        /\ Distinct(v) => Distinct(a)
    BY <1>2
  <2> HIDE DEF w, n, a, b
  <2>4. Distinct(w) => Distinct(v) /\ \A i \in 1..n : v[i] # x
    <3> SUFFICES ASSUME Distinct(w) PROVE Distinct(v) /\ \A i \in 1..n : v[i] # x
      OBVIOUS
    <3>1. \A i \in 1..n : i \in 1..(n + 1) /\ n + 1 \in 1..(n + 1) /\ i # n + 1
      BY <2>1
    <3>2. \A i \in 1..n : w[i] # x
      BY <2>1, <3>1 DEF Distinct
    <3>3. \A i, j \in 1..n : i # j => w[i] # w[j]
      BY <2>1, <3>1 DEF Distinct
    <3> QED
      BY <2>1, <3>2, <3>3 DEF Distinct, n
  <2>5. CASE x \in K
    <3>1. /\ b \in Seq(X) /\ Len(b) = Len(a) + 1 /\ Len(a) \in Nat
          /\ b[Len(a) + 1] = x /\ \A k \in 1..Len(a) : b[k] = a[k]
      BY <2>2, <2>5
    <3>2. ASSUME NEW k \in 1..Len(b) PROVE b[k] \in K /\ \E i \in 1..Len(w) : w[i] = b[k]
      <4>1. CASE k \in 1..Len(a)
        <5>1. b[k] = a[k] /\ a[k] \in K
          BY <2>3, <3>1, <4>1
        <5>2. PICK i \in 1..n : v[i] = a[k]
          BY <2>3, <4>1
        <5>3. i \in 1..Len(w) /\ w[i] = b[k]
          BY <2>1, <5>1, <5>2
        <5> QED
          BY <5>1, <5>3
      <4>2. CASE k = Len(a) + 1
        <5>1. b[k] = x /\ n + 1 \in 1..Len(w)
          BY <2>1, <3>1, <4>2
        <5> QED
          BY <2>1, <2>5, <5>1
      <4> QED
        BY <3>1, <4>1, <4>2
    <3>3. ASSUME Distinct(w) PROVE Distinct(b)
      <4>1. Distinct(a) /\ \A k \in 1..Len(a) : a[k] # x
        BY <2>3, <2>4, <3>3
      <4>2. SUFFICES ASSUME NEW i \in 1..Len(b), NEW j \in 1..Len(b), i # j PROVE b[i] # b[j]
        BY DEF Distinct
      <4>3. i \in 1..Len(a) \/ i = Len(a) + 1
        BY <3>1
      <4>4. j \in 1..Len(a) \/ j = Len(a) + 1
        BY <3>1
      <4> QED
        BY <3>1, <4>1, <4>2, <4>3, <4>4 DEF Distinct
    <3> QED
      BY <2>1, <3>1, <3>2, <3>3 DEF w, b
  <2>6. CASE x \notin K
    <3>1. b = a
      BY <2>2, <2>6
    <3>2. \A i \in 1..n : i \in 1..Len(w)
      BY <2>1
    <3>3. \A k \in 1..Len(b) : b[k] \in K /\ \E i \in 1..Len(w) : w[i] = b[k]
      BY <2>1, <2>3, <3>1, <3>2
    <3>4. Distinct(w) => Distinct(b)
      BY <2>3, <2>4, <3>1
    <3> QED
      BY <2>1, <2>2, <3>1, <3>3, <3>4 DEF w, b
  <2> QED
    BY <2>5, <2>6
<1>3. Seq(X) \subseteq T
  <2> HIDE DEF T
  <2> QED
    BY <1>1, <1>2, GrowingSequences
<1> QED
  BY <1>3

CsvRow == Seq(Seq(Character))
HeaderName == Seq(Character) \cup Seq(Nat)

\* What makes the columns of an import good ones.
ColumnsAreGood(names, mapping) ==
  \A i, j \in DOMAIN names :
    /\ NameIn(Targets, names[i])
    /\ i # j => names[i] # names[j]
    /\ i # j /\ mapping = NoMapping => LowerCase(names[i]) # LowerCase(names[j])

ColumnNames(resolved) == [k \in DOMAIN resolved.columns |-> resolved.columns[k][2]]

LEMMA GoodHeader ==
  ASSUME NEW headers \in Seq(HeaderName), ~HeaderInvalid(headers)
  PROVE  ColumnsAreGood(headers, NoMapping)
<1>1. DOMAIN headers = 1..Len(headers) /\ Len(headers) \in Nat
  OBVIOUS
<1>2. ASSUME NEW i \in DOMAIN headers
      PROVE  /\ ~IsBlank(headers[i]) /\ NameIn(Targets, headers[i])
             /\ \A j \in 1..(i - 1) : LowerCase(headers[j]) # LowerCase(headers[i])
  <2>1. ~IsBlank(headers[i]) /\ NameIn(Targets, headers[i])
    BY <1>2, Zenon DEF HeaderInvalid
  <2>2. ASSUME NEW j \in 1..(i - 1) PROVE LowerCase(headers[j]) # LowerCase(headers[i])
    <3>1. j \in DOMAIN headers
      BY <1>1
    <3>2. ~IsBlank(headers[j])
      BY <3>1, Zenon DEF HeaderInvalid
    <3> QED
      BY <3>2, Zenon DEF HeaderInvalid
  <2> QED
    BY <2>1, <2>2
<1>3. ASSUME NEW i \in DOMAIN headers, NEW j \in DOMAIN headers, i # j
      PROVE  LowerCase(headers[i]) # LowerCase(headers[j])
  <2>1. i \in 1..(j - 1) \/ j \in 1..(i - 1)
    BY <1>1, <1>3
  <2> QED
    BY <1>2, <2>1, Zenon
<1>4. ASSUME NEW i \in DOMAIN headers, NEW j \in DOMAIN headers, i # j
      PROVE  headers[i] # headers[j]
  BY <1>3, <1>4, Zenon
<1> QED
  BY <1>2, <1>3, <1>4, Zenon DEF ColumnsAreGood

\* The columns of a mapping that have a target.
Chosen(mapping) ==
  FlattenSeq([i \in DOMAIN mapping |-> IF mapping[i] # Unmapped THEN <<i>> ELSE <<>>])

LEMMA ChosenAre ==
  ASSUME NEW n \in Nat, NEW mapping \in [1..n -> ToSet(Targets) \cup {Unmapped}]
  PROVE  /\ Chosen(mapping) \in Seq(1..n) /\ Distinct(Chosen(mapping))
         /\ \A k \in 1..Len(Chosen(mapping)) : mapping[Chosen(mapping)[k]] \in ToSet(Targets)
<1> DEFINE ids == [i \in 1..n |-> i]
           K == {i \in 1..n : mapping[i] # Unmapped}
<1>1. ids \in Seq(1..n) /\ Len(ids) = n /\ DOMAIN ids = 1..n /\ \A i \in 1..n : ids[i] = i
  OBVIOUS
<1>2. DOMAIN mapping = 1..n
  OBVIOUS
<1>3. [i \in DOMAIN mapping |-> IF mapping[i] # Unmapped THEN <<i>> ELSE <<>>]
        = [i \in DOMAIN ids |-> IF ids[i] \in K THEN <<ids[i]>> ELSE <<>>]
  <2>1. \A i \in 1..n : i \in K <=> mapping[i] # Unmapped
    OBVIOUS
  <2> HIDE DEF ids, K
  <2> QED
    BY <1>1, <1>2, <2>1, Zenon
<1>4. Chosen(mapping) = Among(ids, K)
  BY <1>3, Zenon DEF Chosen, Among
<1>5. Distinct(ids)
  <2> HIDE DEF ids
  <2> QED
    BY <1>1 DEF Distinct
<1>6. \A i \in K : mapping[i] \in ToSet(Targets)
  OBVIOUS
<1> HIDE DEF ids, K
<1> QED
  BY <1>1, <1>4, <1>5, <1>6, AmongStaysDistinct

LEMMA GoodMapping ==
  ASSUME NEW n \in Nat, NEW mapping \in [1..n -> ToSet(Targets) \cup {Unmapped}],
         mapping # NoMapping,
         \A i, j \in ToSet(Chosen(mapping)) : i # j => mapping[i] # mapping[j]
  PROVE  ColumnsAreGood([k \in DOMAIN Chosen(mapping) |-> mapping[Chosen(mapping)[k]]], mapping)
<1> DEFINE c == Chosen(mapping)
           names == [k \in DOMAIN c |-> mapping[c[k]]]
<1>1. c \in Seq(1..n) /\ Distinct(c) /\ \A k \in 1..Len(c) : mapping[c[k]] \in ToSet(Targets)
  BY ChosenAre
<1>2. DOMAIN c = 1..Len(c) /\ \A k \in 1..Len(c) : c[k] \in ToSet(c)
  <2> HIDE DEF c
  <2> QED
    BY <1>1 DEF ToSet
<1>3. \A i, j \in ToSet(c) : i # j => mapping[i] # mapping[j]
  OBVIOUS
<1> HIDE DEF c
<1>4. ASSUME NEW i \in DOMAIN c PROVE NameIn(Targets, names[i])
  <2>1. names[i] = mapping[c[i]] /\ mapping[c[i]] \in ToSet(Targets)
    BY <1>1, <1>2
  <2> HIDE DEF names
  <2>2. PICK t \in DOMAIN Targets : Targets[t] = names[i]
    BY <2>1 DEF ToSet
  <2> QED
    BY <2>2, Zenon DEF NameIn
<1>5. ASSUME NEW i \in DOMAIN c, NEW j \in DOMAIN c, i # j PROVE names[i] # names[j]
  <2>1. c[i] # c[j]
    BY <1>1, <1>2, <1>5 DEF Distinct
  <2>2. names[i] = mapping[c[i]] /\ names[j] = mapping[c[j]]
    OBVIOUS
  <2> QED
    BY <1>2, <1>3, <2>1, <2>2
<1>6. DOMAIN names = DOMAIN c
  OBVIOUS
<1>7. ColumnsAreGood(names, mapping)
  <2> HIDE DEF names
  <2> QED
    BY <1>4, <1>5, <1>6, Zenon DEF ColumnsAreGood
<1> QED
  BY <1>7 DEF c

LEMMA ResolvesWell ==
  ASSUME NEW headers \in Seq(HeaderName), NEW n \in Nat, NEW mapping \in Mappings(n)
  PROVE  /\ ColumnsAreGood(ColumnNames(Resolve(headers, mapping)), mapping)
         /\ mapping = NoMapping => (Resolve(headers, mapping).refused <=> HeaderInvalid(headers))
<1> DEFINE r == Resolve(headers, mapping)
           c == Chosen(mapping)
<1>1. ColumnsAreGood(ColumnNames(Refused), mapping)
  <2>1. DOMAIN ColumnNames(Refused) = {}
    BY DEF ColumnNames, Refused
  <2> QED
    BY <2>1, Zenon DEF ColumnsAreGood
<1>2. CASE mapping = NoMapping /\ HeaderInvalid(headers)
  <2>1. r = Refused
    BY <1>2, Zenon DEF Resolve
  <2>2. Refused.refused
    BY Zenon DEF Refused
  <2> HIDE DEF r
  <2> QED
    BY <1>1, <1>2, <2>1, <2>2, Zenon DEF r
<1>3. CASE mapping = NoMapping /\ ~HeaderInvalid(headers)
  <2> DEFINE pairs0 == [i \in DOMAIN headers |-> <<i, headers[i]>>]
  <2>1. r = [refused |-> FALSE, columns |-> pairs0]
    BY <1>3, Zenon DEF Resolve
  <2>2. ~r.refused /\ r.columns = pairs0
    <3> DEFINE no == FALSE
    <3>1. r = [refused |-> no, columns |-> pairs0]
      BY <2>1, Zenon
    <3>2. ~no
      OBVIOUS
    <3> HIDE DEF r, no, pairs0
    <3> QED
      BY ONLY <3>1, <3>2
  <2>3. ColumnNames(r) = headers
    <3>1. ColumnNames(r) = [i \in DOMAIN headers |-> headers[i]]
      <4>1. DOMAIN pairs0 = DOMAIN headers /\ \A i \in DOMAIN headers : pairs0[i][2] = headers[i]
        OBVIOUS
      <4> HIDE DEF pairs0, r
      <4> QED
        BY <2>2, <4>1, Zenon DEF ColumnNames
    <3>2. headers = [i \in DOMAIN headers |-> headers[i]]
      OBVIOUS
    <3> QED
      BY <3>1, <3>2, Zenon
  <2>4. ColumnsAreGood(headers, NoMapping)
    BY <1>3, GoodHeader
  <2> HIDE DEF r, pairs0
  <2> QED
    BY <1>3, <2>2, <2>3, <2>4, Zenon DEF r
<1>4. CASE mapping # NoMapping
  <2> DEFINE named == [k \in DOMAIN c |-> <<c[k], mapping[c[k]]>>]
             clash == \E i, j \in ToSet(c) : i # j /\ mapping[i] = mapping[j]
  <2>1. r = Refused \/ (r = [refused |-> FALSE, columns |-> named] /\ ~clash)
    <3>1. (Len(mapping) # Len(headers) \/ c = <<>> \/ clash) => r = Refused
      BY <1>4, Zenon DEF Resolve, Chosen
    <3>2. ~(Len(mapping) # Len(headers) \/ c = <<>> \/ clash) =>
            r = [refused |-> FALSE, columns |-> named]
      BY <1>4, Zenon DEF Resolve, Chosen
    <3> HIDE DEF r, c, named
    <3> QED
      BY <3>1, <3>2
  <2>2. ASSUME r = [refused |-> FALSE, columns |-> named], ~clash
        PROVE  ColumnsAreGood(ColumnNames(r), mapping)
    <3>1. mapping \in [1..n -> ToSet(Targets) \cup {Unmapped}]
      BY <1>4, Zenon DEF Mappings
    <3>2. r.columns = named
      <4> DEFINE no == FALSE
      <4>1. r = [refused |-> no, columns |-> named]
        BY <2>2, Zenon
      <4> HIDE DEF r, no, named
      <4> QED
        BY ONLY <4>1
    <3>3. ColumnNames(r) = [k \in DOMAIN c |-> mapping[c[k]]]
      <4>1. DOMAIN named = DOMAIN c /\ \A k \in DOMAIN c : named[k][2] = mapping[c[k]]
        OBVIOUS
      <4> HIDE DEF named, r, c
      <4> QED
        BY <3>2, <4>1, Zenon DEF ColumnNames
    <3>4. \A i, j \in ToSet(c) : i # j => mapping[i] # mapping[j]
      BY <2>2
    <3>5. ColumnsAreGood([k \in DOMAIN c |-> mapping[c[k]]], mapping)
      BY <1>4, <3>1, <3>4, GoodMapping
    <3> QED
      BY <3>3, <3>5, Zenon
  <2>3. r = Refused => ColumnsAreGood(ColumnNames(r), mapping)
    BY <1>1, Zenon
  <2> HIDE DEF r, clash, named
  <2> QED
    BY <1>4, <2>1, <2>2, <2>3, Zenon DEF r
<1> QED
  BY <1>2, <1>3, <1>4

LEMMA HeadersAre ==
  ASSUME NEW rows \in Seq(CsvRow), NEW hasHeader \in BOOLEAN, NEW n \in Nat,
         NEW mapping \in Mappings(n)
  PROVE  /\ Headers(rows, hasHeader, mapping, Targets) \in Seq(HeaderName)
         /\ rows # <<>> => Headers(rows, hasHeader, mapping, <<>>)
                             = Headers(rows, hasHeader, mapping, Targets)
         /\ rows = <<>> => Headers(rows, hasHeader, mapping, <<>>) = <<>>
         /\ DataRows(rows, hasHeader) \in Seq(CsvRow)
         /\ rows = <<>> => DataRows(rows, hasHeader) = <<>>
<1> DEFINE H(ofEmpty) == Headers(rows, hasHeader, mapping, ofEmpty)
<1>1. CASE rows = <<>>
  <2>1. H(Targets) = Targets /\ H(<<>>) = <<>>
    BY <1>1, Zenon DEF Headers
  <2>2. Targets \in Seq(HeaderName)
    <3>1. Targets \in Seq(Seq(Character))
      BY CsvAssumption
    <3> DEFINE C == Seq(Character)
               D == Seq(Nat)
    <3>2. Targets \in Seq(C)
      BY <3>1
    <3> HIDE DEF C, D
    <3>3. Targets \in Seq(C \cup D)
      BY <3>2
    <3> QED
      BY <3>3 DEF C, D, HeaderName
  <2>3. DataRows(rows, hasHeader) = rows
    BY <1>1, Zenon DEF DataRows
  <2> QED
    BY <1>1, <2>1, <2>2, <2>3, Zenon
<1>2. CASE rows # <<>>
  <2> DEFINE one == rows[1]
             numbers == [i \in DOMAIN one |-> <<i>>]
  <2>1. one \in CsvRow
    BY <1>2
  <2>2. H(<<>>) = H(Targets) /\ H(Targets) \in {one, numbers, Targets}
    <3>1. CASE hasHeader
      <4>1. H(<<>>) = one /\ H(Targets) = one
        BY <1>2, <3>1, Zenon DEF Headers
      <4> QED
        BY <4>1, Zenon
    <3>2. CASE ~hasHeader /\ mapping # NoMapping
      <4>1. H(<<>>) = numbers /\ H(Targets) = numbers
        BY <1>2, <3>2, Zenon DEF Headers
      <4> QED
        BY <4>1, Zenon
    <3>3. CASE ~hasHeader /\ mapping = NoMapping
      <4>1. H(<<>>) = Targets /\ H(Targets) = Targets
        BY <1>2, <3>3, Zenon DEF Headers
      <4> QED
        BY <4>1, Zenon
    <3> QED
      BY <3>1, <3>2, <3>3, Zenon
  <2>3. one \in Seq(HeaderName) /\ numbers \in Seq(HeaderName) /\ Targets \in Seq(HeaderName)
    <3> DEFINE C == Seq(Character)
               D == Seq(Nat)
    <3>1. one \in Seq(C) /\ Targets \in Seq(C)
      BY <2>1, CsvAssumption DEF CsvRow
    <3>2. DOMAIN one = 1..Len(one) /\ Len(one) \in Nat
      <4> HIDE DEF one, C
      <4> QED
        BY <3>1
    <3>3. numbers \in Seq(D)
      <4> HIDE DEF one
      <4>1. \A i \in 1..Len(one) : <<i>> \in Seq(Nat)
        BY <3>2
      <4> QED
        BY <3>2, <4>1
    <3> HIDE DEF C, D, one, numbers
    <3>4. one \in Seq(C \cup D) /\ numbers \in Seq(C \cup D) /\ Targets \in Seq(C \cup D)
      BY <3>1, <3>3
    <3> QED
      BY <3>4 DEF C, D, HeaderName
  <2>4. DataRows(rows, hasHeader) \in {Tail(rows), rows}
    BY <1>2, Zenon DEF DataRows
  <2>5. Tail(rows) \in Seq(CsvRow)
    BY <1>2
  <2> QED
    <3> HIDE DEF one, numbers
    <3> QED
      BY <1>2, <2>2, <2>3, <2>4, <2>5, Zenon
<1> QED
  BY <1>1, <1>2

\* The rows of a preview are those of the file if it shows that no more follow.
ShownRows(data, sampleOnly) ==
  IF sampleOnly /\ Len(data) > SampleRows THEN SubSeq(data, 1, SampleRows) ELSE data
Found(headers, seen, mapping) ==
  IF mapping = NoMapping /\ HeaderInvalid(headers) THEN {} ELSE OfWidth(Len(headers), seen)

LEMMA PreviewIs ==
  ASSUME NEW rows, NEW hasHeader, NEW mapping, NEW sampleOnly \in BOOLEAN,
         DataRows(rows, hasHeader) \in Seq(CsvRow)
  PROVE  LET p == Preview(rows, hasHeader, mapping, sampleOnly)
             data == DataRows(rows, hasHeader)
             seen == ShownRows(data, sampleOnly)
             valid == Found(Headers(rows, hasHeader, mapping, <<>>), seen, mapping)
         IN /\ p.totalRows = Len(seen) /\ p.validRows = Cardinality(valid)
            /\ p.canImport <=> valid # {}
            /\ ~p.hasMore => seen = data
<1> DEFINE p == Preview(rows, hasHeader, mapping, sampleOnly)
           data == DataRows(rows, hasHeader)
           seen == ShownRows(data, sampleOnly)
           valid == Found(Headers(rows, hasHeader, mapping, <<>>), seen, mapping)
           total == Len(seen)
           count == Cardinality(valid)
           can == valid # {}
           more == Len(seen) < Len(data)
<1>1. p = [totalRows |-> total, validRows |-> count, canImport |-> can, hasMore |-> more]
  BY Zenon DEF Preview, ShownRows, Found
<1>2. p.totalRows = total /\ p.validRows = count /\ p.canImport = can /\ p.hasMore = more
  <2> HIDE DEF p, total, count, can, more
  <2> QED
    BY ONLY <1>1
<1>3. can <=> valid # {}
  OBVIOUS
<1>4. ~more => seen = data
  <2> SUFFICES ASSUME seen # data PROVE more
    OBVIOUS
  <2>1. Len(data) > SampleRows /\ seen = SubSeq(data, 1, SampleRows)
    BY Zenon DEF ShownRows
  <2>2. SampleRows \in Nat
    BY CsvAssumption
  <2>3. data \in Seq(CsvRow)
    OBVIOUS
  <2> HIDE DEF data, seen
  <2>4. Len(SubSeq(data, 1, SampleRows)) = SampleRows /\ Len(data) \in Nat
    BY <2>1, <2>2, <2>3
  <2> QED
    BY <2>1, <2>2, <2>4
<1>5. (p.canImport <=> can) /\ (p.hasMore <=> more)
  BY <1>2, Zenon
<1> HIDE DEF p, total, count, can, more, seen, data, valid
<1>6. /\ p.totalRows = Len(seen) /\ p.validRows = Cardinality(valid)
      /\ p.canImport <=> valid # {}
      /\ ~p.hasMore => seen = data
  BY <1>2, <1>3, <1>4, <1>5, Zenon DEF total, count
<1> QED
  BY <1>6, Zenon DEF p, seen, data, valid

\* An import that is not refused offers every row that is as wide as the header.
LEMMA ImportIs ==
  ASSUME NEW rows, NEW hasHeader, NEW mapping, NEW headers \in Seq(HeaderName),
         headers = Headers(rows, hasHeader, mapping, Targets),
         NEW data \in Seq(CsvRow), data = DataRows(rows, hasHeader)
  PROVE  LET i == Import(rows, hasHeader, mapping, TRUE)
             r == Resolve(headers, mapping)
         IN /\ i.refused <=> r.refused
            /\ i.columns = ColumnNames(r)
            /\ ~r.refused => Len(i.offered) = Cardinality(OfWidth(Len(headers), data))
<1> DEFINE K == {cells \in CsvRow : Len(cells) = Len(headers)}
           whole == Among(data, K)
           r == Resolve(headers, mapping)
           i == Import(rows, hasHeader, mapping, TRUE)
           values(q) == [k \in DOMAIN r.columns |-> Parameter(whole[q][r.columns[k][1]], TRUE)]
           offers == [q \in DOMAIN whole |-> values(q)]
           given == IF r.refused THEN <<>> ELSE offers
           why == r.refused
           names == ColumnNames(r)
<1>1. FlattenSeq([q \in DOMAIN data |-> IF Len(data[q]) = Len(headers) THEN <<data[q]>> ELSE <<>>])
        = whole
  <2>1. \A q \in DOMAIN data : data[q] \in K <=> Len(data[q]) = Len(headers)
    OBVIOUS
  <2> HIDE DEF K
  <2>2. [q \in DOMAIN data |-> IF Len(data[q]) = Len(headers) THEN <<data[q]>> ELSE <<>>]
          = [q \in DOMAIN data |-> IF data[q] \in K THEN <<data[q]>> ELSE <<>>]
    BY <2>1, Zenon
  <2> QED
    BY <2>2, Zenon DEF Among
<1>2. i = Offered(whole, r, TRUE)
  <2> HIDE DEF whole, r
  <2> QED
    BY <1>1, Zenon DEF Import, r
<1>3. i = [refused |-> why, columns |-> names, offered |-> given]
  <2> HIDE DEF i, r, whole
  <2> QED
    BY <1>2, Zenon DEF Offered, ColumnNames
<1>4. i.refused = why /\ i.columns = names /\ i.offered = given
  <2> HIDE DEF i, why, names, given
  <2> QED
    BY ONLY <1>3
<1>5. ~why => given = offers
  OBVIOUS
<1>6. whole \in Seq(CsvRow)
  BY AmongStaysDistinct
<1>7. Len(offers) = Len(whole)
  <2> HIDE DEF whole, values
  <2>1. DOMAIN whole = 1..Len(whole) /\ Len(whole) \in Nat
    BY <1>6
  <2>2. DOMAIN offers = 1..Len(whole)
    BY <2>1
  <2> HIDE DEF offers
  <2> QED
    BY <2>1, <2>2
<1>8. Len(whole) = Cardinality(OfWidth(Len(headers), data))
  <2>1. {q \in DOMAIN data : data[q] \in K} = OfWidth(Len(headers), data)
    BY DEF OfWidth
  <2> HIDE DEF K
  <2>2. Len(whole) = Cardinality({q \in DOMAIN data : data[q] \in K})
    BY AmongCounts
  <2> QED
    BY <2>1, <2>2, Zenon
<1> HIDE DEF i, offers, whole, given, values, r
<1>9. i.refused <=> r.refused
  BY <1>4, Zenon
<1> HIDE DEF why
<1>10. ~r.refused => Len(i.offered) = Cardinality(OfWidth(Len(headers), data))
  BY <1>4, <1>5, <1>7, <1>8, Zenon DEF why
<1> QED
  BY <1>4, <1>9, <1>10, Zenon DEF i, r

LEMMA RowsAgree ==
  ASSUME NEW rows \in Seq(CsvRow)
  PROVE  AgreeOnRows(rows)
<1>1. (IF rows = <<>> THEN 0 ELSE Len(rows[1])) \in Nat
  <2>1. ASSUME rows # <<>> PROVE Len(rows[1]) \in Nat
    <3>1. rows[1] \in CsvRow
      BY <2>1
    <3> QED
      BY <3>1 DEF CsvRow
  <2> QED
    BY <2>1
<1>2. ASSUME NEW n \in Nat, NEW hasHeader \in BOOLEAN, NEW sampleOnly \in BOOLEAN,
             NEW mapping \in Mappings(n)
      PROVE  AgreeOn(DataRows(rows, hasHeader), Preview(rows, hasHeader, mapping, sampleOnly),
                     Import(rows, hasHeader, mapping, TRUE), mapping)
  <2> DEFINE data == DataRows(rows, hasHeader)
             headers == Headers(rows, hasHeader, mapping, Targets)
             shown == Headers(rows, hasHeader, mapping, <<>>)
             p == Preview(rows, hasHeader, mapping, sampleOnly)
             i == Import(rows, hasHeader, mapping, TRUE)
             r == Resolve(headers, mapping)
             seen == ShownRows(data, sampleOnly)
             valid == Found(shown, seen, mapping)
  <2>1. /\ headers \in Seq(HeaderName) /\ data \in Seq(CsvRow)
        /\ rows # <<>> => shown = headers
        /\ rows = <<>> => shown = <<>> /\ data = <<>>
    BY HeadersAre, Zenon
  <2>2. /\ p.totalRows = Len(seen) /\ p.validRows = Cardinality(valid)
        /\ p.canImport <=> valid # {}
        /\ ~p.hasMore => seen = data
    BY <2>1, PreviewIs
  <2>3. /\ i.refused <=> r.refused
        /\ i.columns = ColumnNames(r)
        /\ ~r.refused => Len(i.offered) = Cardinality(OfWidth(Len(headers), data))
    BY <2>1, ImportIs, Zenon
  <2>4. /\ ColumnsAreGood(ColumnNames(r), mapping)
        /\ mapping = NoMapping => (r.refused <=> HeaderInvalid(headers))
    BY <1>2, <2>1, ResolvesWell, Zenon
  <2> HIDE DEF p, i, r
  <2>5. rows = <<>> => valid = {} /\ \A w : OfWidth(w, data) = {}
    <3> SUFFICES ASSUME rows = <<>> PROVE valid = {} /\ \A w : OfWidth(w, data) = {}
      OBVIOUS
    <3>1. \A w : OfWidth(w, <<>>) = {}
      BY DEF OfWidth
    <3>2. seen = <<>>
      <4>1. SampleRows \in Nat /\ Len(<<>>) = 0
        BY CsvAssumption
      <4>2. ~(Len(<<>>) > SampleRows)
        BY <4>1
      <4> QED
        BY <2>1, <4>2, Zenon DEF ShownRows
    <3> QED
      BY <2>1, <3>1, <3>2, Zenon DEF Found
  <2>6. mapping = NoMapping /\ r.refused => valid = {}
    <3> HIDE DEF headers, shown, seen, data
    <3> QED
      BY <2>1, <2>4, <2>5, Zenon DEF Found
  <2>7. ~r.refused /\ ~p.hasMore =>
          p.validRows = Len(i.offered) /\ p.totalRows = Len(data)
    <3> SUFFICES ASSUME ~r.refused, ~p.hasMore
                 PROVE  p.validRows = Len(i.offered) /\ p.totalRows = Len(data)
      OBVIOUS
    <3>1. seen = data
      BY <2>2, Zenon
    <3>2. valid = OfWidth(Len(headers), data)
      <4>1. CASE rows = <<>>
        BY <2>5, <4>1, Zenon
      <4>2. CASE rows # <<>>
        <5>1. ~(mapping = NoMapping /\ HeaderInvalid(headers)) /\ shown = headers
          BY <2>1, <2>4, <4>2, Zenon
        <5> HIDE DEF headers, shown, seen, data
        <5> QED
          BY <3>1, <5>1, Zenon DEF Found
      <4> QED
        BY <4>1, <4>2
    <3> HIDE DEF headers, shown, seen, data, valid
    <3> QED
      BY <2>2, <2>3, <3>1, <3>2, Zenon
  <2> HIDE DEF headers, shown, seen, data, valid
  <2>8. AgreeOn(data, p, i, mapping)
    <3>1. ~i.refused /\ ~p.hasMore =>
            p.validRows = Len(i.offered) /\ p.totalRows = Len(data)
      BY <2>3, <2>7, Zenon
    <3>2. i.refused /\ mapping = NoMapping => ~p.canImport
      BY <2>2, <2>3, <2>6, Zenon
    <3>3. ColumnsAreGood(i.columns, mapping)
      BY <2>3, <2>4, Zenon
    <3> QED
      BY <3>1, <3>2, <3>3, Zenon DEF AgreeOn, ColumnsAreGood
  <2> QED
    BY <2>8, Zenon DEF data, p, i
<1> QED
  BY <1>1, <1>2, Zenon DEF AgreeOnRows

-----------------------------------------------------------------------------
(* The rows of a text.                                                     *)

CutState == [records : Seq(Seq(Character)), record : Seq(Character), quoted : BOOLEAN,
             skipLf : BOOLEAN, tooLong : BOOLEAN]
CutAs(records, record, quoted, skipLf, tooLong) ==
  [records |-> records, record |-> record, quoted |-> quoted, skipLf |-> skipLf,
   tooLong |-> tooLong]

LEMMA CutTypes ==
  ASSUME NEW a \in Seq(Seq(Character)), NEW b \in Seq(Character), NEW c \in BOOLEAN,
         NEW d \in BOOLEAN, NEW e \in BOOLEAN
  PROVE  CutAs(a, b, c, d, e) \in CutState
BY DEF CutAs, CutState

LEMMA BytesStay ==
  ASSUME NEW s \in CutState, NEW c \in Character
  PROVE  TakeByte(s, c) \in CutState
<1> DEFINE yes == TRUE
           no == FALSE
           cr == c = "cr"
           turned == ~s.quoted
           quoted == IF c = "quote" THEN turned ELSE s.quoted
           more == Append(s.records, s.record)
           longer == Append(s.record, c)
           empty == <<>>
<1>1. /\ s.records \in Seq(Seq(Character)) /\ s.record \in Seq(Character)
      /\ s.quoted \in BOOLEAN /\ s.skipLf \in BOOLEAN /\ s.tooLong \in BOOLEAN
      /\ s = CutAs(s.records, s.record, s.quoted, s.skipLf, s.tooLong)
  BY DEF CutState, CutAs
<1>2. /\ yes \in BOOLEAN /\ no \in BOOLEAN /\ cr \in BOOLEAN /\ turned \in BOOLEAN
      /\ empty \in Seq(Character)
  OBVIOUS
<1>3. quoted \in BOOLEAN
  BY <1>1, <1>2, Zenon
<1>4. more \in Seq(Seq(Character)) /\ longer \in Seq(Character)
  BY <1>1
<1> HIDE DEF yes, no, cr, turned, quoted, more, longer, empty
<1>5. \/ TakeByte(s, c) = s
      \/ TakeByte(s, c) = [s EXCEPT !.skipLf = no]
      \/ TakeByte(s, c) = [s EXCEPT !.records = more, !.record = empty, !.skipLf = cr]
      \/ TakeByte(s, c) = [s EXCEPT !.tooLong = yes]
      \/ TakeByte(s, c) = [s EXCEPT !.record = longer, !.skipLf = no, !.quoted = quoted]
  <2> DEFINE lf == ~s.tooLong /\ s.skipLf /\ c = "lf"
             ends == ~s.tooLong /\ ~(s.skipLf /\ c = "lf") /\ ~s.quoted /\ c \in Ends
             goes == ~s.tooLong /\ ~(s.skipLf /\ c = "lf") /\ (s.quoted \/ c \notin Ends)
  <2>1. CASE s.tooLong
    BY <2>1, Zenon DEF TakeByte
  <2>2. CASE lf
    BY <2>2, Zenon DEF TakeByte, no
  <2>3. CASE ends
    BY <2>3, Zenon DEF TakeByte, more, empty, cr
  <2>4. CASE goes /\ Len(s.record) = MaxRecordBytes
    BY <2>4, Zenon DEF TakeByte, yes
  <2>5. CASE goes /\ Len(s.record) # MaxRecordBytes
    BY <2>5, Zenon DEF TakeByte, longer, no, quoted, turned
  <2> QED
    BY <2>1, <2>2, <2>3, <2>4, <2>5, Zenon
<1>6. [s EXCEPT !.skipLf = no] \in CutState
  BY <1>1, <1>2 DEF CutState
<1>7. [s EXCEPT !.records = more, !.record = empty, !.skipLf = cr] \in CutState
  BY ONLY s \in CutState, <1>2, <1>4 DEF CutState
<1>8. [s EXCEPT !.tooLong = yes] \in CutState
  BY <1>1, <1>2 DEF CutState
<1>9. [s EXCEPT !.record = longer, !.skipLf = no, !.quoted = quoted] \in CutState
  BY ONLY s \in CutState, <1>2, <1>3, <1>4 DEF CutState
<1> QED
  BY <1>5, <1>6, <1>7, <1>8, <1>9, Zenon

LEMMA CutStartIs == CutStart \in CutState
<1> DEFINE no == FALSE
<1>1. CutStart = CutAs(<<>>, <<>>, no, no, no)
  BY Zenon DEF CutStart, CutAs
<1>2. no \in BOOLEAN /\ <<>> \in Seq(Character) /\ <<>> \in Seq(Seq(Character))
  OBVIOUS
<1> HIDE DEF no
<1> QED
  BY <1>1, <1>2, CutTypes, Zenon

LEMMA CutsIntoRecords ==
  ASSUME NEW t \in Seq(Character)
  PROVE  Cut(t).records \in Seq(Seq(Character))
<1> DEFINE n == Len(t)
           F == [p \in CutState \X (1..n) |-> TakeByte(p[1], t[p[2]])]
           Finds(g, D) == g = [s \in SUBSET D |->
                                 IF s = {} THEN CutStart
                                 ELSE TakeByte(g[s \ {Max(s)}], t[Max(s)])]
           c == CHOOSE g : Finds(g, DOMAIN t)
<1>1. n \in Nat /\ DOMAIN t = 1..n /\ \A i \in 1..n : t[i] \in Character
  OBVIOUS
<1>2. F \in [CutState \X (1..n) -> CutState]
  BY <1>1, BytesStay
<1>3. \A a \in CutState : \A k \in 1..n : F[<<a, k>>] = TakeByte(a, t[k])
  OBVIOUS
<1> HIDE DEF F
<1>4. PICK g \in [SUBSET (1..n) -> CutState] : Descends(g, F, CutStart, n)
  BY <1>1, <1>2, CutStartIs, FoldingExists
<1>5. ASSUME NEW s \in SUBSET (1..n), s # {}
      PROVE  Max(s) \in 1..n /\ s \ {Max(s)} \in SUBSET (1..n)
  <2>1. Max(s) \in s
    BY <1>1, <1>5, HaveEnds
  <2> QED
    BY <2>1
<1>6. Finds(g, DOMAIN t)
  <2>1. ASSUME NEW s \in SUBSET (1..n), s # {}
        PROVE  g[s] = TakeByte(g[s \ {Max(s)}], t[Max(s)])
    <3>1. g[s] = F[<<g[s \ {Max(s)}], Max(s)>>]
      BY <1>4, <2>1 DEF Descends
    <3>2. g[s \ {Max(s)}] \in CutState /\ Max(s) \in 1..n
      BY <1>5, <2>1
    <3> QED
      BY <1>1, <1>3, <3>1, <3>2
  <2>2. g[{}] = CutStart
    BY <1>4 DEF Descends
  <2> QED
    BY <1>1, <2>1, <2>2
<1>7. Finds(c, DOMAIN t)
  <2> HIDE DEF Finds
  <2> QED
    BY <1>6
<1>8. Cut(t) = LastRecord(c[1..n])
  BY <1>1, Zenon DEF Cut, FoldLeft, MapThenFoldSet
<1> HIDE DEF c
<1>9. /\ c[{}] = CutStart
      /\ \A s \in SUBSET (1..n) : s # {} => c[s] = TakeByte(c[s \ {Max(s)}], t[Max(s)])
  <2>1. c[{}] = CutStart
    BY <1>1, <1>7
  <2>2. ASSUME NEW s \in SUBSET (1..n), s # {}
        PROVE  c[s] = TakeByte(c[s \ {Max(s)}], t[Max(s)])
    BY <1>1, <1>7, <2>2
  <2> QED
    BY <2>1, <2>2
<1> HIDE DEF Finds
<1> DEFINE S == {k \in 0..n : c[1..k] \in CutState}
<1>10. 0 \in S
  <2>1. 1..0 = {} /\ 0 \in 0..n
    BY <1>1
  <2> QED
    BY <1>9, <2>1, CutStartIs
<1>11. ASSUME NEW k \in 1..n, k - 1 \in S PROVE k \in S
  <2>1. c[1..(k - 1)] \in CutState /\ k \in 0..n /\ k \in Nat \ {0} /\ 1..k \in SUBSET (1..n)
    BY <1>1, <1>11
  <2>2. 1..k # {} /\ Max(1..k) = k /\ (1..k) \ {k} = 1..(k - 1)
    BY <2>1, LastPlace
  <2>3. c[1..k] = TakeByte(c[1..(k - 1)], t[k])
    BY <1>9, <2>1, <2>2
  <2>4. t[k] \in Character
    BY <1>1
  <2> QED
    BY <2>1, <2>3, <2>4, BytesStay
<1>12. c[1..n] \in CutState
  <2>1. n \in 0..n
    BY <1>1
  <2>2. n \in S
    <3> HIDE DEF S
    <3> QED
      BY <1>1, <1>10, <1>11, <2>1, FromTheLeft
  <2> QED
    BY <2>2
<1> DEFINE end == c[1..n]
           all == IF end.record # <<>> /\ ~end.tooLong
                  THEN Append(end.records, end.record) ELSE end.records
           long == end.tooLong
<1>13. LastRecord(end) = [records |-> all, tooLong |-> long]
  BY Zenon DEF LastRecord
<1>14. end.records \in Seq(Seq(Character)) /\ end.record \in Seq(Character)
  BY <1>12 DEF CutState
<1>15. Append(end.records, end.record) \in Seq(Seq(Character))
  BY <1>14
<1>16. all \in Seq(Seq(Character))
  BY <1>14, <1>15, Zenon
<1>17. LastRecord(end).records = all
  <2> HIDE DEF all, long, end
  <2> QED
    BY ONLY <1>13
<1> HIDE DEF all
<1> QED
  BY <1>8, <1>16, <1>17, Zenon

ParseState == [rows : Seq(CsvRow), row : CsvRow, cell : Seq(Character), quoted : BOOLEAN,
               closed : BOOLEAN, started : BOOLEAN, skip : BOOLEAN, failed : BOOLEAN]
\* Something has been read: it began a row, ended one or failed.
Begun == {p \in ParseState : p.failed \/ p.started \/ p.rows # <<>>}

LEMMA CellEnds ==
  ASSUME NEW p \in ParseState
  PROVE  /\ EndCell(p) \in ParseState /\ EndCell(p).rows = p.rows
         /\ EndCell(p).started = p.started /\ EndCell(p).failed = p.failed
<1> DEFINE no == FALSE
           longer == Append(p.row, p.cell)
           empty == <<>>
<1>1. EndCell(p) = [p EXCEPT !.row = longer, !.cell = empty, !.closed = no]
  BY Zenon DEF EndCell
<1>2. p.row \in CsvRow /\ p.cell \in Seq(Character)
  BY DEF ParseState
<1>3. longer \in CsvRow /\ empty \in Seq(Character) /\ no \in BOOLEAN
  BY <1>2 DEF CsvRow
<1> HIDE DEF no, longer, empty
<1> QED
  BY ONLY p \in ParseState, <1>1, <1>3 DEF ParseState

LEMMA RowEnds ==
  ASSUME NEW p \in ParseState
  PROVE  /\ EndRow(p) \in ParseState /\ EndRow(p).rows \in Seq(CsvRow) \ {<<>>}
         /\ EndRow(p).failed = p.failed
<1> DEFINE no == FALSE
           e == EndCell(p)
           rows == Append(e.rows, e.row)
           empty == <<>>
<1>1. EndRow(p) = [e EXCEPT !.rows = rows, !.row = empty, !.started = no]
  BY Zenon DEF EndRow
<1>2. e \in ParseState /\ e.failed = p.failed
  BY CellEnds
<1> HIDE DEF e
<1>3. e.rows \in Seq(CsvRow) /\ e.row \in CsvRow
  BY <1>2 DEF ParseState
<1>4. rows \in Seq(CsvRow) \ {<<>>} /\ empty \in CsvRow /\ no \in BOOLEAN
  <2>1. rows \in Seq(CsvRow) /\ rows # <<>>
    BY <1>3
  <2>2. empty \in CsvRow /\ no \in BOOLEAN
    BY DEF CsvRow
  <2> QED
    BY <2>1, <2>2
<1> HIDE DEF no, rows, empty
<1> QED
  BY ONLY <1>1, <1>2, <1>4 DEF ParseState

LEMMA CharactersStay ==
  ASSUME NEW p \in ParseState, NEW c \in Character, NEW next, NEW d
  PROVE  ParseCharacter(p, c, next, d) \in Begun
<1> DEFINE yes == TRUE
           no == FALSE
           r == ParseCharacter(p, c, next, d)
           q == [p EXCEPT !.started = yes]
           longer == Append(q.cell, c)
           isLf == next = "lf"
<1>0. yes \in BOOLEAN /\ no \in BOOLEAN /\ isLf \in BOOLEAN /\ yes
  OBVIOUS
<1>1. \/ r = [q EXCEPT !.failed = yes]
      \/ r = [q EXCEPT !.cell = longer, !.skip = yes]
      \/ r = [q EXCEPT !.quoted = no, !.closed = yes]
      \/ r = [q EXCEPT !.quoted = yes]
      \/ r = EndCell(q)
      \/ r = EndRow(q)
      \/ r = [EndRow(q) EXCEPT !.skip = isLf]
      \/ r = [q EXCEPT !.cell = longer]
  <2> DEFINE g1 == p.closed /\ c \notin {d} \cup Ends
             g2 == ~p.closed /\ c = "quote" /\ p.quoted /\ next = "quote"
             g3 == ~p.closed /\ c = "quote" /\ p.quoted /\ next # "quote"
             g4 == ~p.closed /\ c = "quote" /\ ~p.quoted /\ p.cell = <<>>
             g5 == ~p.closed /\ c = "quote" /\ ~p.quoted /\ p.cell # <<>>
             g6 == c = d /\ ~p.quoted
             g7 == c = "lf" /\ ~p.quoted
             g8 == c = "cr" /\ ~p.quoted
  <2>1. r = CASE g1 -> [q EXCEPT !.failed = yes]
              [] g2 -> [q EXCEPT !.cell = longer, !.skip = yes]
              [] g3 -> [q EXCEPT !.quoted = no, !.closed = yes]
              [] g4 -> [q EXCEPT !.quoted = yes]
              [] g5 -> [q EXCEPT !.failed = yes]
              [] g6 -> EndCell(q)
              [] g7 -> EndRow(q)
              [] g8 -> [EndRow(q) EXCEPT !.skip = isLf]
              [] OTHER -> [q EXCEPT !.cell = longer]
    BY Zenon DEF ParseCharacter
  <2> DEFINE o1 == [q EXCEPT !.failed = yes]
             o2 == [q EXCEPT !.cell = longer, !.skip = yes]
             o3 == [q EXCEPT !.quoted = no, !.closed = yes]
             o4 == [q EXCEPT !.quoted = yes]
             o6 == EndCell(q)
             o7 == EndRow(q)
             o8 == [EndRow(q) EXCEPT !.skip = isLf]
             o9 == [q EXCEPT !.cell = longer]
  <2>2. r = CASE g1 -> o1 [] g2 -> o2 [] g3 -> o3 [] g4 -> o4 [] g5 -> o1 [] g6 -> o6
              [] g7 -> o7 [] g8 -> o8 [] OTHER -> o9
    BY <2>1, Zenon
  <2> HIDE DEF g1, g2, g3, g4, g5, g6, g7, g8, o1, o2, o3, o4, o6, o7, o8, o9, r
  <2>3. r \in {o1, o2, o3, o4, o6, o7, o8, o9}
    BY ONLY <2>2
  <2> QED
    BY <2>3, Zenon DEF o1, o2, o3, o4, o6, o7, o8, o9
<1> HIDE DEF yes, no, isLf, r
<1>2. q \in ParseState /\ q.started = yes
  BY ONLY p \in ParseState, <1>0 DEF ParseState
<1> HIDE DEF q
<1>3. longer \in Seq(Character)
  <2>1. q.cell \in Seq(Character)
    BY <1>2 DEF ParseState
  <2> QED
    BY <2>1
<1> HIDE DEF longer
<1>4. ASSUME NEW s \in ParseState, s.started = yes PROVE s \in Begun
  <2>1. s.started
    BY <1>0, <1>4, Zenon
  <2> QED
    BY <1>4, <2>1, Zenon DEF Begun
<1>5. ASSUME NEW s \in ParseState, s.rows # <<>> PROVE s \in Begun
  BY <1>5, Zenon DEF Begun
<1>6. \A s : s = [q EXCEPT !.failed = yes] => s \in ParseState /\ s.started = yes
  BY ONLY <1>0, <1>2 DEF ParseState
<1>7. \A s : s = [q EXCEPT !.cell = longer, !.skip = yes] => s \in ParseState /\ s.started = yes
  BY ONLY <1>0, <1>2, <1>3 DEF ParseState
<1>8. \A s : s = [q EXCEPT !.quoted = no, !.closed = yes] => s \in ParseState /\ s.started = yes
  BY ONLY <1>0, <1>2 DEF ParseState
<1>9. \A s : s = [q EXCEPT !.quoted = yes] => s \in ParseState /\ s.started = yes
  BY ONLY <1>0, <1>2 DEF ParseState
<1>10. EndCell(q) \in ParseState /\ EndCell(q).started = yes
  BY <1>2, CellEnds
<1>11. EndRow(q) \in ParseState /\ EndRow(q).rows # <<>>
  BY <1>2, RowEnds
<1>12. \A s : s = [EndRow(q) EXCEPT !.skip = isLf] => s \in ParseState /\ s.rows # <<>>
  <2> DEFINE e == EndRow(q)
  <2>1. e \in ParseState /\ e.rows # <<>>
    BY <1>11
  <2> HIDE DEF e
  <2>2. \A s : s = [e EXCEPT !.skip = isLf] => s \in ParseState /\ s.rows # <<>>
    BY ONLY <1>0, <2>1 DEF ParseState
  <2> QED
    BY <2>2 DEF e
<1>13. \A s : s = [q EXCEPT !.cell = longer] => s \in ParseState /\ s.started = yes
  BY ONLY <1>2, <1>3 DEF ParseState
<1>14. r \in ParseState /\ (r.started = yes \/ r.rows # <<>>)
  BY <1>1, <1>6, <1>7, <1>8, <1>9, <1>10, <1>11, <1>12, <1>13, Zenon
<1>15. r \in Begun
  BY <1>4, <1>5, <1>14, Zenon
<1> QED
  BY <1>15 DEF r

\* One place of the text.
ParsePlace(t, d, p, i) ==
  IF p.failed THEN p
  ELSE IF p.skip THEN [p EXCEPT !.skip = FALSE]
  ELSE ParseCharacter(p, t[i], IF i < Len(t) THEN t[i + 1] ELSE "end", d)

Parsing == {p \in ParseState : p \in Begun \/ ~p.skip}

LEMMA PlacesStay ==
  ASSUME NEW t \in Seq(Character), NEW i \in 1..Len(t), NEW d, NEW p \in Parsing
  PROVE  ParsePlace(t, d, p, i) \in Begun /\ ParsePlace(t, d, p, i) \in Parsing
<1>1. p \in ParseState /\ t[i] \in Character
  BY DEF Parsing
<1>2. CASE p.failed
  <2>1. ParsePlace(t, d, p, i) = p
    BY <1>2, Zenon DEF ParsePlace
  <2> QED
    BY <1>1, <1>2, <2>1, Zenon DEF Begun, Parsing
<1>3. CASE ~p.failed /\ p.skip
  <2> DEFINE no == FALSE
             q == [p EXCEPT !.skip = no]
  <2>1. ParsePlace(t, d, p, i) = q
    BY <1>3, Zenon DEF ParsePlace
  <2>2. p \in Begun
    BY <1>3, Zenon DEF Parsing
  <2>3. no \in BOOLEAN
    OBVIOUS
  <2> HIDE DEF no
  <2>4. q \in ParseState /\ q.failed = p.failed /\ q.started = p.started /\ q.rows = p.rows
    BY ONLY <1>1, <2>3 DEF ParseState
  <2> HIDE DEF q
  <2>5. q \in Begun
    BY <2>2, <2>4, Zenon DEF Begun
  <2> QED
    BY <2>1, <2>4, <2>5, Zenon DEF Parsing
<1>4. CASE ~p.failed /\ ~p.skip
  <2> DEFINE next == IF i < Len(t) THEN t[i + 1] ELSE "end"
  <2>1. ParsePlace(t, d, p, i) = ParseCharacter(p, t[i], next, d)
    BY <1>4, Zenon DEF ParsePlace
  <2> HIDE DEF next
  <2>2. ParseCharacter(p, t[i], next, d) \in Begun
    BY <1>1, CharactersStay
  <2> QED
    BY <2>1, <2>2, Zenon DEF Begun, Parsing
<1> QED
  BY <1>2, <1>3, <1>4

LEMMA ParseStartIs == ParseStart \in Parsing
<1> DEFINE no == FALSE
           empty == <<>>
<1>1. ParseStart = [rows |-> empty, row |-> empty, cell |-> empty, quoted |-> no, closed |-> no,
                    started |-> no, skip |-> no, failed |-> no]
  BY Zenon DEF ParseStart
<1>2. /\ no \in BOOLEAN /\ empty \in Seq(Character) /\ empty \in CsvRow /\ empty \in Seq(CsvRow)
      /\ ~no
  BY DEF CsvRow
<1> HIDE DEF no, empty
<1>3. ParseStart \in ParseState /\ ParseStart.skip = no
  BY ONLY <1>1, <1>2 DEF ParseState
<1> QED
  BY <1>2, <1>3, Zenon DEF Parsing

\* Parsing a text that is not empty and does not fail gives a row.
LEMMA ParsesIntoRows ==
  ASSUME NEW t \in Seq(Character), t # <<>>, NEW d, ~Parse(t, d).failed
  PROVE  Parse(t, d).rows \in Seq(CsvRow) /\ Last(Parse(t, d).rows) \in CsvRow
<1> DEFINE n == Len(t)
           F == [p \in Parsing \X (1..n) |-> ParsePlace(t, d, p[1], p[2])]
           Finds(g, D) == g = [s \in SUBSET D |->
                                 IF s = {} THEN ParseStart
                                 ELSE ParsePlace(t, d, g[s \ {Max(s)}], [i \in DOMAIN t |-> i][Max(s)])]
           c == CHOOSE g : Finds(g, DOMAIN t)
<1>1. n \in Nat \ {0} /\ DOMAIN t = 1..n
  OBVIOUS
<1>2. F \in [Parsing \X (1..n) -> Parsing]
  BY PlacesStay
<1>3. \A a \in Parsing : \A k \in 1..n : F[<<a, k>>] = ParsePlace(t, d, a, k)
  OBVIOUS
<1> HIDE DEF F
<1>4. PICK g \in [SUBSET (1..n) -> Parsing] : Descends(g, F, ParseStart, n)
  BY <1>1, <1>2, ParseStartIs, FoldingExists
<1>5. ASSUME NEW s \in SUBSET (1..n), s # {}
      PROVE  Max(s) \in 1..n /\ s \ {Max(s)} \in SUBSET (1..n)
              /\ [i \in 1..n |-> i][Max(s)] = Max(s)
  <2>1. Max(s) \in s
    BY <1>1, <1>5, HaveEnds
  <2> QED
    BY <2>1
<1>6. Finds(g, DOMAIN t)
  <2>1. ASSUME NEW s \in SUBSET (1..n), s # {}
        PROVE  g[s] = ParsePlace(t, d, g[s \ {Max(s)}], [i \in DOMAIN t |-> i][Max(s)])
    <3>1. g[s] = F[<<g[s \ {Max(s)}], Max(s)>>]
      BY <1>4, <2>1 DEF Descends
    <3>2. g[s \ {Max(s)}] \in Parsing /\ Max(s) \in 1..n /\ [i \in 1..n |-> i][Max(s)] = Max(s)
      BY <1>5, <2>1
    <3> QED
      BY <1>1, <1>3, <3>1, <3>2
  <2>2. g[{}] = ParseStart
    BY <1>4 DEF Descends
  <2> QED
    BY <1>1, <2>1, <2>2
<1>7. Finds(c, DOMAIN t)
  <2> HIDE DEF Finds
  <2> QED
    BY <1>6
<1>8. Parse(t, d) = Parsed(c[1..n])
  BY <1>1, Zenon DEF Parse, FoldLeftDomain, FoldLeft, MapThenFoldSet, ParsePlace
<1> HIDE DEF c
<1>9. /\ c[{}] = ParseStart
      /\ \A s \in SUBSET (1..n) : s # {} => c[s] = ParsePlace(t, d, c[s \ {Max(s)}], Max(s))
  <2>1. c[{}] = ParseStart
    BY <1>1, <1>7
  <2>2. ASSUME NEW s \in SUBSET (1..n), s # {}
        PROVE  c[s] = ParsePlace(t, d, c[s \ {Max(s)}], Max(s))
    <3>1. c[s] = ParsePlace(t, d, c[s \ {Max(s)}], [i \in 1..n |-> i][Max(s)])
      BY <1>1, <1>7, <2>2
    <3> QED
      BY <1>5, <2>2, <3>1
  <2> QED
    BY <2>1, <2>2
<1> HIDE DEF Finds
<1> DEFINE S == {k \in 0..n : c[1..k] \in Parsing /\ (k # 0 => c[1..k] \in Begun)}
<1>10. 0 \in S
  <2>1. 1..0 = {} /\ 0 \in 0..n
    BY <1>1
  <2> QED
    BY <1>9, <2>1, ParseStartIs
<1>11. ASSUME NEW k \in 1..n, k - 1 \in S PROVE k \in S
  <2>1. c[1..(k - 1)] \in Parsing /\ k \in 0..n /\ k \in Nat \ {0} /\ 1..k \in SUBSET (1..n)
    BY <1>1, <1>11
  <2>2. 1..k # {} /\ Max(1..k) = k /\ (1..k) \ {k} = 1..(k - 1)
    BY <2>1, LastPlace
  <2>3. c[1..k] = ParsePlace(t, d, c[1..(k - 1)], k)
    BY <1>9, <2>1, <2>2
  <2>4. c[1..k] \in Begun /\ c[1..k] \in Parsing
    BY <2>1, <2>3, PlacesStay
  <2> QED
    BY <2>1, <2>4
<1>12. c[1..n] \in Begun
  <2>1. n \in 0..n
    BY <1>1
  <2>2. n \in S
    <3> HIDE DEF S
    <3> QED
      BY <1>1, <1>10, <1>11, <2>1, FromTheLeft
  <2> QED
    BY <1>1, <2>2
<1> DEFINE end == c[1..n]
           all == IF end.started /\ ~end.failed THEN EndRow(end).rows ELSE end.rows
           fails == end.failed \/ end.quoted
<1>13. Parse(t, d) = [rows |-> all, failed |-> fails]
  BY <1>8, Zenon DEF Parsed
<1> HIDE DEF end
<1>14. end \in ParseState /\ (end.failed \/ end.started \/ end.rows # <<>>)
  BY <1>12, Zenon DEF Begun, end
<1>15. EndRow(end).rows \in Seq(CsvRow) \ {<<>>} /\ end.rows \in Seq(CsvRow)
  <2>1. end.rows \in Seq(CsvRow)
    BY <1>14 DEF ParseState
  <2> QED
    BY <1>14, <2>1, RowEnds
<1>16. Parse(t, d).rows = all /\ Parse(t, d).failed = fails
  <2> DEFINE r == Parse(t, d)
  <2>1. r = [rows |-> all, failed |-> fails]
    BY <1>13
  <2> HIDE DEF all, fails, r
  <2>2. r.rows = all /\ r.failed = fails
    BY ONLY <2>1
  <2> QED
    BY <2>2 DEF r
<1>17. ~fails
  BY <1>16, Zenon
<1>18. ~end.failed
  BY <1>17, Zenon
<1>19. all \in Seq(CsvRow) /\ all # <<>>
  <2>1. CASE end.started
    <3>1. all = EndRow(end).rows
      BY <1>18, <2>1, Zenon
    <3> HIDE DEF all
    <3> QED
      BY <1>15, <3>1
  <2>2. CASE ~end.started
    <3>1. all = end.rows /\ end.rows # <<>>
      BY <1>14, <1>18, <2>2, Zenon
    <3> HIDE DEF all
    <3> QED
      BY <1>15, <3>1
  <2> QED
    BY <2>1, <2>2
<1> HIDE DEF all
<1>20. Last(all) \in CsvRow
  BY <1>19 DEF Last
<1> QED
  BY <1>16, <1>19, <1>20, Zenon

LEMMA ReadsRows ==
  ASSUME NEW t \in Seq(Character), NEW d
  PROVE  Read(t, d).rows \in Seq(CsvRow)
<1> DEFINE cut == Cut(t)
           recs == cut.records
           ended(i) == Append(Unmarked(recs[i], i), "lf")
           all == [i \in DOMAIN recs |-> Parse(ended(i), d)]
           bad == {i \in DOMAIN all : all[i].failed}
           good == {i \in DOMAIN all : \A j \in bad : i < j}
           given == [i \in good |-> Last(all[i].rows)]
           n == Len(recs)
<1>1. recs \in Seq(Seq(Character))
  BY CutsIntoRecords
<1> HIDE DEF recs
<1>2. DOMAIN recs = 1..n /\ n \in Nat /\ \A i \in 1..n : recs[i] \in Seq(Character)
  BY <1>1
<1>3. ASSUME NEW i \in 1..n PROVE ended(i) \in Seq(Character) /\ ended(i) # <<>>
  <2>1. Unmarked(recs[i], i) \in {recs[i], Tail(recs[i])} /\
        (Unmarked(recs[i], i) = Tail(recs[i]) => recs[i] # <<>> \/ Unmarked(recs[i], i) = recs[i])
    BY Zenon DEF Unmarked
  <2>2. recs[i] # <<>> => Tail(recs[i]) \in Seq(Character)
    BY <1>2
  <2>3. Unmarked(recs[i], i) \in Seq(Character)
    BY <1>2, <2>1, <2>2, Zenon
  <2>4. "lf" \in Character
    BY DEF Character
  <2> QED
    BY <2>3, <2>4
<1> HIDE DEF ended
<1>4. DOMAIN all = 1..n /\ \A i \in 1..n : all[i] = Parse(ended(i), d)
  BY <1>2
<1>5. bad \subseteq 1..n /\ good \subseteq 1..n
  BY <1>4
<1>6. ASSUME NEW i \in good PROVE Last(all[i].rows) \in CsvRow
  <2>1. i \in 1..n /\ \A j \in bad : i < j
    BY <1>4
  <2>2. i \notin bad
    <3> HIDE DEF bad, all
    <3> QED
      BY <2>1
  <2>3. ~all[i].failed /\ all[i] = Parse(ended(i), d)
    BY <1>4, <2>1, <2>2, Zenon
  <2>4. ~Parse(ended(i), d).failed
    BY <2>3, Zenon
  <2> HIDE DEF all
  <2>5. Last(Parse(ended(i), d).rows) \in CsvRow
    BY <1>3, <2>1, <2>4, ParsesIntoRows
  <2> QED
    BY <2>3, <2>5, Zenon
<1>7. \E m \in Nat : good = 1..m
  <2>1. CASE bad = {}
    <3>1. good = 1..n
      <4> HIDE DEF all
      <4> QED
        BY <1>4, <2>1
    <3> QED
      BY <1>2, <3>1
  <2>2. CASE bad # {}
    <3> HIDE DEF bad, all
    <3>1. Min(bad) \in bad /\ \A x \in bad : Min(bad) <= x
      BY <1>2, <1>5, <2>2, HaveEnds
    <3> DEFINE b == Min(bad)
    <3> HIDE DEF b
    <3>2. b \in bad /\ b \in 1..n /\ \A x \in bad : x \in Nat /\ b <= x
      <4>1. b \in bad /\ \A x \in bad : b <= x
        BY <3>1 DEF b
      <4>2. \A x \in bad : x \in 1..n
        BY <1>5
      <4> QED
        BY <4>1, <4>2
    <3>3. good = 1..(b - 1)
      BY <1>2, <1>4, <3>2
    <3> QED
      BY <3>2, <3>3
  <2> QED
    BY <2>1, <2>2
<1>8. PICK m \in Nat : good = 1..m
  BY <1>7
<1>9. given \in Seq(CsvRow)
  <2> HIDE DEF good, all
  <2> QED
    BY <1>6, <1>8
<1>10. Read(t, d) = RowsOf(all, cut.tooLong)
  BY Zenon DEF Read, ReadRecords, recs, ended
<1> DEFINE fails == bad # {} \/ cut.tooLong
<1>11. RowsOf(all, cut.tooLong) = [rows |-> given, failed |-> fails]
  <2> HIDE DEF all
  <2> QED
    BY Zenon DEF RowsOf
<1>12. Read(t, d).rows = given
  <2> DEFINE r == Read(t, d)
  <2>1. r = [rows |-> given, failed |-> fails]
    BY <1>10, <1>11, Zenon
  <2> HIDE DEF given, fails, r
  <2>2. r.rows = given
    BY ONLY <2>1
  <2> QED
    BY <2>2 DEF r
<1> QED
  BY <1>9, <1>12, Zenon

-----------------------------------------------------------------------------
(* One character taken by the parser.                                      *)

No == FALSE
Yes == TRUE
ParseAs(rows, row, cell, quoted, closed, started, skip, failed) ==
  [rows |-> rows, row |-> row, cell |-> cell, quoted |-> quoted, closed |-> closed,
   started |-> started, skip |-> skip, failed |-> failed]

LEMMA ParseFields ==
  ASSUME NEW a, NEW b, NEW c, NEW q, NEW l, NEW s, NEW k, NEW f
  PROVE  LET p == ParseAs(a, b, c, q, l, s, k, f)
         IN /\ p.rows = a /\ p.row = b /\ p.cell = c /\ p.quoted = q
            /\ p.closed = l /\ p.started = s /\ p.skip = k /\ p.failed = f
BY DEF ParseAs

\* The states that have these fields are one.
ParseOnly(a, b, c, q, l, s, k, f) ==
  [rows : {a}, row : {b}, cell : {c}, quoted : {q}, closed : {l}, started : {s}, skip : {k},
   failed : {f}]

LEMMA ParseOnlyIs ==
  ASSUME NEW a, NEW b, NEW c, NEW q, NEW l, NEW s, NEW k, NEW f
  PROVE  \A p : p \in ParseOnly(a, b, c, q, l, s, k, f) <=> p = ParseAs(a, b, c, q, l, s, k, f)
BY DEF ParseOnly, ParseAs

WithStarted(p, x) == [p EXCEPT !.started = x]
WithSkip(p, x) == [p EXCEPT !.skip = x]
WithFailed(p, x) == [p EXCEPT !.failed = x]
WithCell(p, x) == [p EXCEPT !.cell = x]
WithQuoted(p, x) == [p EXCEPT !.quoted = x]
WithCellAndSkip(p, x, y) == [p EXCEPT !.cell = x, !.skip = y]
WithQuotedAndClosed(p, x, y) == [p EXCEPT !.quoted = x, !.closed = y]
WithCellEnded(p, x, y, z) == [p EXCEPT !.row = x, !.cell = y, !.closed = z]
WithRowEnded(p, x, y, z) == [p EXCEPT !.rows = x, !.row = y, !.started = z]

LEMMA StartedIs ==
  ASSUME NEW a, NEW b, NEW c, NEW q, NEW l, NEW s, NEW k, NEW f, NEW x
  PROVE  WithStarted(ParseAs(a, b, c, q, l, s, k, f), x) = ParseAs(a, b, c, q, l, x, k, f)
<1> DEFINE p == ParseAs(a, b, c, q, l, s, k, f)
           g == WithStarted(p, x)
<1>1. p \in ParseOnly(a, b, c, q, l, s, k, f)
  BY ParseOnlyIs
<1> HIDE DEF p
<1>2. g \in ParseOnly(a, b, c, q, l, x, k, f)
  BY ONLY <1>1 DEF ParseOnly, WithStarted
<1> HIDE DEF g
<1>3. g = ParseAs(a, b, c, q, l, x, k, f)
  BY ONLY <1>2, ParseOnlyIs
<1> QED
  BY <1>3 DEF p, g

LEMMA SkipIs ==
  ASSUME NEW a, NEW b, NEW c, NEW q, NEW l, NEW s, NEW k, NEW f, NEW x
  PROVE  WithSkip(ParseAs(a, b, c, q, l, s, k, f), x) = ParseAs(a, b, c, q, l, s, x, f)
<1> DEFINE p == ParseAs(a, b, c, q, l, s, k, f)
           g == WithSkip(p, x)
<1>1. p \in ParseOnly(a, b, c, q, l, s, k, f)
  BY ParseOnlyIs
<1> HIDE DEF p
<1>2. g \in ParseOnly(a, b, c, q, l, s, x, f)
  BY ONLY <1>1 DEF ParseOnly, WithSkip
<1> HIDE DEF g
<1>3. g = ParseAs(a, b, c, q, l, s, x, f)
  BY ONLY <1>2, ParseOnlyIs
<1> QED
  BY <1>3 DEF p, g

LEMMA FailedIs ==
  ASSUME NEW a, NEW b, NEW c, NEW q, NEW l, NEW s, NEW k, NEW f, NEW x
  PROVE  WithFailed(ParseAs(a, b, c, q, l, s, k, f), x) = ParseAs(a, b, c, q, l, s, k, x)
<1> DEFINE p == ParseAs(a, b, c, q, l, s, k, f)
           g == WithFailed(p, x)
<1>1. p \in ParseOnly(a, b, c, q, l, s, k, f)
  BY ParseOnlyIs
<1> HIDE DEF p
<1>2. g \in ParseOnly(a, b, c, q, l, s, k, x)
  BY ONLY <1>1 DEF ParseOnly, WithFailed
<1> HIDE DEF g
<1>3. g = ParseAs(a, b, c, q, l, s, k, x)
  BY ONLY <1>2, ParseOnlyIs
<1> QED
  BY <1>3 DEF p, g

LEMMA CellIs ==
  ASSUME NEW a, NEW b, NEW c, NEW q, NEW l, NEW s, NEW k, NEW f, NEW x
  PROVE  WithCell(ParseAs(a, b, c, q, l, s, k, f), x) = ParseAs(a, b, x, q, l, s, k, f)
<1> DEFINE p == ParseAs(a, b, c, q, l, s, k, f)
           g == WithCell(p, x)
<1>1. p \in ParseOnly(a, b, c, q, l, s, k, f)
  BY ParseOnlyIs
<1> HIDE DEF p
<1>2. g \in ParseOnly(a, b, x, q, l, s, k, f)
  BY ONLY <1>1 DEF ParseOnly, WithCell
<1> HIDE DEF g
<1>3. g = ParseAs(a, b, x, q, l, s, k, f)
  BY ONLY <1>2, ParseOnlyIs
<1> QED
  BY <1>3 DEF p, g

LEMMA QuotedIs ==
  ASSUME NEW a, NEW b, NEW c, NEW q, NEW l, NEW s, NEW k, NEW f, NEW x
  PROVE  WithQuoted(ParseAs(a, b, c, q, l, s, k, f), x) = ParseAs(a, b, c, x, l, s, k, f)
<1> DEFINE p == ParseAs(a, b, c, q, l, s, k, f)
           g == WithQuoted(p, x)
<1>1. p \in ParseOnly(a, b, c, q, l, s, k, f)
  BY ParseOnlyIs
<1> HIDE DEF p
<1>2. g \in ParseOnly(a, b, c, x, l, s, k, f)
  BY ONLY <1>1 DEF ParseOnly, WithQuoted
<1> HIDE DEF g
<1>3. g = ParseAs(a, b, c, x, l, s, k, f)
  BY ONLY <1>2, ParseOnlyIs
<1> QED
  BY <1>3 DEF p, g

LEMMA CellAndSkipIs ==
  ASSUME NEW a, NEW b, NEW c, NEW q, NEW l, NEW s, NEW k, NEW f, NEW x, NEW y
  PROVE  WithCellAndSkip(ParseAs(a, b, c, q, l, s, k, f), x, y) = ParseAs(a, b, x, q, l, s, y, f)
<1> DEFINE p == ParseAs(a, b, c, q, l, s, k, f)
           g == WithCellAndSkip(p, x, y)
<1>1. p \in ParseOnly(a, b, c, q, l, s, k, f)
  BY ParseOnlyIs
<1> HIDE DEF p
<1>2. g \in ParseOnly(a, b, x, q, l, s, y, f)
  BY ONLY <1>1 DEF ParseOnly, WithCellAndSkip
<1> HIDE DEF g
<1>3. g = ParseAs(a, b, x, q, l, s, y, f)
  BY ONLY <1>2, ParseOnlyIs
<1> QED
  BY <1>3 DEF p, g

LEMMA QuotedAndClosedIs ==
  ASSUME NEW a, NEW b, NEW c, NEW q, NEW l, NEW s, NEW k, NEW f, NEW x, NEW y
  PROVE  WithQuotedAndClosed(ParseAs(a, b, c, q, l, s, k, f), x, y)
          = ParseAs(a, b, c, x, y, s, k, f)
<1> DEFINE p == ParseAs(a, b, c, q, l, s, k, f)
           g == WithQuotedAndClosed(p, x, y)
<1>1. p \in ParseOnly(a, b, c, q, l, s, k, f)
  BY ParseOnlyIs
<1> HIDE DEF p
<1>2. g \in ParseOnly(a, b, c, x, y, s, k, f)
  BY ONLY <1>1 DEF ParseOnly, WithQuotedAndClosed
<1> HIDE DEF g
<1>3. g = ParseAs(a, b, c, x, y, s, k, f)
  BY ONLY <1>2, ParseOnlyIs
<1> QED
  BY <1>3 DEF p, g

LEMMA CellEndedIs ==
  ASSUME NEW a, NEW b, NEW c, NEW q, NEW l, NEW s, NEW k, NEW f, NEW x, NEW y, NEW z
  PROVE  WithCellEnded(ParseAs(a, b, c, q, l, s, k, f), x, y, z) = ParseAs(a, x, y, q, z, s, k, f)
<1> DEFINE p == ParseAs(a, b, c, q, l, s, k, f)
           g == WithCellEnded(p, x, y, z)
<1>1. p \in ParseOnly(a, b, c, q, l, s, k, f)
  BY ParseOnlyIs
<1> HIDE DEF p
<1>2. g \in ParseOnly(a, x, y, q, z, s, k, f)
  BY ONLY <1>1 DEF ParseOnly, WithCellEnded
<1> HIDE DEF g
<1>3. g = ParseAs(a, x, y, q, z, s, k, f)
  BY ONLY <1>2, ParseOnlyIs
<1> QED
  BY <1>3 DEF p, g

LEMMA RowEndedIs ==
  ASSUME NEW a, NEW b, NEW c, NEW q, NEW l, NEW s, NEW k, NEW f, NEW x, NEW y, NEW z
  PROVE  WithRowEnded(ParseAs(a, b, c, q, l, s, k, f), x, y, z) = ParseAs(x, y, c, q, l, z, k, f)
<1> DEFINE p == ParseAs(a, b, c, q, l, s, k, f)
           g == WithRowEnded(p, x, y, z)
<1>1. p \in ParseOnly(a, b, c, q, l, s, k, f)
  BY ParseOnlyIs
<1> HIDE DEF p
<1>2. g \in ParseOnly(x, y, c, q, l, z, k, f)
  BY ONLY <1>1 DEF ParseOnly, WithRowEnded
<1> HIDE DEF g
<1>3. g = ParseAs(x, y, c, q, l, z, k, f)
  BY ONLY <1>2, ParseOnlyIs
<1> QED
  BY <1>3 DEF p, g

\* One character, after which comes next.
ParseStep(p, x, next, d) ==
  IF p.failed THEN p
  ELSE IF p.skip THEN [p EXCEPT !.skip = FALSE]
  ELSE ParseCharacter(p, x, next, d)

Amid(a, b, c, q, l, s, k) == ParseAs(a, b, c, q, l, s, k, No)

LEMMA AmidFields ==
  ASSUME NEW a, NEW b, NEW c, NEW q, NEW l, NEW s, NEW k
  PROVE  LET p == Amid(a, b, c, q, l, s, k)
         IN /\ p.rows = a /\ p.row = b /\ p.cell = c /\ p.quoted = q
            /\ p.closed = l /\ p.started = s /\ p.skip = k /\ p.failed = No
BY ParseFields DEF Amid

\* Any other character goes to the cell.
LEMMA StepPlain ==
  ASSUME NEW a, NEW b, NEW c, NEW s, NEW next, NEW d, NEW x,
         x \notin {"quote", "lf", "cr"}, x # d
  PROVE  ParseStep(Amid(a, b, c, No, No, s, No), x, next, d)
          = Amid(a, b, Append(c, x), No, No, Yes, No)
<1> DEFINE p == Amid(a, b, c, No, No, s, No)
           q == WithStarted(p, Yes)
           y == Amid(a, b, c, No, No, Yes, No)
<1>1. ~p.failed /\ ~p.skip /\ ~p.closed /\ ~p.quoted
  <2>1. p.failed = No /\ p.skip = No /\ p.closed = No /\ p.quoted = No
        /\ p.cell = c
    BY ONLY AmidFields
  <2> QED
    BY <2>1, Zenon DEF No, Yes
<1>2. q = y
  BY ONLY StartedIs DEF Amid
<1>3. ParseStep(p, x, next, d) = WithCell(q, Append(q.cell, x))
  <2> HIDE DEF p
  <2> QED
    BY <1>1, Zenon
       DEF ParseStep, ParseCharacter, WithStarted, WithCell, Yes, No
<1>4. y.cell = c
  BY ONLY AmidFields
<1>5. WithCell(y, Append(y.cell, x)) = Amid(a, b, Append(c, x), No, No, Yes, No)
  <2>1. WithCell(y, Append(c, x)) = Amid(a, b, Append(c, x), No, No, Yes, No)
    BY ONLY CellIs DEF Amid
  <2> QED
    BY <1>4, <2>1
<1> QED
  BY <1>2, <1>3, <1>5, Zenon

\* A quote at the beginning of a cell opens it.
LEMMA StepOpens ==
  ASSUME NEW a, NEW b, NEW s, NEW next, NEW d,
         d # "quote"
  PROVE  ParseStep(Amid(a, b, <<>>, No, No, s, No), "quote", next, d)
          = Amid(a, b, <<>>, Yes, No, Yes, No)
<1> DEFINE p == Amid(a, b, <<>>, No, No, s, No)
           q == WithStarted(p, Yes)
           y == Amid(a, b, <<>>, No, No, Yes, No)
<1>1. ~p.failed /\ ~p.skip /\ ~p.closed /\ ~p.quoted /\ p.cell = <<>>
  <2>1. p.failed = No /\ p.skip = No /\ p.closed = No /\ p.quoted = No
        /\ p.cell = <<>>
    BY ONLY AmidFields
  <2> QED
    BY <2>1, Zenon DEF No, Yes
<1>2. q = y
  BY ONLY StartedIs DEF Amid
<1>3. ParseStep(p, "quote", next, d) = WithQuoted(q, Yes)
  <2> HIDE DEF p
  <2> QED
    BY <1>1, Zenon
       DEF ParseStep, ParseCharacter, WithStarted, WithQuoted, Yes, No
<1>4. y.cell = <<>>
  BY ONLY AmidFields
<1>5. WithQuoted(y, Yes) = Amid(a, b, <<>>, Yes, No, Yes, No)
  <2>1. WithQuoted(y, Yes) = Amid(a, b, <<>>, Yes, No, Yes, No)
    BY ONLY QuotedIs DEF Amid
  <2> QED
    BY <1>4, <2>1
<1> QED
  BY <1>2, <1>3, <1>5, Zenon

\* Between quotes all but a quote goes to the cell.
LEMMA StepQuoted ==
  ASSUME NEW a, NEW b, NEW c, NEW s, NEW next, NEW d, NEW x,
         x # "quote"
  PROVE  ParseStep(Amid(a, b, c, Yes, No, s, No), x, next, d)
          = Amid(a, b, Append(c, x), Yes, No, Yes, No)
<1> DEFINE p == Amid(a, b, c, Yes, No, s, No)
           q == WithStarted(p, Yes)
           y == Amid(a, b, c, Yes, No, Yes, No)
<1>1. ~p.failed /\ ~p.skip /\ ~p.closed /\ p.quoted
  <2>1. p.failed = No /\ p.skip = No /\ p.closed = No /\ p.quoted = Yes
        /\ p.cell = c
    BY ONLY AmidFields
  <2> QED
    BY <2>1, Zenon DEF No, Yes
<1>2. q = y
  BY ONLY StartedIs DEF Amid
<1>3. ParseStep(p, x, next, d) = WithCell(q, Append(q.cell, x))
  <2> HIDE DEF p
  <2> QED
    BY <1>1, Zenon
       DEF ParseStep, ParseCharacter, WithStarted, WithCell, Yes, No
<1>4. y.cell = c
  BY ONLY AmidFields
<1>5. WithCell(y, Append(y.cell, x)) = Amid(a, b, Append(c, x), Yes, No, Yes, No)
  <2>1. WithCell(y, Append(c, x)) = Amid(a, b, Append(c, x), Yes, No, Yes, No)
    BY ONLY CellIs DEF Amid
  <2> QED
    BY <1>4, <2>1
<1> QED
  BY <1>2, <1>3, <1>5, Zenon

\* So does the first of two quotes.
LEMMA StepDoubled ==
  ASSUME NEW a, NEW b, NEW c, NEW s, NEW next, NEW d,
         next = "quote"
  PROVE  ParseStep(Amid(a, b, c, Yes, No, s, No), "quote", next, d)
          = Amid(a, b, Append(c, "quote"), Yes, No, Yes, Yes)
<1> DEFINE p == Amid(a, b, c, Yes, No, s, No)
           q == WithStarted(p, Yes)
           y == Amid(a, b, c, Yes, No, Yes, No)
<1>1. ~p.failed /\ ~p.skip /\ ~p.closed /\ p.quoted
  <2>1. p.failed = No /\ p.skip = No /\ p.closed = No /\ p.quoted = Yes
        /\ p.cell = c
    BY ONLY AmidFields
  <2> QED
    BY <2>1, Zenon DEF No, Yes
<1>2. q = y
  BY ONLY StartedIs DEF Amid
<1>3. ParseStep(p, "quote", next, d) = WithCellAndSkip(q, Append(q.cell, "quote"), Yes)
  <2> HIDE DEF p
  <2> QED
    BY <1>1, Zenon
       DEF ParseStep, ParseCharacter, WithStarted, WithCellAndSkip, Yes, No
<1>4. y.cell = c
  BY ONLY AmidFields
<1>5. WithCellAndSkip(y, Append(y.cell, "quote"), Yes)
      = Amid(a, b, Append(c, "quote"), Yes, No, Yes, Yes)
  <2>1. WithCellAndSkip(y, Append(c, "quote"), Yes)
        = Amid(a, b, Append(c, "quote"), Yes, No, Yes, Yes)
    BY ONLY CellAndSkipIs DEF Amid
  <2> QED
    BY <1>4, <2>1
<1> QED
  BY <1>2, <1>3, <1>5, Zenon

\* A quote before anything else closes the cell.
LEMMA StepCloses ==
  ASSUME NEW a, NEW b, NEW c, NEW s, NEW next, NEW d,
         next # "quote"
  PROVE  ParseStep(Amid(a, b, c, Yes, No, s, No), "quote", next, d)
          = Amid(a, b, c, No, Yes, Yes, No)
<1> DEFINE p == Amid(a, b, c, Yes, No, s, No)
           q == WithStarted(p, Yes)
           y == Amid(a, b, c, Yes, No, Yes, No)
<1>1. ~p.failed /\ ~p.skip /\ ~p.closed /\ p.quoted
  <2>1. p.failed = No /\ p.skip = No /\ p.closed = No /\ p.quoted = Yes
        /\ p.cell = c
    BY ONLY AmidFields
  <2> QED
    BY <2>1, Zenon DEF No, Yes
<1>2. q = y
  BY ONLY StartedIs DEF Amid
<1>3. ParseStep(p, "quote", next, d) = WithQuotedAndClosed(q, No, Yes)
  <2> HIDE DEF p
  <2> QED
    BY <1>1, Zenon
       DEF ParseStep, ParseCharacter, WithStarted, WithQuotedAndClosed, Yes, No
<1>4. y.cell = c
  BY ONLY AmidFields
<1>5. WithQuotedAndClosed(y, No, Yes) = Amid(a, b, c, No, Yes, Yes, No)
  <2>1. WithQuotedAndClosed(y, No, Yes) = Amid(a, b, c, No, Yes, Yes, No)
    BY ONLY QuotedAndClosedIs DEF Amid
  <2> QED
    BY <1>4, <2>1
<1> QED
  BY <1>2, <1>3, <1>5, Zenon

\* A delimiter ends a cell.
LEMMA StepDelimiter ==
  ASSUME NEW a, NEW b, NEW c, NEW l, NEW s, NEW next, NEW d,
         d \notin {"quote", "cr", "lf"}
  PROVE  ParseStep(Amid(a, b, c, No, l, s, No), d, next, d)
          = Amid(a, Append(b, c), <<>>, No, No, Yes, No)
<1> DEFINE p == Amid(a, b, c, No, l, s, No)
           q == WithStarted(p, Yes)
           y == Amid(a, b, c, No, l, Yes, No)
<1>1. ~p.failed /\ ~p.skip /\ ~p.quoted
  <2>1. p.failed = No /\ p.skip = No /\ p.quoted = No
    BY ONLY AmidFields
  <2> QED
    BY <2>1, Zenon DEF No, Yes
<1>2. q = y
  BY ONLY StartedIs DEF Amid
<1>3. ParseStep(p, d, next, d) = WithCellEnded(q, Append(q.row, q.cell), <<>>, No)
  <2> HIDE DEF p
  <2> QED
    BY <1>1, Zenon
       DEF ParseStep, ParseCharacter, EndCell, Ends, WithStarted, WithCellEnded, Yes, No
<1>4. y.cell = c /\ y.row = b
  BY ONLY AmidFields
<1>5. WithCellEnded(y, Append(y.row, y.cell), <<>>, No)
      = Amid(a, Append(b, c), <<>>, No, No, Yes, No)
  <2>1. WithCellEnded(y, Append(b, c), <<>>, No) = Amid(a, Append(b, c), <<>>, No, No, Yes, No)
    BY ONLY CellEndedIs DEF Amid
  <2> QED
    BY <1>4, <2>1
<1> QED
  BY <1>2, <1>3, <1>5, Zenon

\* A line feed ends a row.
LEMMA StepLf ==
  ASSUME NEW a, NEW b, NEW c, NEW l, NEW s, NEW next, NEW d,
         d \notin {"quote", "cr", "lf"}
  PROVE  ParseStep(Amid(a, b, c, No, l, s, No), "lf", next, d)
          = Amid(Append(a, Append(b, c)), <<>>, <<>>, No, No, No, No)
<1> DEFINE p == Amid(a, b, c, No, l, s, No)
           q == WithStarted(p, Yes)
           y == Amid(a, b, c, No, l, Yes, No)
<1>1. ~p.failed /\ ~p.skip /\ ~p.quoted
  <2>1. p.failed = No /\ p.skip = No /\ p.quoted = No
    BY ONLY AmidFields
  <2> QED
    BY <2>1, Zenon DEF No, Yes
<1>2. q = y
  BY ONLY StartedIs DEF Amid
<1> DEFINE e == Amid(a, Append(b, c), <<>>, No, No, Yes, No)
<1>3. EndCell(y) = e
  <2>1. EndCell(y) = WithCellEnded(y, Append(y.row, y.cell), <<>>, No)
    <3> HIDE DEF y
    <3> QED
      BY Zenon DEF EndCell, WithCellEnded, No
  <2>2. y.cell = c /\ y.row = b
    BY ONLY AmidFields
  <2>3. WithCellEnded(y, Append(b, c), <<>>, No) = e
    BY ONLY CellEndedIs DEF Amid
  <2> QED
    BY <2>1, <2>2, <2>3
<1> DEFINE f == Amid(Append(a, Append(b, c)), <<>>, <<>>, No, No, No, No)
<1>4. EndRow(y) = f
  <2>1. EndRow(y) = WithRowEnded(EndCell(y), Append(EndCell(y).rows, EndCell(y).row), <<>>, No)
    <3> HIDE DEF y
    <3> QED
      BY Zenon DEF EndRow, WithRowEnded, No
  <2>2. e.rows = a /\ e.row = Append(b, c)
    <3> DEFINE v == Append(b, c)
    <3> HIDE DEF v
    <3>1. Amid(a, v, <<>>, No, No, Yes, No).rows = a /\ Amid(a, v, <<>>, No, No, Yes, No).row = v
      BY ONLY AmidFields
    <3> QED
      BY <3>1 DEF v
  <2>3. WithRowEnded(e, Append(a, Append(b, c)), <<>>, No) = f
    BY ONLY RowEndedIs DEF Amid
  <2> QED
    BY <1>3, <2>1, <2>2, <2>3
<1>5. ParseStep(p, "lf", next, d) = EndRow(q)
  <2> HIDE DEF p
  <2> QED
    BY <1>1, Zenon DEF ParseStep, ParseCharacter, Ends, WithStarted, Yes
<1> QED
  BY <1>2, <1>4, <1>5, Zenon

\* So does a carriage return, which takes a line feed with it.
LEMMA StepCr ==
  ASSUME NEW a, NEW b, NEW c, NEW l, NEW s, NEW next, NEW d,
         d \notin {"quote", "cr", "lf"}
  PROVE  ParseStep(Amid(a, b, c, No, l, s, No), "cr", next, d)
          = Amid(Append(a, Append(b, c)), <<>>, <<>>, No, No, No, next = "lf")
<1> DEFINE p == Amid(a, b, c, No, l, s, No)
           q == WithStarted(p, Yes)
           y == Amid(a, b, c, No, l, Yes, No)
<1>1. ~p.failed /\ ~p.skip /\ ~p.quoted
  <2>1. p.failed = No /\ p.skip = No /\ p.quoted = No
    BY ONLY AmidFields
  <2> QED
    BY <2>1, Zenon DEF No, Yes
<1>2. q = y
  BY ONLY StartedIs DEF Amid
<1> DEFINE e == Amid(a, Append(b, c), <<>>, No, No, Yes, No)
<1>3. EndCell(y) = e
  <2>1. EndCell(y) = WithCellEnded(y, Append(y.row, y.cell), <<>>, No)
    <3> HIDE DEF y
    <3> QED
      BY Zenon DEF EndCell, WithCellEnded, No
  <2>2. y.cell = c /\ y.row = b
    BY ONLY AmidFields
  <2>3. WithCellEnded(y, Append(b, c), <<>>, No) = e
    BY ONLY CellEndedIs DEF Amid
  <2> QED
    BY <2>1, <2>2, <2>3
<1> DEFINE f == Amid(Append(a, Append(b, c)), <<>>, <<>>, No, No, No, No)
<1>4. EndRow(y) = f
  <2>1. EndRow(y) = WithRowEnded(EndCell(y), Append(EndCell(y).rows, EndCell(y).row), <<>>, No)
    <3> HIDE DEF y
    <3> QED
      BY Zenon DEF EndRow, WithRowEnded, No
  <2>2. e.rows = a /\ e.row = Append(b, c)
    <3> DEFINE v == Append(b, c)
    <3> HIDE DEF v
    <3>1. Amid(a, v, <<>>, No, No, Yes, No).rows = a /\ Amid(a, v, <<>>, No, No, Yes, No).row = v
      BY ONLY AmidFields
    <3> QED
      BY <3>1 DEF v
  <2>3. WithRowEnded(e, Append(a, Append(b, c)), <<>>, No) = f
    BY ONLY RowEndedIs DEF Amid
  <2> QED
    BY <1>3, <2>1, <2>2, <2>3
<1>5. ParseStep(p, "cr", next, d) = WithSkip(EndRow(q), next = "lf")
  <2> HIDE DEF p
  <2> QED
    BY <1>1, Zenon DEF ParseStep, ParseCharacter, Ends, WithStarted, WithSkip, Yes
<1>6. WithSkip(f, next = "lf") = Amid(Append(a, Append(b, c)), <<>>, <<>>, No, No, No, next = "lf")
  <2> DEFINE isLf == next = "lf"
  <2> HIDE DEF isLf
  <2>1. WithSkip(f, isLf) = Amid(Append(a, Append(b, c)), <<>>, <<>>, No, No, No, isLf)
    BY ONLY SkipIs DEF Amid
  <2> QED
    BY <2>1 DEF isLf
<1> QED
  BY <1>2, <1>4, <1>5, <1>6, Zenon

\* A character that is skipped.
LEMMA StepSkip ==
  ASSUME NEW a, NEW b, NEW c, NEW q, NEW l, NEW s, NEW x, NEW next, NEW d
  PROVE  ParseStep(Amid(a, b, c, q, l, s, Yes), x, next, d) = Amid(a, b, c, q, l, s, No)
<1> DEFINE p == Amid(a, b, c, q, l, s, Yes)
<1>1. ~p.failed /\ p.skip
  <2>1. p.failed = No /\ p.skip = Yes
    BY ONLY AmidFields
  <2> QED
    BY <2>1, Zenon DEF No, Yes
<1>2. ParseStep(p, x, next, d) = WithSkip(p, No)
  <2> HIDE DEF p
  <2> QED
    BY <1>1, Zenon DEF ParseStep, WithSkip, No
<1>3. WithSkip(p, No) = Amid(a, b, c, q, l, s, No)
  BY ONLY SkipIs DEF Amid
<1> QED
  BY <1>2, <1>3, Zenon

\* A quote inside a cell, or a cell that goes on after its quotes, is an error.
LEMMA StepFails ==
  ASSUME NEW a, NEW b, NEW c, NEW l, NEW s, NEW x, NEW next, NEW d, d # "quote",
         \/ l = No /\ x = "quote" /\ c # <<>>
         \/ l = Yes /\ x \notin {d} \cup Ends
  PROVE  ParseStep(Amid(a, b, c, No, l, s, No), x, next, d).failed
<1> DEFINE p == Amid(a, b, c, No, l, s, No)
           q == WithStarted(p, Yes)
           y == Amid(a, b, c, No, l, Yes, No)
<1>1. ~p.failed /\ ~p.skip /\ ~p.quoted /\ p.closed = l /\ p.cell = c
  <2>1. p.failed = No /\ p.skip = No /\ p.quoted = No /\ p.closed = l /\ p.cell = c
    BY ONLY AmidFields
  <2> QED
    BY <2>1, Zenon DEF No, Yes
<1>2. q = y
  BY ONLY StartedIs DEF Amid
<1>3. ParseStep(p, x, next, d) = WithFailed(q, Yes)
  <2>1. CASE l = No /\ x = "quote" /\ c # <<>>
    <3>1. ~p.closed /\ p.cell # <<>>
      BY <1>1, <2>1, Zenon DEF No
    <3> HIDE DEF p
    <3> QED
      BY <1>1, <2>1, <3>1, Zenon
         DEF ParseStep, ParseCharacter, WithStarted, WithFailed, Yes
  <2>2. CASE l = Yes /\ x \notin {d} \cup Ends
    <3>1. p.closed
      BY <1>1, <2>2, Zenon DEF Yes
    <3> HIDE DEF p
    <3> QED
      BY <1>1, <2>2, <3>1, Zenon
         DEF Ends, ParseStep, ParseCharacter, WithStarted, WithFailed, Yes
  <2> QED
    BY <2>1, <2>2
<1>4. WithFailed(y, Yes) = ParseAs(a, b, c, No, l, Yes, No, Yes)
  BY ONLY FailedIs DEF Amid
<1>5. ParseAs(a, b, c, No, l, Yes, No, Yes).failed = Yes
  BY ONLY ParseFields
<1>6. ParseStep(p, x, next, d).failed = Yes
  BY <1>2, <1>3, <1>4, <1>5, Zenon
<1> QED
  BY <1>6, Zenon DEF Yes

\* An error is the last.
LEMMA StaysFailed ==
  ASSUME NEW p, p.failed, NEW x, NEW next, NEW d
  PROVE  ParseStep(p, x, next, d) = p
BY Zenon DEF ParseStep

-----------------------------------------------------------------------------
(* A parse as it goes.                                                     *)

LEMMA StepsStay ==
  ASSUME NEW x \in Character, NEW next, NEW d, NEW p \in Parsing
  PROVE  ParseStep(p, x, next, d) \in Begun /\ ParseStep(p, x, next, d) \in Parsing
<1>1. p \in ParseState
  BY DEF Parsing
<1>2. CASE p.failed
  <2>1. ParseStep(p, x, next, d) = p
    BY <1>2, Zenon DEF ParseStep
  <2> QED
    BY <1>1, <1>2, <2>1, Zenon DEF Begun, Parsing
<1>3. CASE ~p.failed /\ p.skip
  <2> DEFINE no == FALSE
             q == [p EXCEPT !.skip = no]
  <2>1. ParseStep(p, x, next, d) = q
    BY <1>3, Zenon DEF ParseStep
  <2>2. p \in Begun
    BY <1>3, Zenon DEF Parsing
  <2>3. no \in BOOLEAN
    OBVIOUS
  <2> HIDE DEF no
  <2>4. q \in ParseState /\ q.failed = p.failed /\ q.started = p.started /\ q.rows = p.rows
    BY ONLY <1>1, <2>3 DEF ParseState
  <2> HIDE DEF q
  <2>5. q \in Begun
    BY <2>2, <2>4, Zenon DEF Begun
  <2> QED
    BY <2>1, <2>4, <2>5, Zenon DEF Parsing
<1>4. CASE ~p.failed /\ ~p.skip
  <2>1. ParseStep(p, x, next, d) = ParseCharacter(p, x, next, d)
    BY <1>4, Zenon DEF ParseStep
  <2>2. ParseCharacter(p, x, next, d) \in Begun
    BY <1>1, CharactersStay
  <2> QED
    BY <2>1, <2>2, Zenon DEF Begun, Parsing
<1> QED
  BY <1>2, <1>3, <1>4

\* The parse of the beginning t of a text in which next comes after t.
After(t, i, next) == IF i < Len(t) THEN t[i + 1] ELSE next
UpTo(t, next, d) ==
  LET Take(p, i) == ParseStep(p, t[i], After(t, i, next), d)
  IN FoldLeftDomain(Take, ParseStart, t)

LEMMA ParseIs ==
  ASSUME NEW t, NEW d
  PROVE  Parse(t, d) = Parsed(UpTo(t, "end", d))
BY Zenon DEF Parse, UpTo, FoldLeftDomain, FoldLeft, MapThenFoldSet, ParseStep, After

\* h gives what has been made of each beginning of t.
Follows(h, t, next, d) ==
  /\ h \in [0..Len(t) -> Parsing]
  /\ h[0] = ParseStart
  /\ \A k \in 1..Len(t) : h[k] = ParseStep(h[k - 1], t[k], After(t, k, next), d)

LEMMA UpToFollows ==
  ASSUME NEW t \in Seq(Character), NEW next, NEW d
  PROVE  \E h : Follows(h, t, next, d) /\ h[Len(t)] = UpTo(t, next, d)
<1> DEFINE n == Len(t)
           Step(p, k) == ParseStep(p, t[k], After(t, k, next), d)
           F == [p \in Parsing \X (1..n) |-> Step(p[1], p[2])]
           Finds(g, D) == g = [s \in SUBSET D |->
                                 IF s = {} THEN ParseStart
                                 ELSE Step(g[s \ {Max(s)}], [i \in DOMAIN t |-> i][Max(s)])]
           c == CHOOSE g : Finds(g, DOMAIN t)
<1>1. n \in Nat /\ DOMAIN t = 1..n /\ \A k \in 1..n : t[k] \in Character
  OBVIOUS
<1>2. \A p \in Parsing : \A k \in 1..n : Step(p, k) \in Parsing
  BY <1>1, StepsStay, Zenon
<1>3. UpTo(t, next, d) = c[1..n]
  BY <1>1, Zenon DEF UpTo, FoldLeftDomain, FoldLeft, MapThenFoldSet
<1> HIDE DEF Step
<1>4. F \in [Parsing \X (1..n) -> Parsing]
  BY <1>2
<1>5. \A a \in Parsing : \A k \in 1..n : F[<<a, k>>] = Step(a, k)
  OBVIOUS
<1> HIDE DEF F
<1>6. PICK g \in [SUBSET (1..n) -> Parsing] : Descends(g, F, ParseStart, n)
  BY <1>1, <1>4, ParseStartIs, FoldingExists
<1>7. ASSUME NEW s \in SUBSET (1..n), s # {}
      PROVE  Max(s) \in 1..n /\ s \ {Max(s)} \in SUBSET (1..n)
             /\ [i \in 1..n |-> i][Max(s)] = Max(s)
  <2>1. Max(s) \in s
    BY <1>1, <1>7, HaveEnds
  <2> QED
    BY <2>1
<1>8. Finds(g, DOMAIN t)
  <2>1. ASSUME NEW s \in SUBSET (1..n), s # {}
        PROVE  g[s] = Step(g[s \ {Max(s)}], [i \in DOMAIN t |-> i][Max(s)])
    <3>1. g[s] = F[<<g[s \ {Max(s)}], Max(s)>>]
      BY <1>6, <2>1 DEF Descends
    <3>2. g[s \ {Max(s)}] \in Parsing /\ Max(s) \in 1..n /\ [i \in 1..n |-> i][Max(s)] = Max(s)
      BY <1>7, <2>1
    <3> QED
      BY <1>1, <1>5, <3>1, <3>2
  <2>2. g[{}] = ParseStart
    BY <1>6 DEF Descends
  <2> QED
    BY <1>1, <2>1, <2>2
<1>9. Finds(c, DOMAIN t)
  <2> HIDE DEF Finds
  <2> QED
    BY <1>8
<1> HIDE DEF c
<1>10. ASSUME NEW k \in 1..n
       PROVE  c[1..k] = Step(c[1..(k - 1)], k)
  <2> DEFINE s == 1..k
  <2>1. k \in Nat \ {0} /\ s \in SUBSET (1..n)
    BY <1>1
  <2>2. s # {} /\ Max(s) = k /\ s \ {k} = 1..(k - 1)
    BY <2>1, LastPlace
  <2> HIDE DEF s
  <2>3. c[s] = Step(c[s \ {Max(s)}], [i \in 1..n |-> i][Max(s)])
    BY <1>1, <1>9, <2>1, <2>2
  <2> QED
    BY <1>7, <2>1, <2>2, <2>3 DEF s
<1>11. c[1..0] = ParseStart
  <2>1. 1..0 = {} /\ {} \in SUBSET (1..n)
    OBVIOUS
  <2> QED
    BY <1>1, <1>9, <2>1
<1> HIDE DEF Finds
<1> DEFINE S == {k \in 0..n : c[1..k] \in Parsing}
<1>12. 0 \in S
  BY <1>1, <1>11, ParseStartIs
<1>13. ASSUME NEW k \in 1..n, k - 1 \in S PROVE k \in S
  <2>1. k \in 0..n /\ c[1..(k - 1)] \in Parsing
    BY <1>1, <1>13
  <2> QED
    BY <1>2, <1>10, <2>1
<1>14. ASSUME NEW m \in 0..n PROVE c[1..m] \in Parsing
  <2> DEFINE T == {k \in 0..m : k \in S}
  <2>1. m \in Nat /\ 0 \in T
    BY <1>1, <1>12
  <2>2. ASSUME NEW k \in 1..m, k - 1 \in T PROVE k \in T
    <3>1. k \in 1..n /\ k \in 0..m
      BY <1>1
    <3> HIDE DEF S
    <3> QED
      BY <1>13, <2>2, <3>1
  <2>3. m \in T
    <3>1. m \in 0..m
      BY <2>1
    <3> HIDE DEF T
    <3> QED
      BY <2>1, <2>2, <3>1, FromTheLeft
  <2> QED
    BY <2>3
<1> DEFINE h == [k \in 0..n |-> c[1..k]]
<1>15. h \in [0..n -> Parsing] /\ h[0] = ParseStart /\ h[n] = UpTo(t, next, d)
  BY <1>1, <1>3, <1>11, <1>14
<1>16. ASSUME NEW k \in 1..n PROVE h[k] = Step(h[k - 1], k)
  BY <1>1, <1>10
<1> HIDE DEF h
<1> QED
  BY <1>15, <1>16 DEF Follows, Step

LEMMA OneFollows ==
  ASSUME NEW t \in Seq(Character), NEW u \in Seq(Character), NEW x, NEW y, NEW d, NEW g, NEW h,
         Follows(g, t, x, d), Follows(h, u, y, d), Len(t) <= Len(u),
         \A k \in 1..Len(t) : t[k] = u[k] /\ After(t, k, x) = After(u, k, y)
  PROVE  g[Len(t)] = h[Len(t)]
<1> DEFINE n == Len(t)
           S == {k \in 0..n : g[k] = h[k]}
<1>1. n \in Nat /\ 0 \in S /\ n \in 0..n
  BY DEF Follows
<1>2. ASSUME NEW k \in 1..n, k - 1 \in S PROVE k \in S
  <2>1. k \in 1..Len(u) /\ k \in 0..n
    OBVIOUS
  <2>2. /\ g[k] = ParseStep(g[k - 1], t[k], After(t, k, x), d)
        /\ h[k] = ParseStep(h[k - 1], u[k], After(u, k, y), d)
    BY <2>1 DEF Follows
  <2>3. g[k - 1] = h[k - 1]
    BY <1>2
  <2> QED
    BY <2>1, <2>2, <2>3
<1>3. n \in S
  <2> HIDE DEF S
  <2> QED
    BY <1>1, <1>2, FromTheLeft
<1> QED
  BY <1>3

\* One character more.
LEMMA UpToGrows ==
  ASSUME NEW d
  PROVE  /\ \A next : UpTo(<<>>, next, d) = ParseStart
         /\ \A t \in Seq(Character) : \A x \in Character : \A next :
              UpTo(Append(t, x), next, d) = ParseStep(UpTo(t, x, d), x, next, d)
         /\ \A t \in Seq(Character) : \A next :
              UpTo(t, next, d) \in Parsing /\ (t # <<>> => UpTo(t, next, d) \in Begun)
<1>1. ASSUME NEW next PROVE UpTo(<<>>, next, d) = ParseStart
  <2>1. <<>> \in Seq(Character) /\ Len(<<>>) = 0
    OBVIOUS
  <2>2. PICK h : Follows(h, <<>>, next, d) /\ h[Len(<<>>)] = UpTo(<<>>, next, d)
    BY <2>1, UpToFollows
  <2> QED
    BY <2>1, <2>2 DEF Follows
<1>2. ASSUME NEW t \in Seq(Character), NEW x \in Character, NEW next
      PROVE  UpTo(Append(t, x), next, d) = ParseStep(UpTo(t, x, d), x, next, d)
  <2> DEFINE u == Append(t, x)
             n == Len(t)
  <2>1. /\ u \in Seq(Character) /\ n \in Nat /\ Len(u) = n + 1 /\ u[n + 1] = x
        /\ \A k \in 1..n : u[k] = t[k]
    OBVIOUS
  <2> HIDE DEF u
  <2>2. PICK g : Follows(g, t, x, d) /\ g[n] = UpTo(t, x, d)
    BY UpToFollows
  <2>3. PICK h : Follows(h, u, next, d) /\ h[Len(u)] = UpTo(u, next, d)
    BY <2>1, UpToFollows
  <2>4. ASSUME NEW k \in 1..n PROVE t[k] = u[k] /\ After(t, k, x) = After(u, k, next)
    <3>1. CASE k = n
      <4>1. n + 1 \in 1..(n + 1) /\ ~(k < Len(t)) /\ k < Len(u)
        BY <2>1, <3>1
      <4> QED
        BY <2>1, <3>1, <4>1 DEF After
    <3>2. CASE k # n
      <4>1. k + 1 \in 1..n /\ k < Len(t) /\ k < Len(u)
        BY <2>1, <3>2
      <4> QED
        BY <2>1, <4>1 DEF After
    <3> QED
      BY <3>1, <3>2
  <2>5. g[n] = h[n]
    <3>1. Len(t) <= Len(u)
      BY <2>1
    <3> QED
      BY <2>1, <2>2, <2>3, <2>4, <3>1, OneFollows
  <2>6. h[n + 1] = ParseStep(h[n], x, next, d)
    <3>1. n + 1 \in 1..Len(u) /\ (n + 1) - 1 = n /\ ~(n + 1 < Len(u))
      BY <2>1
    <3>2. h[n + 1] = ParseStep(h[n], u[n + 1], After(u, n + 1, next), d)
      BY <2>3, <3>1 DEF Follows
    <3> QED
      BY <2>1, <3>1, <3>2 DEF After
  <2> QED
    BY <2>1, <2>2, <2>3, <2>5, <2>6 DEF u
<1>3. ASSUME NEW t \in Seq(Character), NEW next
      PROVE  UpTo(t, next, d) \in Parsing /\ (t # <<>> => UpTo(t, next, d) \in Begun)
  <2> DEFINE n == Len(t)
  <2>1. PICK h : Follows(h, t, next, d) /\ h[n] = UpTo(t, next, d)
    BY UpToFollows
  <2>2. n \in Nat /\ h[n] \in Parsing
    BY <2>1 DEF Follows
  <2>3. CASE t # <<>>
    <3>1. n \in 1..n /\ t[n] \in Character /\ n - 1 \in 0..n
      BY <2>3
    <3>2. h[n] = ParseStep(h[n - 1], t[n], After(t, n, next), d) /\ h[n - 1] \in Parsing
      BY <2>1, <3>1 DEF Follows
    <3> QED
      BY <2>1, <3>1, <3>2, StepsStay, Zenon
  <2> QED
    BY <2>1, <2>2, <2>3
<1> QED
  BY <1>1, <1>2, <1>3

\* What the bytes of a text leave the reader with.
Taken(t) == FoldLeft(TakeByte, CutStart, t)

TakesOn(h, t) ==
  /\ h \in [0..Len(t) -> CutState]
  /\ h[0] = CutStart
  /\ \A k \in 1..Len(t) : h[k] = TakeByte(h[k - 1], t[k])

LEMMA TakenTakesOn ==
  ASSUME NEW t \in Seq(Character)
  PROVE  \E h : TakesOn(h, t) /\ h[Len(t)] = Taken(t)
<1> DEFINE n == Len(t)
           F == [p \in CutState \X (1..n) |-> TakeByte(p[1], t[p[2]])]
           Finds(g, D) == g = [s \in SUBSET D |->
                                 IF s = {} THEN CutStart
                                 ELSE TakeByte(g[s \ {Max(s)}], t[Max(s)])]
           c == CHOOSE g : Finds(g, DOMAIN t)
<1>1. n \in Nat /\ DOMAIN t = 1..n /\ \A i \in 1..n : t[i] \in Character
  OBVIOUS
<1>2. F \in [CutState \X (1..n) -> CutState]
  BY <1>1, BytesStay
<1>3. \A a \in CutState : \A k \in 1..n : F[<<a, k>>] = TakeByte(a, t[k])
  OBVIOUS
<1> HIDE DEF F
<1>4. PICK g \in [SUBSET (1..n) -> CutState] : Descends(g, F, CutStart, n)
  BY <1>1, <1>2, CutStartIs, FoldingExists
<1>5. ASSUME NEW s \in SUBSET (1..n), s # {}
      PROVE  Max(s) \in 1..n /\ s \ {Max(s)} \in SUBSET (1..n)
  <2>1. Max(s) \in s
    BY <1>1, <1>5, HaveEnds
  <2> QED
    BY <2>1
<1>6. Finds(g, DOMAIN t)
  <2>1. ASSUME NEW s \in SUBSET (1..n), s # {}
        PROVE  g[s] = TakeByte(g[s \ {Max(s)}], t[Max(s)])
    <3>1. g[s] = F[<<g[s \ {Max(s)}], Max(s)>>]
      BY <1>4, <2>1 DEF Descends
    <3>2. g[s \ {Max(s)}] \in CutState /\ Max(s) \in 1..n
      BY <1>5, <2>1
    <3> QED
      BY <1>1, <1>3, <3>1, <3>2
  <2>2. g[{}] = CutStart
    BY <1>4 DEF Descends
  <2> QED
    BY <1>1, <2>1, <2>2
<1>7. Finds(c, DOMAIN t)
  <2> HIDE DEF Finds
  <2> QED
    BY <1>6
<1>8. Taken(t) = c[1..n]
  BY <1>1, Zenon DEF Taken, FoldLeft, MapThenFoldSet
<1> HIDE DEF c
<1>9. c[1..0] = CutStart
  <2>1. 1..0 = {} /\ {} \in SUBSET (1..n)
    OBVIOUS
  <2> QED
    BY <1>1, <1>7, <2>1
<1>10. ASSUME NEW k \in 1..n
       PROVE  c[1..k] = TakeByte(c[1..(k - 1)], t[k])
  <2> DEFINE s == 1..k
  <2>1. k \in Nat \ {0} /\ s \in SUBSET (1..n)
    BY <1>1
  <2>2. s # {} /\ Max(s) = k /\ s \ {k} = 1..(k - 1)
    BY <2>1, LastPlace
  <2> HIDE DEF s
  <2>3. c[s] = TakeByte(c[s \ {Max(s)}], t[Max(s)])
    BY <1>1, <1>7, <2>1, <2>2
  <2> QED
    BY <2>2, <2>3 DEF s
<1> HIDE DEF Finds
<1>11. ASSUME NEW m \in 0..n PROVE c[1..m] \in CutState
  <2> DEFINE T == {k \in 0..m : c[1..k] \in CutState}
  <2>1. m \in Nat /\ 0 \in T
    BY <1>1, <1>9, CutStartIs
  <2>2. ASSUME NEW k \in 1..m, k - 1 \in T PROVE k \in T
    <3>1. k \in 1..n /\ k \in 0..m /\ c[1..(k - 1)] \in CutState
      BY <1>1, <2>2
    <3>2. c[1..k] \in CutState
      BY <1>1, <1>10, <3>1, BytesStay
    <3> QED
      BY <3>1, <3>2
  <2>3. m \in T
    <3>1. m \in 0..m
      BY <2>1
    <3> HIDE DEF T
    <3> QED
      BY <2>1, <2>2, <3>1, FromTheLeft
  <2> QED
    BY <2>3
<1> DEFINE h == [k \in 0..n |-> c[1..k]]
<1>12. h \in [0..n -> CutState] /\ h[0] = CutStart /\ h[n] = Taken(t)
  BY <1>1, <1>8, <1>9, <1>11
<1>13. ASSUME NEW k \in 1..n PROVE h[k] = TakeByte(h[k - 1], t[k])
  BY <1>1, <1>10
<1> HIDE DEF h
<1> QED
  BY <1>12, <1>13 DEF TakesOn

\* One byte more.
LEMMA TakenGrows ==
  /\ Taken(<<>>) = CutStart
  /\ \A t \in Seq(Character) : \A x \in Character : Taken(Append(t, x)) = TakeByte(Taken(t), x)
  /\ \A t \in Seq(Character) : Taken(t) \in CutState
<1>1. Taken(<<>>) = CutStart
  <2>1. <<>> \in Seq(Character) /\ Len(<<>>) = 0
    OBVIOUS
  <2>2. PICK h : TakesOn(h, <<>>) /\ h[Len(<<>>)] = Taken(<<>>)
    BY <2>1, TakenTakesOn
  <2> QED
    BY <2>1, <2>2 DEF TakesOn
<1>2. ASSUME NEW t \in Seq(Character), NEW x \in Character
      PROVE  Taken(Append(t, x)) = TakeByte(Taken(t), x)
  <2> DEFINE u == Append(t, x)
             n == Len(t)
  <2>1. /\ u \in Seq(Character) /\ n \in Nat /\ Len(u) = n + 1 /\ u[n + 1] = x
        /\ \A k \in 1..n : u[k] = t[k]
    OBVIOUS
  <2> HIDE DEF u
  <2>2. PICK g : TakesOn(g, t) /\ g[n] = Taken(t)
    BY TakenTakesOn
  <2>3. PICK h : TakesOn(h, u) /\ h[Len(u)] = Taken(u)
    BY <2>1, TakenTakesOn
  <2> DEFINE S == {k \in 0..n : g[k] = h[k]}
  <2>4. 0 \in S /\ n \in 0..n
    BY <2>1, <2>2, <2>3 DEF TakesOn
  <2>5. ASSUME NEW k \in 1..n, k - 1 \in S PROVE k \in S
    <3>1. k \in 1..Len(u) /\ k \in 0..n /\ g[k - 1] = h[k - 1]
      BY <2>1, <2>5
    <3>2. g[k] = TakeByte(g[k - 1], t[k]) /\ h[k] = TakeByte(h[k - 1], u[k])
      BY <2>2, <2>3, <3>1 DEF TakesOn
    <3> QED
      BY <2>1, <3>1, <3>2
  <2>6. n \in S
    <3> HIDE DEF S
    <3> QED
      BY <2>1, <2>4, <2>5, FromTheLeft
  <2>7. h[n + 1] = TakeByte(h[n], x)
    <3>1. n + 1 \in 1..Len(u) /\ (n + 1) - 1 = n
      BY <2>1
    <3> QED
      BY <2>1, <2>3, <3>1 DEF TakesOn
  <2> QED
    BY <2>1, <2>2, <2>3, <2>6, <2>7 DEF u
<1>3. ASSUME NEW t \in Seq(Character) PROVE Taken(t) \in CutState
  <2>1. PICK h : TakesOn(h, t) /\ h[Len(t)] = Taken(t)
    BY TakenTakesOn
  <2>2. Len(t) \in 0..Len(t)
    OBVIOUS
  <2> QED
    BY <2>1, <2>2 DEF TakesOn
<1> QED
  BY <1>1, <1>2, <1>3

LEMMA CutIs ==
  ASSUME NEW t
  PROVE  Cut(t) = LastRecord(Taken(t))
BY Zenon DEF Cut, Taken

-----------------------------------------------------------------------------
(* The reader and the parser, side by side.                                *)

\* Where the parser may be in a record, by what the reader has counted and what is next.
InShape(quoted, next, q, l, s, k) ==
  \/ ~quoted /\ q = No /\ l \in {Yes, No} /\ k = No
  \/ quoted /\ q = Yes /\ l = No /\ k = No
  \/ ~quoted /\ next = "quote" /\ q = Yes /\ l = No /\ s = Yes /\ k = Yes

\* A character that does not end the record, whatever rows there are.
LEMMA GoesOn ==
  ASSUME NEW quoted \in BOOLEAN, NEW b, NEW c, NEW q, NEW l, NEW s, NEW k, NEW x, NEW next, NEW d,
         d \notin {"quote", "cr", "lf"}, InShape(quoted, x, q, l, s, k), quoted \/ x \notin Ends
  PROVE  \/ \A a : ParseStep(Amid(a, b, c, q, l, s, k), x, next, d).failed
         \/ \E b2, c2, q2, l2, k2 :
              /\ InShape(IF x = "quote" THEN ~quoted ELSE quoted, next, q2, l2, Yes, k2)
              /\ \A a : ParseStep(Amid(a, b, c, q, l, s, k), x, next, d)
                          = Amid(a, b2, c2, q2, l2, Yes, k2)
<1> DEFINE turned == IF x = "quote" THEN ~quoted ELSE quoted
           Made(a) == ParseStep(Amid(a, b, c, q, l, s, k), x, next, d)
           Goes(b2, c2, q2, l2, k2) == /\ InShape(turned, next, q2, l2, Yes, k2)
                                       /\ \A a : Made(a) = Amid(a, b2, c2, q2, l2, Yes, k2)
<1> SUFFICES (\A a : Made(a).failed) \/ (\E b2, c2, q2, l2, k2 : Goes(b2, c2, q2, l2, k2))
  BY Zenon
<1>1. CASE ~quoted /\ q = No /\ l = No /\ k = No /\ x = "quote" /\ c = <<>>
  <2>1. \A a : Made(a) = Amid(a, b, <<>>, Yes, No, Yes, No)
    BY <1>1, StepOpens
  <2>2. InShape(turned, next, Yes, No, Yes, No)
    BY <1>1, Zenon DEF InShape
  <2>3. Goes(b, <<>>, Yes, No, No)
    BY <2>1, <2>2, Zenon
  <2> HIDE DEF Goes
  <2> QED
    BY <2>3, Zenon
<1>2. CASE ~quoted /\ q = No /\ l = No /\ k = No /\ x = "quote" /\ c # <<>>
  BY <1>2, StepFails, Zenon
<1>3. CASE ~quoted /\ q = No /\ l = No /\ k = No /\ x = d
  <2>1. \A a : Made(a) = Amid(a, Append(b, c), <<>>, No, No, Yes, No)
    BY <1>3, StepDelimiter
  <2>2. InShape(turned, next, No, No, Yes, No)
    BY <1>3, Zenon DEF InShape
  <2>3. Goes(Append(b, c), <<>>, No, No, No)
    BY <2>1, <2>2, Zenon
  <2> HIDE DEF Goes
  <2> QED
    BY <2>3, Zenon
<1>4. CASE ~quoted /\ q = No /\ l = No /\ k = No /\ x # "quote" /\ x # d
  <2>0. x \notin {"quote", "lf", "cr"}
    BY <1>4, Zenon DEF Ends
  <2>1. \A a : Made(a) = Amid(a, b, Append(c, x), No, No, Yes, No)
    BY <1>4, <2>0, StepPlain
  <2>2. InShape(turned, next, No, No, Yes, No)
    BY <1>4, Zenon DEF InShape
  <2>3. Goes(b, Append(c, x), No, No, No)
    BY <2>1, <2>2, Zenon
  <2> HIDE DEF Goes
  <2> QED
    BY <2>3, Zenon
<1>5. CASE ~quoted /\ q = No /\ l = Yes /\ k = No /\ x = d
  <2>1. \A a : Made(a) = Amid(a, Append(b, c), <<>>, No, No, Yes, No)
    BY <1>5, StepDelimiter
  <2>2. InShape(turned, next, No, No, Yes, No)
    BY <1>5, Zenon DEF InShape
  <2>3. Goes(Append(b, c), <<>>, No, No, No)
    BY <2>1, <2>2, Zenon
  <2> HIDE DEF Goes
  <2> QED
    BY <2>3, Zenon
<1>6. CASE ~quoted /\ q = No /\ l = Yes /\ k = No /\ x # d
  <2>1. x \notin {d} \cup Ends
    BY <1>6, Zenon
  <2> QED
    BY <1>6, <2>1, StepFails, Zenon
<1>7. CASE quoted /\ q = Yes /\ l = No /\ k = No /\ x # "quote"
  <2>1. \A a : Made(a) = Amid(a, b, Append(c, x), Yes, No, Yes, No)
    BY <1>7, StepQuoted
  <2>2. InShape(turned, next, Yes, No, Yes, No)
    BY <1>7, Zenon DEF InShape
  <2>3. Goes(b, Append(c, x), Yes, No, No)
    BY <2>1, <2>2, Zenon
  <2> HIDE DEF Goes
  <2> QED
    BY <2>3, Zenon
<1>8. CASE quoted /\ q = Yes /\ l = No /\ k = No /\ x = "quote" /\ next = "quote"
  <2>1. \A a : Made(a) = Amid(a, b, Append(c, x), Yes, No, Yes, Yes)
    BY <1>8, StepDoubled
  <2>2. InShape(turned, next, Yes, No, Yes, Yes)
    BY <1>8, Zenon DEF InShape
  <2>3. Goes(b, Append(c, x), Yes, No, Yes)
    BY <2>1, <2>2, Zenon
  <2> HIDE DEF Goes
  <2> QED
    BY <2>3, Zenon
<1>9. CASE quoted /\ q = Yes /\ l = No /\ k = No /\ x = "quote" /\ next # "quote"
  <2>1. \A a : Made(a) = Amid(a, b, c, No, Yes, Yes, No)
    BY <1>9, StepCloses
  <2>2. InShape(turned, next, No, Yes, Yes, No)
    BY <1>9, Zenon DEF InShape
  <2>3. Goes(b, c, No, Yes, No)
    BY <2>1, <2>2, Zenon
  <2> HIDE DEF Goes
  <2> QED
    BY <2>3, Zenon
<1>10. CASE ~quoted /\ x = "quote" /\ q = Yes /\ l = No /\ s = Yes /\ k = Yes
  <2>1. \A a : Made(a) = Amid(a, b, c, Yes, No, Yes, No)
    BY <1>10, StepSkip
  <2>2. InShape(turned, next, Yes, No, Yes, No)
    BY <1>10, Zenon DEF InShape
  <2>3. Goes(b, c, Yes, No, No)
    BY <2>1, <2>2, Zenon
  <2> HIDE DEF Goes
  <2> QED
    BY <2>3, Zenon
<1> HIDE DEF Goes, Made
<1> QED
  BY <1>1, <1>2, <1>3, <1>4, <1>5, <1>6, <1>7, <1>8, <1>9, <1>10, Zenon DEF InShape

\* Of what is next only a quote matters, but for a carriage return that ends a row.
LEMMA NextMatters ==
  ASSUME NEW p, NEW x, NEW y, NEW z, NEW d, y # "quote", z # "quote",
         p.failed \/ p.skip \/ p.quoted \/ x # "cr"
  PROVE  ParseStep(p, x, y, d) = ParseStep(p, x, z, d)
<1>1. CASE p.failed
  BY <1>1, Zenon DEF ParseStep
<1>2. CASE ~p.failed /\ p.skip
  BY <1>2, Zenon DEF ParseStep
<1>3. CASE ~p.failed /\ ~p.skip
  <2>1. \A n : ParseStep(p, x, n, d) = ParseCharacter(p, x, n, d)
    BY <1>3, Zenon DEF ParseStep
  <2>2. x # "cr" \/ p.quoted
    BY <1>3
  <2> DEFINE yes == TRUE
             q == [p EXCEPT !.started = yes]
             g1 == p.closed /\ x \notin {d} \cup Ends
             g3 == ~p.closed /\ x = "quote" /\ p.quoted
             g4 == ~p.closed /\ x = "quote" /\ ~p.quoted /\ p.cell = <<>>
             g5 == ~p.closed /\ x = "quote" /\ ~p.quoted /\ p.cell # <<>>
             g6 == x = d /\ ~p.quoted
             g7 == x = "lf" /\ ~p.quoted
             o1 == [q EXCEPT !.failed = TRUE]
             o3 == [q EXCEPT !.quoted = FALSE, !.closed = TRUE]
             o4 == [q EXCEPT !.quoted = TRUE]
             o6 == EndCell(q)
             o7 == EndRow(q)
             o9 == [q EXCEPT !.cell = Append(@, x)]
             It == CASE g1 -> o1 [] g3 -> o3 [] g4 -> o4 [] g5 -> o1 [] g6 -> o6 [] g7 -> o7
                     [] OTHER -> o9
  <2>3. ASSUME NEW n, n # "quote" PROVE ParseCharacter(p, x, n, d) = It
    <3> DEFINE h2 == ~p.closed /\ x = "quote" /\ p.quoted /\ n = "quote"
               h3 == ~p.closed /\ x = "quote" /\ p.quoted /\ n # "quote"
               h8 == x = "cr" /\ ~p.quoted
               o2 == [q EXCEPT !.cell = Append(@, x), !.skip = TRUE]
               o8 == [EndRow(q) EXCEPT !.skip = n = "lf"]
    <3>1. ParseCharacter(p, x, n, d)
            = CASE g1 -> o1 [] h2 -> o2 [] h3 -> o3 [] g4 -> o4 [] g5 -> o1 [] g6 -> o6 [] g7 -> o7
                [] h8 -> o8 [] OTHER -> o9
      BY Zenon DEF ParseCharacter
    <3>2. ~h2 /\ ~h8 /\ (h3 <=> g3)
      BY <2>2, <2>3, Zenon
    <3> HIDE DEF g1, h2, h3, g3, g4, g5, g6, g7, h8, o1, o2, o3, o4, o6, o7, o8, o9
    <3> QED
      BY ONLY <3>1, <3>2
  <2> HIDE DEF It
  <2> QED
    BY <2>1, <2>3
<1> QED
  BY <1>1, <1>2, <1>3

LEMMA ParsedIs ==
  ASSUME NEW p
  PROVE  /\ Parsed(p).rows = IF p.started /\ ~p.failed THEN EndRow(p).rows ELSE p.rows
         /\ Parsed(p).failed <=> p.failed \/ p.quoted
<1> DEFINE all == IF p.started /\ ~p.failed THEN EndRow(p).rows ELSE p.rows
           fails == p.failed \/ p.quoted
           r == Parsed(p)
<1>1. r = [rows |-> all, failed |-> fails]
  BY Zenon DEF Parsed
<1> HIDE DEF r, all, fails
<1>2. r.rows = all /\ r.failed = fails
  BY ONLY <1>1
<1> QED
  BY <1>2, Zenon DEF r, all, fails

LEMMA EndRowIs ==
  ASSUME NEW a, NEW b, NEW c, NEW q, NEW l, NEW s, NEW k
  PROVE  EndRow(Amid(a, b, c, q, l, s, k)).rows = Append(a, Append(b, c))
<1> DEFINE y == Amid(a, b, c, q, l, s, k)
           v == Append(b, c)
           e == Amid(a, v, <<>>, q, No, s, k)
           f == Amid(Append(a, v), <<>>, <<>>, q, No, No, k)
<1>1. EndCell(y) = e
  <2>1. EndCell(y) = WithCellEnded(y, Append(y.row, y.cell), <<>>, No)
    <3> HIDE DEF y
    <3> QED
      BY Zenon DEF EndCell, WithCellEnded, No
  <2>2. y.cell = c /\ y.row = b
    BY ONLY AmidFields
  <2>3. WithCellEnded(y, Append(b, c), <<>>, No) = Amid(a, Append(b, c), <<>>, q, No, s, k)
    BY ONLY CellEndedIs DEF Amid
  <2> QED
    BY <2>1, <2>2, <2>3
<1> HIDE DEF v
<1>2. e.rows = a /\ e.row = v
  BY ONLY AmidFields
<1>3. EndRow(y) = WithRowEnded(EndCell(y), Append(EndCell(y).rows, EndCell(y).row), <<>>, No)
  <2> HIDE DEF y
  <2> QED
    BY Zenon DEF EndRow, WithRowEnded, No
<1>4. WithRowEnded(e, Append(a, v), <<>>, No) = f
  BY ONLY RowEndedIs DEF Amid
<1>5. EndRow(y) = f
  BY <1>1, <1>2, <1>3, <1>4
<1> DEFINE w == Append(a, v)
<1> HIDE DEF w
<1>6. Amid(w, <<>>, <<>>, q, No, No, k).rows = w
  BY ONLY AmidFields
<1> QED
  BY <1>5, <1>6 DEF w, v

LEMMA FailedAt ==
  ASSUME NEW a, NEW b, NEW c, NEW q, NEW l, NEW s, NEW k
  PROVE  Parsed(Amid(a, b, c, q, l, s, k)).failed <=> q
<1> DEFINE p == Amid(a, b, c, q, l, s, k)
<1>1. p.failed = No /\ p.quoted = q
  BY ONLY AmidFields
<1> HIDE DEF p
<1>2. Parsed(p).failed <=> p.failed \/ p.quoted
  BY ParsedIs
<1>3. Parsed(p).failed <=> q
  BY ONLY <1>1, <1>2, Zenon DEF No
<1> QED
  BY <1>3, Zenon DEF p

LEMMA RowsBetween ==
  ASSUME NEW a, NEW b, NEW c, NEW q, NEW l, NEW k
  PROVE  Parsed(Amid(a, b, c, q, l, No, k)).rows = a
<1> DEFINE p == Amid(a, b, c, q, l, No, k)
<1>1. p.started = No /\ p.rows = a
  BY ONLY AmidFields
<1> HIDE DEF p
<1>2. ~p.started
  BY <1>1, Zenon DEF No
<1>3. Parsed(p).rows = p.rows
  BY <1>2, ParsedIs, Zenon
<1> QED
  BY <1>1, <1>3 DEF p

LEMMA RowsWithin ==
  ASSUME NEW a, NEW b, NEW c, NEW q, NEW l, NEW k
  PROVE  Parsed(Amid(a, b, c, q, l, Yes, k)).rows = Append(a, Append(b, c))
<1> DEFINE p == Amid(a, b, c, q, l, Yes, k)
<1>1. p.started = Yes /\ p.failed = No
  BY ONLY AmidFields
<1>2. EndRow(p).rows = Append(a, Append(b, c))
  BY ONLY EndRowIs
<1> HIDE DEF p
<1>3. p.started /\ ~p.failed
  BY <1>1, Zenon DEF No, Yes
<1>4. Parsed(p).rows = EndRow(p).rows
  BY <1>3, ParsedIs, Zenon
<1> QED
  BY <1>2, <1>4 DEF p

\* A record by itself: the line feed ends it, if it is not inside quotes.
LEMMA RecordIs ==
  ASSUME NEW b, NEW c, NEW l, NEW s, NEW d, d \notin {"quote", "cr", "lf"}
  PROVE  LET r == Parsed(ParseStep(Amid(<<>>, b, c, No, l, s, No), "lf", "end", d))
         IN ~r.failed /\ r.rows = <<Append(b, c)>>
<1> DEFINE v == Append(b, c)
           none == <<>>
           w == Append(none, v)
<1>1. w = <<v>>
  <2> HIDE DEF v
  <2>1. none \in Seq({v}) /\ v \in {v} /\ Len(none) = 0
    OBVIOUS
  <2>2. w \in Seq({v}) /\ Len(w) = 1 /\ w[1] = v
    BY <2>1
  <2>3. <<v>> \in Seq({v}) /\ Len(<<v>>) = 1 /\ <<v>>[1] = v
    OBVIOUS
  <2> HIDE DEF w
  <2> QED
    BY <2>2, <2>3
<1>2. ParseStep(Amid(none, b, c, No, l, s, No), "lf", "end", d)
        = Amid(w, none, none, No, No, No, No)
  <2> HIDE DEF none
  <2>1. ParseStep(Amid(none, b, c, No, l, s, No), "lf", "end", d)
          = Amid(Append(none, Append(b, c)), <<>>, <<>>, No, No, No, No)
    BY StepLf
  <2> QED
    BY <2>1 DEF none
<1> DEFINE p == Amid(w, none, none, No, No, No, No)
<1> HIDE DEF v, w, none
<1>3. Parsed(p).failed <=> No
  BY ONLY FailedAt
<1>4. Parsed(p).rows = w
  BY ONLY RowsBetween
<1> HIDE DEF p
<1>5. ~Parsed(p).failed
  BY <1>3, Zenon DEF No
<1> QED
  BY <1>1, <1>2, <1>4, <1>5, Zenon DEF v, none, p

LEMMA RecordOpen ==
  ASSUME NEW b, NEW c, NEW s, NEW d
  PROVE  Parsed(ParseStep(Amid(<<>>, b, c, Yes, No, s, No), "lf", "end", d)).failed
<1>1. ParseStep(Amid(<<>>, b, c, Yes, No, s, No), "lf", "end", d)
        = Amid(<<>>, b, Append(c, "lf"), Yes, No, Yes, No)
  BY StepQuoted
<1>2. Parsed(Amid(<<>>, b, Append(c, "lf"), Yes, No, Yes, No)).failed
  BY FailedAt, Zenon DEF Yes
<1> QED
  BY <1>1, <1>2, Zenon

LEMMA RecordFails ==
  ASSUME NEW p, p.failed, NEW x, NEW next, NEW d
  PROVE  Parsed(ParseStep(p, x, next, d)).failed
<1>1. ParseStep(p, x, next, d) = p
  BY StaysFailed
<1>2. Parsed(p).failed
  BY ParsedIs, Zenon
<1> QED
  BY <1>1, <1>2, Zenon

\* What the reader has: the record it is at, and what its records give.
Current(s) == Unmarked(s.record, Len(s.records) + 1)
Result(recs, i, d) == Parse(Append(Unmarked(recs[i], i), "lf"), d)
AllFine(recs, d) == \A i \in DOMAIN recs : ~Result(recs, i, d).failed
RowsRead(recs, d) == [i \in DOMAIN recs |-> Last(Result(recs, i, d).rows)]
StartedBy(r) == IF r = <<>> THEN No ELSE Yes
SkipsNext(s, next, k) == IF s.skipLf /\ next = "lf" THEN Yes ELSE k

\* Parsing all goes like parsing the record, after the rows of the records before it.
AgreesAs(s, p, next, d, b, e, q, l, k) ==
  /\ InShape(s.quoted, next, q, l, StartedBy(Current(s)), k)
  /\ UpTo(Current(s), next, d) = Amid(<<>>, b, e, q, l, StartedBy(Current(s)), k)
  /\ \/ p.failed /\ ~AllFine(s.records, d)
     \/ /\ AllFine(s.records, d)
        /\ p = Amid(RowsRead(s.records, d), b, e, q, l,
                    StartedBy(Current(s)), SkipsNext(s, next, k))
Agrees(s, p, next, d) ==
  \/ UpTo(Current(s), next, d).failed /\ p.failed
  \/ \E b, e, q, l, k : AgreesAs(s, p, next, d, b, e, q, l, k)

SideBySide(t, s, d) ==
  /\ s.records = <<>> => s.record = t
  /\ s.skipLf => s.record = <<>> /\ s.records # <<>> /\ ~s.quoted
  /\ \A y, z : y # "quote" /\ z # "quote" => UpTo(Current(s), y, d) = UpTo(Current(s), z, d)
  /\ \A next : Agrees(s, UpTo(Unmarked(t, 1), next, d), next, d)

LEMMA UnmarkedGrows ==
  ASSUME NEW r \in Seq(Character), NEW i
  PROVE  /\ Unmarked(r, i) \in Seq(Character)
         /\ Unmarked(<<>>, i) = <<>>
         /\ r # <<>> /\ Unmarked(r, i) = <<>> => i = 1 /\ r = <<"mark">>
         /\ \A x \in Character : r # <<>> \/ i # 1 \/ x # "mark" =>
              Unmarked(Append(r, x), i) = Append(Unmarked(r, i), x)
<1>1. r # <<>> => Tail(r) \in Seq(Character)
  OBVIOUS
<1>2. Unmarked(r, i) \in Seq(Character)
  BY <1>1, Zenon DEF Unmarked
<1>3. Unmarked(<<>>, i) = <<>>
  BY Zenon DEF Unmarked
<1>4. ASSUME r # <<>>, Unmarked(r, i) = <<>> PROVE i = 1 /\ r = <<"mark">>
  <2>1. i = 1 /\ r[1] = "mark" /\ Tail(r) = <<>>
    BY <1>4, Zenon DEF Unmarked
  <2>2. Len(r) = 1
    <3>1. Len(Tail(r)) = Len(r) - 1 /\ Len(r) \in Nat
      BY <1>4
    <3>2. Len(<<>>) = 0
      OBVIOUS
    <3>3. Len(Tail(r)) = 0
      BY <2>1, <3>2, Zenon
    <3> QED
      BY ONLY <3>1, <3>3
  <2> DEFINE m == "mark"
  <2>3. <<m>> \in Seq({m}) /\ Len(<<m>>) = 1 /\ <<m>>[1] = m
    OBVIOUS
  <2>4. r[1] = m
    BY <2>1
  <2> HIDE DEF m
  <2>5. r = <<m>>
    BY <2>2, <2>3, <2>4
  <2> QED
    BY <2>1, <2>5 DEF m
<1>5. ASSUME NEW x \in Character, r # <<>> \/ i # 1 \/ x # "mark"
      PROVE  Unmarked(Append(r, x), i) = Append(Unmarked(r, i), x)
  <2> DEFINE u == Append(r, x)
  <2>1. u # <<>> /\ (r # <<>> => u[1] = r[1] /\ Tail(u) = Append(Tail(r), x))
        /\ (r = <<>> => u[1] = x)
    <3>1. u \in Seq(Character) /\ Len(u) = Len(r) + 1 /\ Len(r) \in Nat
          /\ (\A j \in 1..Len(r) : u[j] = r[j]) /\ u[Len(r) + 1] = x
      OBVIOUS
    <3>2. ASSUME r # <<>> PROVE u[1] = r[1] /\ Tail(u) = Append(Tail(r), x)
      BY <3>2
    <3>3. ASSUME r = <<>> PROVE u[1] = x
      <4>1. Len(r) + 1 = 1
        BY <3>3
      <4> QED
        BY <3>1, <4>1
    <3>4. u # <<>>
      <4>1. Len(u) # 0 /\ Len(<<>>) = 0
        BY <3>1
      <4> QED
        BY <4>1
    <3> QED
      BY <3>2, <3>3, <3>4, Zenon
  <2> HIDE DEF u
  <2>2. CASE i = 1 /\ r # <<>>
    BY <2>1, <2>2, Zenon DEF Unmarked, u
  <2>3. CASE i = 1 /\ r = <<>>
    BY <1>5, <2>1, <2>3, Zenon DEF Unmarked, u
  <2>4. CASE i # 1
    BY <2>4, Zenon DEF Unmarked
  <2> QED
    BY <2>2, <2>3, <2>4
<1> QED
  BY <1>2, <1>3, <1>4, <1>5

LEMMA OneRecordMore ==
  ASSUME NEW recs \in Seq(Seq(Character)), NEW r \in Seq(Character), NEW d
  PROVE  LET made == Parse(Append(Unmarked(r, Len(recs) + 1), "lf"), d)
         IN /\ AllFine(Append(recs, r), d) <=> AllFine(recs, d) /\ ~made.failed
            /\ RowsRead(Append(recs, r), d) = Append(RowsRead(recs, d), Last(made.rows))
<1> DEFINE n == Len(recs)
           more == Append(recs, r)
           made == Parse(Append(Unmarked(r, n + 1), "lf"), d)
<1>1. /\ n \in Nat /\ DOMAIN recs = 1..n /\ DOMAIN more = 1..(n + 1) /\ more[n + 1] = r
      /\ \A i \in 1..n : more[i] = recs[i]
  OBVIOUS
<1>2. Result(more, n + 1, d) = made
  BY <1>1 DEF Result
<1>3. \A i \in 1..n : Result(more, i, d) = Result(recs, i, d)
  BY <1>1 DEF Result
<1> HIDE DEF more, made
<1>4. \A i : i \in 1..(n + 1) <=> i \in 1..n \/ i = n + 1
  BY <1>1
<1>5. AllFine(more, d) <=> AllFine(recs, d) /\ ~made.failed
  BY <1>1, <1>2, <1>3, <1>4, Zenon DEF AllFine
<1>6. RowsRead(more, d) = Append(RowsRead(recs, d), Last(made.rows))
  <2> DEFINE V == {Last(Result(more, i, d).rows) : i \in 1..(n + 1)}
             Row(i) == Last(Result(more, i, d).rows)
             few == [i \in 1..n |-> Row(i)]
             all == [i \in 1..(n + 1) |-> Row(i)]
  <2>1. RowsRead(more, d) = all
    BY <1>1 DEF RowsRead
  <2>2. RowsRead(recs, d) = few
    BY <1>1, <1>3 DEF RowsRead
  <2>3. Last(made.rows) = Row(n + 1)
    BY <1>2
  <2>4. \A i \in 1..(n + 1) : Row(i) \in V
    OBVIOUS
  <2> HIDE DEF Row, V
  <2>5. few \in Seq(V) /\ all \in Seq(V) /\ Len(few) = n /\ Len(all) = n + 1
    BY <1>1, <2>4
  <2>6. all = Append(few, Row(n + 1))
    <3>1. Row(n + 1) \in V
      BY <1>1, <2>4
    <3> DEFINE w == Append(few, Row(n + 1))
    <3>2. w \in Seq(V) /\ Len(w) = n + 1 /\ w[n + 1] = Row(n + 1)
          /\ \A i \in 1..n : w[i] = few[i]
      <4> HIDE DEF few
      <4> QED
        BY <1>1, <2>5, <3>1
    <3>3. \A i \in 1..(n + 1) : w[i] = all[i]
      <4>1. \A i \in 1..n : w[i] = Row(i)
        BY <3>2
      <4> HIDE DEF w, few
      <4>2. \A i \in 1..(n + 1) : w[i] = Row(i)
        BY <1>4, <3>2, <4>1
      <4> QED
        BY <4>2
    <3> HIDE DEF w, all
    <3>4. w = all
      BY <2>5, <3>2, <3>3
    <3> QED
      BY <3>4 DEF w
  <2> QED
    BY <2>1, <2>2, <2>3, <2>6
<1> QED
  BY <1>5, <1>6, Zenon DEF more, made

LEMMA StartIs == ParseStart = Amid(<<>>, <<>>, <<>>, No, No, No, No)
BY Zenon DEF ParseStart, Amid, ParseAs, No

\* What a byte does, unless it makes the record too long.
LEMMA ByteTaken ==
  ASSUME NEW s \in CutState, NEW x \in Character, ~TakeByte(s, x).tooLong
  PROVE  LET m == TakeByte(s, x)
         IN /\ ~s.tooLong
            /\ \/ /\ s.skipLf /\ x = "lf"
                  /\ m.records = s.records /\ m.record = s.record
                  /\ (m.quoted <=> s.quoted) /\ ~m.skipLf
               \/ /\ ~(s.skipLf /\ x = "lf") /\ ~s.quoted /\ x \in Ends
                  /\ m.records = Append(s.records, s.record) /\ m.record = <<>>
                  /\ ~m.quoted /\ (m.skipLf <=> x = "cr")
               \/ /\ ~(s.skipLf /\ x = "lf") /\ (s.quoted \/ x \notin Ends)
                  /\ m.records = s.records /\ m.record = Append(s.record, x)
                  /\ (m.quoted <=> IF x = "quote" THEN ~s.quoted ELSE s.quoted) /\ ~m.skipLf
<1> DEFINE yes == TRUE
           no == FALSE
           cr == x = "cr"
           turned == ~s.quoted
           quoted == IF x = "quote" THEN turned ELSE s.quoted
           more == Append(s.records, s.record)
           longer == Append(s.record, x)
           empty == <<>>
           m == TakeByte(s, x)
<1>1. ~s.tooLong
  <2>1. s.tooLong => m = s
    BY Zenon DEF TakeByte
  <2> QED
    BY <2>1, Zenon
<1>2. \/ s.skipLf /\ x = "lf" /\ m = [s EXCEPT !.skipLf = no]
      \/ /\ ~(s.skipLf /\ x = "lf") /\ ~s.quoted /\ x \in Ends
         /\ m = [s EXCEPT !.records = more, !.record = empty, !.skipLf = cr]
      \/ m = [s EXCEPT !.tooLong = yes]
      \/ /\ ~(s.skipLf /\ x = "lf") /\ (s.quoted \/ x \notin Ends)
         /\ m = [s EXCEPT !.record = longer, !.skipLf = no, !.quoted = quoted]
  <2> DEFINE lf == s.skipLf /\ x = "lf"
             ends == ~(s.skipLf /\ x = "lf") /\ ~s.quoted /\ x \in Ends
             goes == ~(s.skipLf /\ x = "lf") /\ (s.quoted \/ x \notin Ends)
  <2>2. CASE lf
    BY <1>1, <2>2, Zenon DEF TakeByte, no
  <2>3. CASE ends
    BY <1>1, <2>3, Zenon DEF TakeByte, more, empty, cr
  <2>4. CASE goes /\ Len(s.record) = MaxRecordBytes
    BY <1>1, <2>4, Zenon DEF TakeByte, yes
  <2>5. CASE goes /\ Len(s.record) # MaxRecordBytes
    BY <1>1, <2>5, Zenon DEF TakeByte, longer, no, quoted, turned
  <2> QED
    BY <2>2, <2>3, <2>4, <2>5, Zenon
<1> HIDE DEF yes, no, cr, quoted, more, longer, empty
<1>3. \A g : g = [s EXCEPT !.tooLong = yes] => g.tooLong = yes
  BY ONLY s \in CutState DEF CutState
<1>4. m # [s EXCEPT !.tooLong = yes]
  <2> HIDE DEF m
  <2>1. ~m.tooLong
    BY DEF m
  <2> QED
    BY <1>3, <2>1, Zenon DEF yes
<1>5. \A g : g = [s EXCEPT !.skipLf = no] =>
         g.records = s.records /\ g.record = s.record /\ g.quoted = s.quoted /\ g.skipLf = no
  BY ONLY s \in CutState DEF CutState
<1>6. \A g : g = [s EXCEPT !.records = more, !.record = empty, !.skipLf = cr] =>
         g.records = more /\ g.record = empty /\ g.quoted = s.quoted /\ g.skipLf = cr
  BY ONLY s \in CutState DEF CutState
<1>7. \A g : g = [s EXCEPT !.record = longer, !.skipLf = no, !.quoted = quoted] =>
         g.records = s.records /\ g.record = longer /\ g.quoted = quoted /\ g.skipLf = no
  BY ONLY s \in CutState DEF CutState
<1> HIDE DEF m
<1>8. CASE s.skipLf /\ x = "lf" /\ m = [s EXCEPT !.skipLf = no]
  <2>1. m.records = s.records /\ m.record = s.record /\ m.quoted = s.quoted /\ m.skipLf = no
    BY <1>5, <1>8
  <2>2. (m.quoted <=> s.quoted) /\ ~m.skipLf
    BY <2>1, Zenon DEF no
  <2> QED
    BY <1>1, <1>8, <2>1, <2>2, Zenon DEF m
<1>9. CASE /\ ~(s.skipLf /\ x = "lf") /\ ~s.quoted /\ x \in Ends
           /\ m = [s EXCEPT !.records = more, !.record = empty, !.skipLf = cr]
  <2>1. m.records = more /\ m.record = empty /\ m.quoted = s.quoted /\ m.skipLf = cr
    BY <1>6, <1>9
  <2>2. ~m.quoted /\ (m.skipLf <=> x = "cr")
    BY <1>9, <2>1, Zenon DEF cr
  <2> QED
    BY <1>1, <1>9, <2>1, <2>2, Zenon DEF m, more, empty
<1>10. CASE /\ ~(s.skipLf /\ x = "lf") /\ (s.quoted \/ x \notin Ends)
            /\ m = [s EXCEPT !.record = longer, !.skipLf = no, !.quoted = quoted]
  <2>1. m.records = s.records /\ m.record = longer /\ m.quoted = quoted /\ m.skipLf = no
    BY <1>7, <1>10
  <2>2. (m.quoted <=> IF x = "quote" THEN ~s.quoted ELSE s.quoted) /\ ~m.skipLf
    BY <2>1, Zenon DEF no, quoted
  <2> QED
    BY <1>1, <1>10, <2>1, <2>2, Zenon DEF m, longer
<1> QED
  BY <1>2, <1>4, <1>8, <1>9, <1>10, Zenon

LEMMA StartFields ==
  ASSUME NEW b, NEW e, NEW q, NEW l, NEW s, NEW k, ParseStart = Amid(<<>>, b, e, q, l, s, k)
  PROVE  b = <<>> /\ e = <<>> /\ q = No /\ l = No /\ s = No /\ k = No
<1> DEFINE none == <<>>
           p == Amid(none, b, e, q, l, s, k)
           o == Amid(none, none, none, No, No, No, No)
<1> HIDE DEF none
<1>1. p.row = b /\ p.cell = e /\ p.quoted = q /\ p.closed = l /\ p.started = s /\ p.skip = k
  BY ONLY AmidFields
<1>2. /\ o.row = none /\ o.cell = none /\ o.quoted = No /\ o.closed = No /\ o.started = No
      /\ o.skip = No
  BY ONLY AmidFields
<1>3. p = o
  BY StartIs DEF none
<1> HIDE DEF p, o
<1>4. b = none /\ e = none /\ q = No /\ l = No /\ s = No /\ k = No
  BY ONLY <1>1, <1>2, <1>3
<1> QED
  BY <1>4 DEF none

LEMMA StartSound == ~ParseStart.failed
<1> DEFINE none == <<>>
           o == Amid(none, none, none, No, No, No, No)
<1> HIDE DEF none
<1>1. o.failed = No
  BY ONLY AmidFields
<1>2. ParseStart = o
  BY StartIs DEF none
<1> HIDE DEF o
<1> QED
  BY <1>1, <1>2, Zenon DEF No

\* The witnesses of an agreement.
LEMMA AgreesIf ==
  ASSUME NEW s, NEW p, NEW next, NEW d, NEW b, NEW e, NEW q, NEW l, NEW k,
         AgreesAs(s, p, next, d, b, e, q, l, k)
  PROVE  Agrees(s, p, next, d)
BY Zenon DEF Agrees

\* Between two records.
LEMMA AgreesBetween ==
  ASSUME NEW s, NEW p, NEW next, NEW d, Current(s) = <<>>, ~s.quoted,
         \/ p.failed /\ ~AllFine(s.records, d)
         \/ /\ AllFine(s.records, d)
            /\ p = Amid(RowsRead(s.records, d), <<>>, <<>>, No, No, No, SkipsNext(s, next, No))
  PROVE  Agrees(s, p, next, d)
<1>1. UpTo(Current(s), next, d) = Amid(<<>>, <<>>, <<>>, No, No, No, No)
  <2>1. UpTo(<<>>, next, d) = ParseStart
    BY UpToGrows
  <2> QED
    BY <2>1, StartIs
<1>2. StartedBy(Current(s)) = No
  BY Zenon DEF StartedBy
<1>3. InShape(s.quoted, next, No, No, No, No)
  BY Zenon DEF InShape
<1>4. AgreesAs(s, p, next, d, <<>>, <<>>, No, No, No)
  BY <1>1, <1>2, <1>3, Zenon DEF AgreesAs
<1> QED
  BY <1>4, AgreesIf

\* The line feed after a carriage return.
LEMMA SkipsLf ==
  ASSUME NEW s, NEW m, NEW p, NEW d, NEW next,
         s.skipLf, s.record = <<>>, m.records = s.records, m.record = <<>>,
         ~m.quoted, ~m.skipLf, Agrees(s, p, "lf", d)
  PROVE  Agrees(m, ParseStep(p, "lf", next, d), next, d)
<1>1. Current(s) = <<>> /\ Current(m) = <<>>
  <2>1. <<>> \in Seq(Character)
    OBVIOUS
  <2>2. \A i : Unmarked(<<>>, i) = <<>>
    BY <2>1, UnmarkedGrows
  <2> QED
    BY <2>2 DEF Current
<1>2. UpTo(Current(s), "lf", d) = ParseStart
  BY <1>1, UpToGrows
<1>3. PICK b, e, q, l, k : AgreesAs(s, p, "lf", d, b, e, q, l, k)
  BY <1>2, StartSound, Zenon DEF Agrees
<1>4. b = <<>> /\ e = <<>> /\ q = No /\ l = No /\ StartedBy(Current(s)) = No /\ k = No
  <2>1. ParseStart = Amid(<<>>, b, e, q, l, StartedBy(Current(s)), k)
    BY <1>2, <1>3, Zenon DEF AgreesAs
  <2> QED
    BY <2>1, StartFields
<1>5. SkipsNext(s, "lf", k) = Yes /\ SkipsNext(m, next, No) = No
  BY Zenon DEF SkipsNext
<1>6. CASE p.failed /\ ~AllFine(s.records, d)
  <2>1. ParseStep(p, "lf", next, d) = p
    BY <1>6, StaysFailed
  <2> QED
    BY <1>1, <1>6, <2>1, AgreesBetween
<1>7. CASE AllFine(s.records, d)
           /\ p = Amid(RowsRead(s.records, d), b, e, q, l,
                     StartedBy(Current(s)), SkipsNext(s, "lf", k))
  <2>1. p = Amid(RowsRead(s.records, d), <<>>, <<>>, No, No, No, Yes)
    BY <1>4, <1>5, <1>7, Zenon
  <2> DEFINE R == RowsRead(s.records, d)
             none == <<>>
  <2> HIDE DEF R, none
  <2>2. ParseStep(Amid(R, none, none, No, No, No, Yes), "lf", next, d)
          = Amid(R, none, none, No, No, No, No)
    BY ONLY StepSkip
  <2>3. ParseStep(p, "lf", next, d)
          = Amid(RowsRead(m.records, d), <<>>, <<>>, No, No, No, SkipsNext(m, next, No))
    BY <1>5, <2>1, <2>2, Zenon DEF R, none
  <2>4. AllFine(m.records, d)
    BY <1>7
  <2> QED
    BY <1>1, <2>3, <2>4, AgreesBetween
<1> QED
  BY <1>3, <1>6, <1>7, Zenon DEF AgreesAs

\* The end of a record.
LEMMA EndsRecord ==
  ASSUME NEW s \in CutState, NEW m, NEW p, NEW x \in Ends, NEW next, NEW d,
         d \notin {"quote", "cr", "lf"},
         ~s.quoted, ~(s.skipLf /\ x = "lf"),
         m.records = Append(s.records, s.record), m.record = <<>>,
         ~m.quoted, m.skipLf <=> x = "cr",
         UpTo(Current(s), x, d) = UpTo(Current(s), "lf", d), Agrees(s, p, x, d)
  PROVE  Agrees(m, ParseStep(p, x, next, d), next, d)
<1> DEFINE r == Current(s)
           c == UpTo(r, x, d)
           made == Parse(Append(r, "lf"), d)
<1>1. s.records \in Seq(Seq(Character)) /\ s.record \in Seq(Character) /\ r \in Seq(Character)
  <2>1. s.records \in Seq(Seq(Character)) /\ s.record \in Seq(Character)
    BY DEF CutState
  <2> QED
    BY <2>1, UnmarkedGrows DEF Current
<1>2. Current(m) = <<>>
  <2>1. <<>> \in Seq(Character)
    OBVIOUS
  <2> QED
    BY <2>1, UnmarkedGrows DEF Current
<1>3. made = Parsed(ParseStep(c, "lf", "end", d))
  <2>1. "lf" \in Character
    BY DEF Character
  <2>2. made = Parsed(UpTo(Append(r, "lf"), "end", d))
    BY ParseIs
  <2>3. UpTo(Append(r, "lf"), "end", d) = ParseStep(UpTo(r, "lf", d), "lf", "end", d)
    BY <1>1, <2>1, UpToGrows
  <2> QED
    BY <2>2, <2>3
<1>4. /\ AllFine(m.records, d) <=> AllFine(s.records, d) /\ ~made.failed
      /\ RowsRead(m.records, d) = Append(RowsRead(s.records, d), Last(made.rows))
  BY <1>1, OneRecordMore DEF Current
<1>5. CASE c.failed /\ p.failed
  <2>1. made.failed
    BY <1>3, <1>5, RecordFails
  <2>2. ParseStep(p, x, next, d) = p
    BY <1>5, StaysFailed
  <2>3. ~AllFine(m.records, d)
    BY <1>4, <2>1, Zenon
  <2> QED
    BY <1>2, <1>5, <2>2, <2>3, AgreesBetween
<1>6. ASSUME NEW b, NEW e, NEW q, NEW l, NEW k, AgreesAs(s, p, x, d, b, e, q, l, k)
      PROVE  Agrees(m, ParseStep(p, x, next, d), next, d)
  <2> DEFINE st == StartedBy(r)
             v == Append(b, e)
  <2>1. InShape(s.quoted, x, q, l, st, k) /\ c = Amid(<<>>, b, e, q, l, st, k)
    BY <1>6, Zenon DEF AgreesAs
  <2>2. x # "quote"
    BY Zenon DEF Ends
  <2>3. q = No /\ k = No
    BY <2>1, <2>2, Zenon DEF InShape
  <2> HIDE DEF st
  <2>4. c = Amid(<<>>, b, e, No, l, st, No)
    BY <2>1, <2>3, Zenon
  <2> HIDE DEF made, c
  <2>5. ~made.failed /\ made.rows = <<v>>
    <3> DEFINE g == Parsed(ParseStep(Amid(<<>>, b, e, No, l, st, No), "lf", "end", d))
    <3>1. ~g.failed /\ g.rows = <<Append(b, e)>>
      BY RecordIs
    <3>2. made = g
      BY <1>3, <2>4, Zenon
    <3> HIDE DEF g
    <3> QED
      BY <3>1, <3>2, Zenon
  <2>6. Last(made.rows) = v
    <3> HIDE DEF v
    <3>1. Last(<<v>>) = v
      BY DEF Last
    <3> QED
      BY <2>5, <3>1
  <2>7. CASE p.failed /\ ~AllFine(s.records, d)
    <3>1. ParseStep(p, x, next, d) = p
      BY <2>7, StaysFailed
    <3>2. ~AllFine(m.records, d)
      BY <1>4, <2>7, Zenon
    <3> QED
      BY <1>2, <2>7, <3>1, <3>2, AgreesBetween
  <2>8. CASE AllFine(s.records, d)
             /\ p = Amid(RowsRead(s.records, d), b, e, q, l, st, SkipsNext(s, x, k))
    <3> DEFINE R == RowsRead(s.records, d)
    <3>1. SkipsNext(s, x, k) = No
      BY <2>3, Zenon DEF SkipsNext
    <3>2. p = Amid(R, b, e, No, l, st, No)
      BY <2>3, <2>8, <3>1, Zenon
    <3>3. ParseStep(p, x, next, d)
            = Amid(Append(R, v), <<>>, <<>>, No, No, No, SkipsNext(m, next, No))
      <4>1. CASE x = "lf"
        <5>1. SkipsNext(m, next, No) = No
          BY <4>1, Zenon DEF SkipsNext
        <5> HIDE DEF R
        <5>2. ParseStep(Amid(R, b, e, No, l, st, No), "lf", next, d)
                = Amid(Append(R, Append(b, e)), <<>>, <<>>, No, No, No, No)
          BY StepLf
        <5> QED
          BY <3>2, <4>1, <5>1, <5>2, Zenon
      <4>2. CASE x = "cr"
        <5>1. SkipsNext(m, next, No) = (next = "lf")
          BY <4>2, Zenon DEF SkipsNext, No, Yes
        <5> HIDE DEF R
        <5>2. ParseStep(Amid(R, b, e, No, l, st, No), "cr", next, d)
                = Amid(Append(R, Append(b, e)), <<>>, <<>>, No, No, No, next = "lf")
          BY StepCr
        <5> QED
          BY <3>2, <4>2, <5>1, <5>2, Zenon
      <4> QED
        BY <4>1, <4>2 DEF Ends
    <3>4. RowsRead(m.records, d) = Append(R, v)
      BY <1>4, <2>6, Zenon
    <3>5. AllFine(m.records, d)
      BY <1>4, <2>5, <2>8, Zenon
    <3>6. ParseStep(p, x, next, d)
            = Amid(RowsRead(m.records, d), <<>>, <<>>, No, No, No, SkipsNext(m, next, No))
      BY <3>3, <3>4, Zenon
    <3> QED
      BY <1>2, <3>5, <3>6, AgreesBetween
  <2> QED
    BY <1>6, <2>7, <2>8, Zenon DEF AgreesAs, st
<1> QED
  BY <1>5, <1>6, Zenon DEF Agrees

\* A byte of the record.
LEMMA Extends ==
  ASSUME NEW s \in CutState, NEW m, NEW p, NEW x \in Character, NEW next, NEW d,
         d \notin {"quote", "cr", "lf"},
         s.quoted \/ x \notin Ends, ~(s.skipLf /\ x = "lf"),
         m.records = s.records, Current(s) \in Seq(Character), Current(m) = Append(Current(s), x),
         m.quoted <=> IF x = "quote" THEN ~s.quoted ELSE s.quoted, ~m.skipLf,
         Agrees(s, p, x, d)
  PROVE  Agrees(m, ParseStep(p, x, next, d), next, d)
<1> DEFINE r == Current(s)
           c == UpTo(r, x, d)
           turned == IF x = "quote" THEN ~s.quoted ELSE s.quoted
<1>1. UpTo(Current(m), next, d) = ParseStep(c, x, next, d)
  BY UpToGrows
<1>2. CASE c.failed /\ p.failed
  <2>1. ParseStep(p, x, next, d) = p /\ ParseStep(c, x, next, d) = c
    BY <1>2, StaysFailed
  <2> QED
    BY <1>1, <1>2, <2>1, Zenon DEF Agrees
<1>3. ASSUME NEW b, NEW e, NEW q, NEW l, NEW k, AgreesAs(s, p, x, d, b, e, q, l, k)
      PROVE  Agrees(m, ParseStep(p, x, next, d), next, d)
  <2> DEFINE st == StartedBy(r)
             R == RowsRead(s.records, d)
  <2>1. InShape(s.quoted, x, q, l, st, k) /\ c = Amid(<<>>, b, e, q, l, st, k)
    BY <1>3, Zenon DEF AgreesAs
  <2>2. s.quoted \in BOOLEAN
    BY DEF CutState
  <2>3. StartedBy(Current(m)) = Yes
    <3>1. Append(r, x) # <<>>
      <4>1. Len(Append(r, x)) # 0 /\ Len(<<>>) = 0
        OBVIOUS
      <4> QED
        BY <4>1
    <3> QED
      BY <3>1, Zenon DEF StartedBy
  <2>4. SkipsNext(s, x, k) = k
    BY Zenon DEF SkipsNext
  <2>5. \/ p.failed /\ ~AllFine(s.records, d)
        \/ AllFine(s.records, d) /\ p = Amid(R, b, e, q, l, st, k)
    BY <1>3, <2>4, Zenon DEF AgreesAs
  <2> HIDE DEF st, R, c
  <2> DEFINE Made(a) == ParseStep(Amid(a, b, e, q, l, st, k), x, next, d)
             Goes(b2, c2, q2, l2, k2) == /\ InShape(turned, next, q2, l2, Yes, k2)
                                         /\ \A a : Made(a) = Amid(a, b2, c2, q2, l2, Yes, k2)
  <2>6. (\A a : Made(a).failed) \/ (\E b2, c2, q2, l2, k2 : Goes(b2, c2, q2, l2, k2))
    <3>1. \/ \A a : ParseStep(Amid(a, b, e, q, l, st, k), x, next, d).failed
          \/ \E b2, c2, q2, l2, k2 :
               /\ InShape(IF x = "quote" THEN ~s.quoted ELSE s.quoted, next, q2, l2, Yes, k2)
               /\ \A a : ParseStep(Amid(a, b, e, q, l, st, k), x, next, d)
                           = Amid(a, b2, c2, q2, l2, Yes, k2)
      BY <2>1, <2>2, GoesOn
    <3> QED
      BY <3>1, Zenon
  <2>7. p.failed => ParseStep(p, x, next, d).failed
    BY StaysFailed, Zenon
  <2>8. CASE \A a : Made(a).failed
    <3>1. ParseStep(c, x, next, d).failed
      BY <2>1, <2>8, Zenon
    <3>2. ParseStep(p, x, next, d).failed
      BY <2>5, <2>7, <2>8, Zenon
    <3> QED
      BY <1>1, <3>1, <3>2, Zenon DEF Agrees
  <2>9. ASSUME NEW b2, NEW c2, NEW q2, NEW l2, NEW k2, Goes(b2, c2, q2, l2, k2)
        PROVE  Agrees(m, ParseStep(p, x, next, d), next, d)
    <3>1. ParseStep(c, x, next, d) = Amid(<<>>, b2, c2, q2, l2, Yes, k2)
      BY <2>1, <2>9, Zenon
    <3>2. InShape(m.quoted, next, q2, l2, Yes, k2)
      <4>1. InShape(turned, next, q2, l2, Yes, k2)
        BY <2>9, Zenon
      <4>2. m.quoted <=> turned
        BY Zenon
      <4> HIDE DEF turned
      <4> QED
        BY <4>1, <4>2, Zenon DEF InShape
    <3>3. SkipsNext(m, next, k2) = k2
      BY Zenon DEF SkipsNext
    <3>4. \/ ParseStep(p, x, next, d).failed /\ ~AllFine(m.records, d)
          \/ /\ AllFine(m.records, d)
             /\ ParseStep(p, x, next, d) = Amid(RowsRead(m.records, d), b2, c2, q2, l2, Yes, k2)
      <4>1. CASE p.failed /\ ~AllFine(s.records, d)
        BY <2>7, <4>1, Zenon
      <4>2. CASE AllFine(s.records, d) /\ p = Amid(R, b, e, q, l, st, k)
        <5>1. ParseStep(p, x, next, d) = Amid(R, b2, c2, q2, l2, Yes, k2)
          BY <2>9, <4>2, Zenon
        <5> QED
          BY <4>2, <5>1, Zenon DEF R
      <4> QED
        BY <2>5, <4>1, <4>2, Zenon
    <3>5. AgreesAs(m, ParseStep(p, x, next, d), next, d, b2, c2, q2, l2, k2)
      BY <1>1, <2>3, <3>1, <3>2, <3>3, <3>4, Zenon DEF AgreesAs
    <3> QED
      BY <3>5, AgreesIf
  <2> HIDE DEF Goes, Made
  <2> QED
    BY <2>6, <2>8, <2>9, Zenon
<1> QED
  BY <1>2, <1>3, Zenon DEF Agrees

\* What comes after a record does not matter to it, unless it is a quote.
LEMMA NextStays ==
  ASSUME NEW s \in CutState, NEW m, NEW p, NEW x \in Character, NEW d,
         s.quoted \/ x \notin Ends, Current(s) \in Seq(Character),
         Current(m) = Append(Current(s), x), Agrees(s, p, x, d)
  PROVE  \A y, z : y # "quote" /\ z # "quote" => UpTo(Current(m), y, d) = UpTo(Current(m), z, d)
<1> DEFINE c == UpTo(Current(s), x, d)
<1>1. \A y : UpTo(Current(m), y, d) = ParseStep(c, x, y, d)
  BY UpToGrows
<1>2. ASSUME ~c.failed, x = "cr" PROVE c.quoted
  <2>1. PICK b, e, q, l, k : AgreesAs(s, p, x, d, b, e, q, l, k)
    BY <1>2, Zenon DEF Agrees
  <2> DEFINE st == StartedBy(Current(s))
  <2>2. InShape(s.quoted, x, q, l, st, k) /\ c = Amid(<<>>, b, e, q, l, st, k)
    BY <2>1, Zenon DEF AgreesAs
  <2>3. s.quoted
    BY <1>2, Zenon DEF Ends
  <2>4. q = Yes
    BY <2>2, <2>3, Zenon DEF InShape
  <2> HIDE DEF c, st
  <2> DEFINE none == <<>>
  <2> HIDE DEF none
  <2>5. Amid(none, b, e, q, l, st, k).quoted = q
    BY ONLY AmidFields
  <2>6. c.quoted = Yes
    BY <2>2, <2>4, <2>5 DEF none
  <2> QED
    BY <2>6, Zenon DEF Yes
<1>3. c.failed \/ c.skip \/ c.quoted \/ x # "cr"
  BY <1>2, Zenon
<1> HIDE DEF c
<1>4. ASSUME NEW y, NEW z, y # "quote", z # "quote"
      PROVE  ParseStep(c, x, y, d) = ParseStep(c, x, z, d)
  BY <1>3, <1>4, NextMatters
<1> QED
  BY <1>1, <1>4

LEMMA CutStartFields ==
  /\ CutStart.records = <<>> /\ CutStart.record = <<>>
  /\ ~CutStart.quoted /\ ~CutStart.skipLf /\ ~CutStart.tooLong
<1> DEFINE no == FALSE
           none == <<>>
<1>1. CutStart = CutAs(none, none, no, no, no)
  BY Zenon DEF CutStart, CutAs
<1> HIDE DEF no, none
<1>2. /\ CutStart.records = none /\ CutStart.record = none
      /\ CutStart.quoted = no /\ CutStart.skipLf = no /\ CutStart.tooLong = no
  BY ONLY <1>1 DEF CutAs
<1> QED
  BY <1>2, Zenon DEF no, none

\* Before the first record, and after a byte order mark.
LEMMA BesideAtFirst ==
  ASSUME NEW t, NEW s, NEW d, s.records = <<>>, s.record = t, Current(s) = <<>>,
         ~s.quoted, ~s.skipLf, Unmarked(t, 1) = <<>>
  PROVE  SideBySide(t, s, d)
<1>1. \A next : UpTo(<<>>, next, d) = ParseStart
  BY UpToGrows
<1>2. AllFine(s.records, d) /\ RowsRead(s.records, d) = <<>>
  <2>1. DOMAIN s.records = {}
    <3>1. Len(<<>>) = 0 /\ <<>> \in Seq({}) /\ DOMAIN <<>> = {}
      OBVIOUS
    <3> QED
      BY <3>1
  <2>2. AllFine(s.records, d)
    BY <2>1, Zenon DEF AllFine
  <2>3. RowsRead(s.records, d) = <<>>
    <3> DEFINE Row(i) == Last(Result(s.records, i, d).rows)
    <3>1. RowsRead(s.records, d) = [i \in {} |-> Row(i)]
      BY <2>1 DEF RowsRead
    <3> HIDE DEF Row
    <3>2. [i \in {} |-> Row(i)] = <<>>
      OBVIOUS
    <3> QED
      BY <3>1, <3>2
  <2> QED
    BY <2>2, <2>3
<1>3. ASSUME NEW next PROVE Agrees(s, UpTo(Unmarked(t, 1), next, d), next, d)
  <2>1. SkipsNext(s, next, No) = No
    BY Zenon DEF SkipsNext
  <2>2. UpTo(Unmarked(t, 1), next, d)
          = Amid(RowsRead(s.records, d), <<>>, <<>>, No, No, No, SkipsNext(s, next, No))
    BY <1>1, <1>2, <2>1, StartIs
  <2> QED
    BY <1>2, <2>2, AgreesBetween
<1>4. \A y, z : UpTo(Current(s), y, d) = UpTo(Current(s), z, d)
  BY <1>1
<1> QED
  BY <1>3, <1>4, Zenon DEF SideBySide

LEMMA StaySideBySide ==
  ASSUME NEW t \in Seq(Character), NEW x \in Character, NEW d, d \notin {"quote", "cr", "lf"},
         t # <<>> \/ x # "mark",
         ~Taken(Append(t, x)).tooLong, SideBySide(t, Taken(t), d)
  PROVE  SideBySide(Append(t, x), Taken(Append(t, x)), d)
<1> DEFINE s == Taken(t)
           m == TakeByte(s, x)
           u == Unmarked(t, 1)
           w == Append(t, x)
           p == UpTo(u, x, d)
<1>1. s \in CutState /\ Taken(w) = m
  BY TakenGrows
<1>2. /\ s.records \in Seq(Seq(Character)) /\ s.record \in Seq(Character)
      /\ Current(s) \in Seq(Character)
  <2>1. s.records \in Seq(Seq(Character)) /\ s.record \in Seq(Character)
    BY <1>1 DEF CutState
  <2> QED
    BY <2>1, UnmarkedGrows DEF Current
<1>3. Unmarked(w, 1) = Append(u, x) /\ u \in Seq(Character)
  BY UnmarkedGrows
<1>4. \A next : UpTo(Unmarked(w, 1), next, d) = ParseStep(p, x, next, d)
  BY <1>3, UpToGrows
<1>5. /\ s.records = <<>> => s.record = t
      /\ s.skipLf => s.record = <<>> /\ s.records # <<>> /\ ~s.quoted
      /\ \A y, z : y # "quote" /\ z # "quote" => UpTo(Current(s), y, d) = UpTo(Current(s), z, d)
      /\ Agrees(s, p, x, d)
  BY Zenon DEF SideBySide
<1>6. ~m.tooLong
  BY <1>1
<1> HIDE DEF s, m, u, w, p
<1>7. CASE /\ s.skipLf /\ x = "lf"
           /\ m.records = s.records /\ m.record = s.record
           /\ (m.quoted <=> s.quoted) /\ ~m.skipLf
  <2>1. s.record = <<>> /\ s.records # <<>> /\ ~s.quoted /\ m.record = <<>> /\ ~m.quoted
        /\ m.records # <<>> /\ Agrees(s, p, "lf", d)
    BY <1>5, <1>7, Zenon
  <2>2. \A next : Agrees(m, ParseStep(p, "lf", next, d), next, d)
    BY <1>7, <2>1, SkipsLf, Zenon
  <2>3. Current(m) = <<>>
    <3>1. <<>> \in Seq(Character)
      OBVIOUS
    <3> QED
      BY <2>1, <3>1, UnmarkedGrows DEF Current
  <2>4. \A y, z : UpTo(Current(m), y, d) = UpTo(Current(m), z, d)
    BY <2>3, UpToGrows
  <2>5. \A next : Agrees(m, UpTo(Unmarked(w, 1), next, d), next, d)
    BY <1>4, <1>7, <2>2, Zenon
  <2> QED
    BY <1>1, <1>7, <2>1, <2>4, <2>5, Zenon DEF SideBySide, w
<1>8. CASE /\ ~(s.skipLf /\ x = "lf") /\ ~s.quoted /\ x \in Ends
           /\ m.records = Append(s.records, s.record) /\ m.record = <<>>
           /\ ~m.quoted /\ (m.skipLf <=> x = "cr")
  <2>1. x # "quote" /\ "lf" # "quote"
    BY <1>8 DEF Ends
  <2>2. UpTo(Current(s), x, d) = UpTo(Current(s), "lf", d)
    BY <1>5, <2>1, Zenon
  <2>3. ASSUME NEW next PROVE Agrees(m, ParseStep(p, x, next, d), next, d)
    BY <1>1, <1>5, <1>8, <2>2, EndsRecord
  <2>4. Current(m) = <<>>
    <3>1. <<>> \in Seq(Character)
      OBVIOUS
    <3> QED
      BY <1>8, <3>1, UnmarkedGrows DEF Current
  <2>5. \A y, z : UpTo(Current(m), y, d) = UpTo(Current(m), z, d)
    BY <2>4, UpToGrows
  <2>6. \A next : Agrees(m, UpTo(Unmarked(w, 1), next, d), next, d)
    BY <1>4, <2>3, Zenon
  <2>7. m.records # <<>>
    <3> DEFINE l == s.records
               g == s.record
    <3>1. l \in Seq(Seq(Character)) /\ g \in Seq(Character) /\ m.records = Append(l, g)
      BY <1>2, <1>8
    <3> HIDE DEF l, g
    <3>2. Len(Append(l, g)) # 0 /\ Len(<<>>) = 0
      BY ONLY <3>1
    <3> QED
      BY <3>1, <3>2
  <2> QED
    BY <1>1, <1>8, <2>5, <2>6, <2>7, Zenon DEF SideBySide, w
<1>9. CASE /\ ~(s.skipLf /\ x = "lf") /\ (s.quoted \/ x \notin Ends)
           /\ m.records = s.records /\ m.record = Append(s.record, x)
           /\ (m.quoted <=> IF x = "quote" THEN ~s.quoted ELSE s.quoted) /\ ~m.skipLf
  <2>1. Current(m) = Append(Current(s), x)
    <3> DEFINE i == Len(s.records) + 1
    <3>1. s.record # <<>> \/ i # 1 \/ x # "mark"
      <4>1. ASSUME i = 1 PROVE s.records = <<>>
        <5>1. Len(s.records) = 0
          BY <1>2, <4>1
        <5> QED
          BY <1>2, <5>1
      <4> HIDE DEF i
      <4> QED
        BY <1>5, <4>1, Zenon
    <3> HIDE DEF i
    <3>2. Unmarked(Append(s.record, x), i) = Append(Unmarked(s.record, i), x)
      BY <1>2, <3>1, UnmarkedGrows
    <3> QED
      BY <1>9, <3>2 DEF Current, i
  <2>2. ASSUME NEW next PROVE Agrees(m, ParseStep(p, x, next, d), next, d)
    BY <1>1, <1>2, <1>5, <1>9, <2>1, Extends
  <2>3. \A y, z : y # "quote" /\ z # "quote" => UpTo(Current(m), y, d) = UpTo(Current(m), z, d)
    <3>1. s \in CutState /\ (s.quoted \/ x \notin Ends) /\ Agrees(s, p, x, d)
          /\ Current(s) \in Seq(Character)
      BY <1>1, <1>2, <1>5, <1>9, Zenon
    <3> QED
      BY ONLY x \in Character, <2>1, <3>1, NextStays, Zenon
  <2>4. \A next : Agrees(m, UpTo(Unmarked(w, 1), next, d), next, d)
    BY <1>4, <2>2, Zenon
  <2>5. m.records = <<>> => m.record = w
    BY <1>5, <1>9, Zenon DEF w
  <2> QED
    BY <1>1, <1>9, <2>3, <2>4, <2>5, Zenon DEF SideBySide, w
<1>10. LET o == TakeByte(s, x)
       IN \/ /\ s.skipLf /\ x = "lf"
             /\ o.records = s.records /\ o.record = s.record
             /\ (o.quoted <=> s.quoted) /\ ~o.skipLf
          \/ /\ ~(s.skipLf /\ x = "lf") /\ ~s.quoted /\ x \in Ends
             /\ o.records = Append(s.records, s.record) /\ o.record = <<>>
             /\ ~o.quoted /\ (o.skipLf <=> x = "cr")
          \/ /\ ~(s.skipLf /\ x = "lf") /\ (s.quoted \/ x \notin Ends)
             /\ o.records = s.records /\ o.record = Append(s.record, x)
             /\ (o.quoted <=> IF x = "quote" THEN ~s.quoted ELSE s.quoted) /\ ~o.skipLf
  <2>1. s \in CutState /\ ~TakeByte(s, x).tooLong
    BY <1>1, <1>6 DEF m
  <2> QED
    BY <2>1, ByteTaken
<1>11. m = TakeByte(s, x)
  BY DEF m
<1> QED
  BY <1>7, <1>8, <1>9, <1>10, <1>11, Zenon

LEMMA AreSideBySide ==
  ASSUME NEW t \in Seq(Character), NEW d, d \notin {"quote", "cr", "lf"}, ~Taken(t).tooLong
  PROVE  SideBySide(t, Taken(t), d)
<1> DEFINE T == {g \in Seq(Character) : ~Taken(g).tooLong => SideBySide(g, Taken(g), d)}
<1>1. <<>> \in T
  <2>0. <<>> \in Seq(Character)
    OBVIOUS
  <2>1. Current(CutStart) = <<>> /\ Unmarked(<<>>, 1) = <<>>
    BY <2>0, CutStartFields, UnmarkedGrows DEF Current
  <2>2. SideBySide(<<>>, CutStart, d)
    BY <2>1, CutStartFields, BesideAtFirst
  <2>3. Taken(<<>>) = CutStart
    BY TakenGrows
  <2> QED
    BY <2>0, <2>2, <2>3
<1>2. ASSUME NEW g \in Seq(Character), NEW x \in Character, g \in T PROVE Append(g, x) \in T
  <2> DEFINE w == Append(g, x)
  <2>1. w \in Seq(Character)
    OBVIOUS
  <2>2. ASSUME ~Taken(w).tooLong PROVE SideBySide(w, Taken(w), d)
    <3>1. Taken(g) \in CutState /\ Taken(w) = TakeByte(Taken(g), x)
      BY TakenGrows
    <3>2. ~Taken(g).tooLong
      <4>1. ~TakeByte(Taken(g), x).tooLong
        BY <2>2, <3>1
      <4> QED
        BY <3>1, <4>1, ByteTaken
    <3>3. SideBySide(g, Taken(g), d)
      BY <1>2, <3>2
    <3>4. CASE g # <<>> \/ x # "mark"
      BY <2>2, <3>3, <3>4, StaySideBySide
    <3>5. CASE g = <<>> /\ x = "mark"
      <4> DEFINE s == Taken(w)
      <4>1. Taken(g) = CutStart
        BY <3>5, TakenGrows
      <4>2. s = TakeByte(CutStart, x) /\ CutStart \in CutState /\ ~TakeByte(CutStart, x).tooLong
        BY <2>2, <3>1, <4>1
      <4>3. /\ s.records = CutStart.records /\ s.record = Append(CutStart.record, x)
            /\ (s.quoted <=> IF x = "quote" THEN ~CutStart.quoted ELSE CutStart.quoted) /\ ~s.skipLf
        <5>1. x \notin Ends
          BY <3>5 DEF Ends
        <5> HIDE DEF s
        <5> QED
          BY <4>2, <5>1, ByteTaken, CutStartFields, Zenon
      <4> HIDE DEF w, s
      <4>4. s.records = <<>> /\ s.record = w /\ ~s.quoted /\ ~s.skipLf
        <5>1. s.records = <<>> /\ s.record = w
          BY <3>5, <4>3, CutStartFields, Zenon DEF w
        <5>2. x # "quote"
          BY <3>5
        <5> QED
          BY <4>3, <5>1, <5>2, CutStartFields, Zenon
      <4>5. Unmarked(w, 1) = <<>>
        <5> DEFINE mk == "mark"
                   e == <<>>
        <5>1. Append(e, mk) # <<>> /\ Append(e, mk)[1] = mk /\ Tail(Append(e, mk)) = <<>>
          <6> HIDE DEF mk
          <6>1. e \in Seq({mk}) /\ Len(e) = 0
            OBVIOUS
          <6> DEFINE o == Append(e, mk)
          <6> HIDE DEF e
          <6>2. o \in Seq({mk}) /\ Len(o) = 1 /\ o[1] = mk
            BY <6>1
          <6> HIDE DEF o
          <6>3. Tail(o) \in Seq({mk}) /\ Len(Tail(o)) = 0
            BY <6>2
          <6> DEFINE rest == Tail(o)
          <6>4. rest = <<>>
            <7> HIDE DEF rest
            <7>1. rest \in Seq({mk}) /\ Len(rest) = 0
              BY <6>3 DEF rest
            <7> QED
              BY ONLY <7>1
          <6>5. o # <<>>
            <7>1. Len(o) # 0 /\ Len(<<>>) = 0
              BY <6>2
            <7> QED
              BY <7>1
          <6> QED
            BY <6>2, <6>4, <6>5 DEF o
        <5> QED
          BY <3>5, <5>1, Zenon DEF Unmarked, w
      <4>6. Current(s) = <<>>
        <5>1. Len(s.records) + 1 = 1
          BY <4>4
        <5> QED
          BY <4>4, <4>5, <5>1 DEF Current
      <4>7. SideBySide(w, s, d)
        BY <4>4, <4>5, <4>6, BesideAtFirst
      <4> QED
        BY <4>7 DEF s
    <3> QED
      BY <3>4, <3>5
  <2> HIDE DEF w
  <2>3. w \in T
    BY <2>1, <2>2
  <2> QED
    BY <2>3 DEF w
<1>3. Seq(Character) \subseteq T
  <2> HIDE DEF T
  <2> QED
    BY <1>1, <1>2, GrowingSequences
<1> QED
  BY <1>3

\* What the reader makes of the records of a text.
LEMMA ReadIs ==
  ASSUME NEW t \in Seq(Character), NEW d, ~Cut(t).tooLong
  PROVE  LET recs == Cut(t).records
         IN /\ Read(t, d).failed = ~AllFine(recs, d)
            /\ AllFine(recs, d) => Read(t, d).rows = RowsRead(recs, d)
<1> DEFINE recs == Cut(t).records
           all == [i \in DOMAIN recs |-> Result(recs, i, d)]
           bad == {i \in DOMAIN all : all[i].failed}
           good == {i \in DOMAIN all : \A j \in bad : i < j}
           given == [i \in good |-> Last(all[i].rows)]
           fails == bad # {} \/ Cut(t).tooLong
<1>1. Read(t, d) = RowsOf(all, Cut(t).tooLong)
  BY Zenon DEF Read, ReadRecords, Result
<1> HIDE DEF recs
<1>2. RowsOf(all, Cut(t).tooLong) = [rows |-> given, failed |-> fails]
  <2> HIDE DEF all
  <2> QED
    BY Zenon DEF RowsOf
<1>3. Read(t, d).rows = given /\ Read(t, d).failed = fails
  <2> DEFINE r == Read(t, d)
  <2>1. r = [rows |-> given, failed |-> fails]
    BY <1>1, <1>2, Zenon
  <2> HIDE DEF given, fails, r
  <2>2. r.rows = given /\ r.failed = fails
    BY ONLY <2>1
  <2> QED
    BY <2>2 DEF r
<1>4. DOMAIN all = DOMAIN recs /\ \A i \in DOMAIN recs : all[i] = Result(recs, i, d)
  OBVIOUS
<1> HIDE DEF all
<1>5. bad = {} <=> AllFine(recs, d)
  BY <1>4, Zenon DEF AllFine
<1>6. fails = ~AllFine(recs, d)
  <2> HIDE DEF bad
  <2> QED
    BY <1>5, Zenon
<1>7. ASSUME bad = {} PROVE given = RowsRead(recs, d)
  <2>1. good = DOMAIN recs
    BY <1>4, <1>7, Zenon
  <2> DEFINE Row(i) == Last(Result(recs, i, d).rows)
  <2>2. \A i \in DOMAIN recs : Last(all[i].rows) = Row(i)
    BY <1>4, Zenon
  <2>3. RowsRead(recs, d) = [i \in DOMAIN recs |-> Row(i)]
    BY Zenon DEF RowsRead
  <2> HIDE DEF Row, good
  <2>4. given = [i \in DOMAIN recs |-> Row(i)]
    BY <2>1, <2>2
  <2> QED
    BY <2>3, <2>4
<1> HIDE DEF given, fails, bad
<1> QED
  BY <1>3, <1>5, <1>6, <1>7, Zenon DEF recs

LEMMA LastRecordIs ==
  ASSUME NEW s
  PROVE  /\ LastRecord(s).tooLong = s.tooLong
         /\ ~s.tooLong => LastRecord(s).records =
                            IF s.record # <<>> THEN Append(s.records, s.record)
                                                  ELSE s.records
<1> DEFINE all == IF s.record # <<>> /\ ~s.tooLong THEN Append(s.records, s.record) ELSE s.records
           long == s.tooLong
           r == LastRecord(s)
<1>1. r = [records |-> all, tooLong |-> long]
  BY Zenon DEF LastRecord
<1> HIDE DEF r, all, long
<1>2. r.records = all /\ r.tooLong = long
  BY ONLY <1>1
<1> QED
  BY <1>2, Zenon DEF r, all, long

(* The reader, which cuts a text into records by the parity of its quotes and *)
(* parses each by itself, and the parser of the whole text agree.             *)
LEMMA ReaderAgrees ==
  ASSUME NEW t \in Seq(Character), t # <<"mark">>, NEW d, d \notin {"quote", "cr", "lf"},
         ~Cut(t).tooLong
  PROVE  LET read == Read(t, d)
             whole == Parse(Unmarked(t, 1), d)
         IN read.failed = whole.failed /\ (~read.failed => read.rows = whole.rows)
<1> DEFINE s == Taken(t)
           r == Current(s)
           c == UpTo(r, "end", d)
           p == UpTo(Unmarked(t, 1), "end", d)
           recs == Cut(t).records
           read == Read(t, d)
           whole == Parse(Unmarked(t, 1), d)
<1>1. s \in CutState /\ Cut(t) = LastRecord(s)
  BY TakenGrows, CutIs
<1>2. ~s.tooLong
  BY <1>1, LastRecordIs, Zenon
<1>3. recs = IF s.record # <<>> THEN Append(s.records, s.record) ELSE s.records
  BY <1>1, <1>2, LastRecordIs, Zenon
<1>4. read.failed = ~AllFine(recs, d) /\ (AllFine(recs, d) => read.rows = RowsRead(recs, d))
  BY ReadIs
<1>5. whole = Parsed(p)
  BY ParseIs
<1>6. whole.failed \in BOOLEAN
  <2>1. p \in Parsing
    BY UpToGrows, UnmarkedGrows
  <2>2. p.failed \in BOOLEAN /\ p.quoted \in BOOLEAN
    BY <2>1 DEF Parsing, ParseState
  <2> HIDE DEF p
  <2>3. Parsed(p).failed = (p.failed \/ p.quoted)
    <3> DEFINE rows == IF p.started /\ ~p.failed THEN EndRow(p).rows ELSE p.rows
               fails == p.failed \/ p.quoted
               g == Parsed(p)
    <3>1. g = [rows |-> rows, failed |-> fails]
      BY Zenon DEF Parsed
    <3> HIDE DEF g, rows, fails
    <3>2. g.failed = fails
      BY ONLY <3>1
    <3> QED
      BY <3>2 DEF g, fails
  <2> QED
    BY <1>5, <2>2, <2>3
<1>7. /\ s.records = <<>> => s.record = t
      /\ UpTo(r, "lf", d) = c
      /\ Agrees(s, p, "end", d)
  <2>1. SideBySide(t, s, d)
    BY <1>2, AreSideBySide
  <2>2. "end" # "quote" /\ "lf" # "quote"
    OBVIOUS
  <2> HIDE DEF s
  <2> QED
    BY <2>1, <2>2, Zenon DEF SideBySide
<1>8. s.records \in Seq(Seq(Character)) /\ s.record \in Seq(Character) /\ r \in Seq(Character)
  <2>1. s.records \in Seq(Seq(Character)) /\ s.record \in Seq(Character)
    BY <1>1 DEF CutState
  <2> QED
    BY <2>1, UnmarkedGrows DEF Current
<1> SUFFICES \/ ~AllFine(recs, d) /\ whole.failed
             \/ AllFine(recs, d) /\ ~whole.failed /\ whole.rows = RowsRead(recs, d)
  <2> HIDE DEF recs, read, whole
  <2>1. ASSUME ~AllFine(recs, d), whole.failed PROVE read.failed = whole.failed /\ read.failed
    BY <1>4, <1>6, <2>1
  <2>2. ASSUME AllFine(recs, d), ~whole.failed PROVE read.failed = whole.failed
    BY <1>4, <1>6, <2>2
  <2>3. ASSUME AllFine(recs, d) PROVE read.rows = RowsRead(recs, d)
    BY <1>4, <2>3
  <2> QED
    BY <2>1, <2>2, <2>3, Zenon DEF read, whole
<1> HIDE DEF s, r, c, p, recs, read, whole
<1>9. p.failed => whole.failed
  BY <1>5, ParsedIs, Zenon
<1>10. SkipsNext(s, "end", No) = No
  BY Zenon DEF SkipsNext
<1>11. ASSUME NEW q, NEW l, NEW st, NEW k, InShape(s.quoted, "end", q, l, st, k)
       PROVE  k = No /\ (q = No \/ (q = Yes /\ l = No))
  BY <1>11, Zenon DEF InShape
<1>12. CASE s.record = <<>>
  <2>1. recs = s.records /\ r = <<>>
    <3>1. <<>> \in Seq(Character)
      OBVIOUS
    <3>2. r = <<>>
      BY <1>12, <3>1, UnmarkedGrows DEF Current, r
    <3> QED
      BY <1>3, <1>12, <3>2
  <2>2. c = ParseStart
    BY <2>1, UpToGrows DEF c
  <2>3. PICK b, e, q, l, k : AgreesAs(s, p, "end", d, b, e, q, l, k)
    BY <1>7, <2>2, StartSound, Zenon DEF Agrees, c, r
  <2>4. b = <<>> /\ e = <<>> /\ q = No /\ l = No /\ StartedBy(r) = No /\ k = No
    <3>1. ParseStart = Amid(<<>>, b, e, q, l, StartedBy(r), k)
      BY <2>2, <2>3, Zenon DEF AgreesAs, c, r
    <3> QED
      BY <3>1, StartFields
  <2>5. CASE p.failed /\ ~AllFine(s.records, d)
    BY <1>9, <2>1, <2>5, Zenon
  <2>6. CASE AllFine(s.records, d)
             /\ p = Amid(RowsRead(s.records, d), b, e, q, l, StartedBy(r), SkipsNext(s, "end", k))
    <3> DEFINE R == RowsRead(s.records, d)
               none == <<>>
    <3>1. p = Amid(R, none, none, No, No, No, No)
      BY <1>10, <2>4, <2>6, Zenon
    <3> HIDE DEF R, none
    <3>2. Parsed(Amid(R, none, none, No, No, No, No)).failed <=> No
      BY ONLY FailedAt
    <3>3. Parsed(Amid(R, none, none, No, No, No, No)).rows = R
      BY ONLY RowsBetween
    <3>4. ~whole.failed /\ whole.rows = R
      BY <1>5, <3>1, <3>2, <3>3, Zenon DEF No
    <3> QED
      BY <2>1, <2>6, <3>4, Zenon DEF R
  <2> QED
    BY <2>3, <2>5, <2>6, Zenon DEF AgreesAs, r
<1>13. CASE s.record # <<>>
  <2> DEFINE made == Parse(Append(r, "lf"), d)
  <2>1. recs = Append(s.records, s.record)
    BY <1>3, <1>13, Zenon
  <2>2. r # <<>>
    <3>1. ASSUME r = <<>> PROVE Len(s.records) + 1 = 1 /\ s.record = <<"mark">>
      BY <1>8, <1>13, <3>1, UnmarkedGrows DEF Current, r
    <3>2. Len(s.records) + 1 = 1 => s.records = <<>>
      <4>1. ASSUME Len(s.records) + 1 = 1 PROVE Len(s.records) = 0
        BY <1>8, <4>1
      <4> QED
        BY <1>8, <4>1
    <3> QED
      BY <1>7, <3>1, <3>2, Zenon
  <2>3. StartedBy(r) = Yes
    BY <2>2, Zenon DEF StartedBy
  <2>4. made = Parsed(ParseStep(c, "lf", "end", d))
    <3>1. "lf" \in Character
      BY DEF Character
    <3>2. made = Parsed(UpTo(Append(r, "lf"), "end", d))
      BY ParseIs
    <3>3. UpTo(Append(r, "lf"), "end", d) = ParseStep(UpTo(r, "lf", d), "lf", "end", d)
      BY <1>8, <3>1, UpToGrows
    <3> QED
      BY <1>7, <3>2, <3>3
  <2>5. /\ AllFine(recs, d) <=> AllFine(s.records, d) /\ ~made.failed
        /\ RowsRead(recs, d) = Append(RowsRead(s.records, d), Last(made.rows))
    BY <1>8, <2>1, OneRecordMore DEF Current, r
  <2> HIDE DEF made
  <2>6. CASE c.failed /\ p.failed
    <3>1. made.failed
      BY <2>4, <2>6, RecordFails
    <3> QED
      BY <1>9, <2>5, <2>6, <3>1, Zenon
  <2>7. ASSUME NEW b, NEW e, NEW q, NEW l, NEW k, AgreesAs(s, p, "end", d, b, e, q, l, k)
        PROVE  \/ ~AllFine(recs, d) /\ whole.failed
               \/ AllFine(recs, d) /\ ~whole.failed /\ whole.rows = RowsRead(recs, d)
    <3>1. InShape(s.quoted, "end", q, l, Yes, k) /\ c = Amid(<<>>, b, e, q, l, Yes, k)
      BY <2>3, <2>7, Zenon DEF AgreesAs, c, r
    <3>2. k = No /\ (q = No \/ (q = Yes /\ l = No))
      BY <1>11, <3>1, Zenon
    <3> DEFINE R == RowsRead(s.records, d)
    <3>3. \/ p.failed /\ ~AllFine(s.records, d)
          \/ AllFine(s.records, d) /\ p = Amid(R, b, e, q, l, Yes, No)
      BY <1>10, <2>3, <2>7, <3>2, Zenon DEF AgreesAs, r
    <3> HIDE DEF R
    <3>4. CASE q = Yes /\ l = No
      <4>1. made.failed
        BY <2>4, <3>1, <3>2, <3>4, RecordOpen
      <4>2. Parsed(Amid(R, b, e, Yes, No, Yes, No)).failed <=> Yes
        BY ONLY FailedAt
      <4>3. whole.failed
        BY <1>5, <1>9, <3>3, <3>4, <4>2, Zenon DEF Yes
      <4> QED
        BY <2>5, <4>1, <4>3, Zenon
    <3>5. CASE q = No
      <4> DEFINE v == Append(b, e)
      <4>1. ~made.failed /\ made.rows = <<v>>
        <5> DEFINE g == Parsed(ParseStep(Amid(<<>>, b, e, No, l, Yes, No), "lf", "end", d))
        <5>1. ~g.failed /\ g.rows = <<Append(b, e)>>
          BY RecordIs
        <5>2. made = g
          BY <2>4, <3>1, <3>2, <3>5, Zenon
        <5> HIDE DEF g
        <5> QED
          BY <5>1, <5>2, Zenon
      <4>2. Last(made.rows) = v
        <5> HIDE DEF v
        <5>1. Last(<<v>>) = v
          BY DEF Last
        <5> QED
          BY <4>1, <5>1
      <4>3. CASE p.failed /\ ~AllFine(s.records, d)
        BY <1>9, <2>5, <4>3, Zenon
      <4>4. CASE AllFine(s.records, d) /\ p = Amid(R, b, e, q, l, Yes, No)
        <5>1. Parsed(Amid(R, b, e, No, l, Yes, No)).failed <=> No
          BY ONLY FailedAt
        <5>2. Parsed(Amid(R, b, e, No, l, Yes, No)).rows = Append(R, Append(b, e))
          BY ONLY RowsWithin
        <5>3. ~whole.failed /\ whole.rows = Append(R, v)
          BY <1>5, <3>5, <4>4, <5>1, <5>2, Zenon DEF No
        <5> QED
          BY <2>5, <4>1, <4>2, <4>4, <5>3, Zenon DEF R
      <4> QED
        BY <3>3, <4>3, <4>4
    <3> QED
      BY <3>2, <3>4, <3>5
  <2> QED
    BY <1>7, <2>6, <2>7, Zenon DEF Agrees, c, r
<1> QED
  BY <1>12, <1>13

-----------------------------------------------------------------------------
(* What an export wrote, read again.                                       *)

Quote == "quote"
Comma == ","
Cr == "cr"
Lf == "lf"

LEMMA Marks ==
  /\ {Quote, Comma, Cr, Lf} \subseteq Character
  /\ Quote \notin {Comma, Cr, Lf} /\ Comma \notin {Cr, Lf} /\ Cr # Lf
  /\ Ends = {Cr, Lf}
  /\ \A d : d = Comma => d \notin {"quote", "cr", "lf"}
BY DEF Quote, Comma, Cr, Lf, Character, Ends

LEMMA NothingAdded ==
  ASSUME NEW S, NEW t \in Seq(S)
  PROVE  t \o <<>> = t /\ <<>> \o t = t
OBVIOUS

LEMMA Together ==
  ASSUME NEW S, NEW s \in Seq(S), NEW t \in Seq(S), NEW u \in Seq(S)
  PROVE  (s \o t) \o u = s \o (t \o u) /\ s \o t \in Seq(S)
OBVIOUS

LEMMA NoPieces == FlattenSeq(<<>>) = <<>>
<1>1. <<>> \in Seq(Seq({})) /\ <<>> \in Seq({})
  OBVIOUS
<1>2. FlattenSeq(<<>>) \in Seq({})
  BY ONLY <1>1, PieceAppended
<1>3. \A s \in Seq({}) : s = <<>>
  <2> TAKE s \in Seq({})
  <2>1. Len(s) = 0
    OBVIOUS
  <2> QED
    BY <2>1
<1> QED
  BY ONLY <1>2, <1>3

\* The character after a piece of text that g and then next follow.
First(g, next) == IF g = <<>> THEN next ELSE g[1]

LEMMA FirstIs ==
  /\ \A next : First(<<>>, next) = next
  /\ \A x, next : First(<<x>>, next) = x
<1>1. \A x : <<x>> # <<>> /\ <<x>>[1] = x
  OBVIOUS
<1> QED
  BY ONLY <1>1, Zenon DEF First

LEMMA FirstOfTwo ==
  ASSUME NEW S, NEW g \in Seq(S), NEW h \in Seq(S), NEW next
  PROVE  First(g \o h, next) = First(g, First(h, next))
<1>1. CASE g = <<>>
  <2>1. g \o h = h
    BY <1>1
  <2> QED
    BY <1>1, <2>1, Zenon DEF First
<1>2. CASE g # <<>>
  <2>1. Len(g) # 0
    BY <1>2
  <2>2. g \o h # <<>>
    <3>1. Len(g \o h) # 0
      BY <2>1
    <3> QED
      BY <3>1
  <2>3. (g \o h)[1] = g[1]
    BY <2>1
  <2> QED
    BY <1>2, <2>2, <2>3, Zenon DEF First
<1> QED
  BY <1>1, <1>2

\* Where a piece of text takes a parse, whatever came before it.
Leads(p, g, next, o) ==
  \A t \in Seq(Character) : UpTo(t, First(g, next), Comma) = p => UpTo(t \o g, next, Comma) = o

LEMMA LeadsNowhere ==
  ASSUME NEW p, NEW next
  PROVE  Leads(p, <<>>, next, p)
<1> SUFFICES ASSUME NEW t \in Seq(Character), UpTo(t, First(<<>>, next), Comma) = p
             PROVE  UpTo(t \o <<>>, next, Comma) = p
  BY DEF Leads
<1>1. First(<<>>, next) = next
  BY ONLY FirstIs
<1>2. t \o <<>> = t
  BY ONLY t \in Seq(Character), NothingAdded
<1> QED
  BY <1>1, <1>2

LEMMA LeadsByOne ==
  ASSUME NEW p, NEW x \in Character, NEW next, NEW o, ParseStep(p, x, next, Comma) = o
  PROVE  Leads(p, <<x>>, next, o)
<1> SUFFICES ASSUME NEW t \in Seq(Character), UpTo(t, First(<<x>>, next), Comma) = p
             PROVE  UpTo(t \o <<x>>, next, Comma) = o
  BY DEF Leads
<1>1. First(<<x>>, next) = x
  BY ONLY FirstIs
<1>2. t \o <<x>> = Append(t, x)
  BY Appending
<1>3. UpTo(Append(t, x), next, Comma) = ParseStep(UpTo(t, x, Comma), x, next, Comma)
  BY UpToGrows
<1> QED
  BY <1>1, <1>2, <1>3

LEMMA LeadsOn ==
  ASSUME NEW g \in Seq(Character), NEW h \in Seq(Character), NEW next, NEW p, NEW m, NEW o,
         Leads(p, g, First(h, next), m), Leads(m, h, next, o)
  PROVE  Leads(p, g \o h, next, o)
<1> SUFFICES ASSUME NEW t \in Seq(Character), UpTo(t, First(g \o h, next), Comma) = p
             PROVE  UpTo(t \o (g \o h), next, Comma) = o
  BY DEF Leads
<1>1. First(g \o h, next) = First(g, First(h, next))
  BY ONLY g \in Seq(Character), h \in Seq(Character), FirstOfTwo
<1>2. UpTo(t, First(g, First(h, next)), Comma) = p
  BY <1>1
<1>3. UpTo(t \o g, First(h, next), Comma) = m
  BY <1>2, Zenon DEF Leads
<1>4. t \o g \in Seq(Character) /\ (t \o g) \o h = t \o (g \o h)
  BY ONLY t \in Seq(Character), g \in Seq(Character), h \in Seq(Character), Together
<1>5. UpTo((t \o g) \o h, next, Comma) = o
  BY <1>3, <1>4, Zenon DEF Leads
<1> QED
  BY <1>4, <1>5

\* The characters of a cell that needs no quotes.
Plain == Character \ {Quote, Comma, Cr, Lf}

LEMMA PlainText == Plain \subseteq Character /\ Seq(Plain) \subseteq Seq(Character)
BY DEF Plain

LEMMA Grown ==
  ASSUME NEW S, NEW g \in Seq(S), NEW x \in S
  PROVE  Append(g, x) # <<>>
<1>1. Len(Append(g, x)) # 0
  OBVIOUS
<1> QED
  BY <1>1

BegunBy(g, s) == IF g = <<>> THEN s ELSE Yes

LEMMA PlainStep ==
  ASSUME NEW a, NEW b, NEW c, NEW s, NEW next, NEW x \in Plain
  PROVE  ParseStep(Amid(a, b, c, No, No, s, No), x, next, Comma)
           = Amid(a, b, Append(c, x), No, No, Yes, No)
<1>1. x \notin {"quote", "lf", "cr"} /\ x # Comma
  BY DEF Plain, Quote, Cr, Lf
<1> QED
  BY ONLY <1>1, StepPlain

LEMMA PlainLeads ==
  ASSUME NEW a, NEW b, NEW s
  PROVE  \A v \in Seq(Plain) : \A next :
           Leads(Amid(a, b, <<>>, No, No, s, No), v, next, Amid(a, b, v, No, No, BegunBy(v, s), No))
<1> DEFINE To(g) == Amid(a, b, g, No, No, BegunBy(g, s), No)
           p == Amid(a, b, <<>>, No, No, s, No)
           T == {g \in Seq(Plain) : \A next : Leads(p, g, next, To(g))}
<1>1. <<>> \in T
  <2>1. To(<<>>) = p
    BY Zenon DEF BegunBy
  <2>2. <<>> \in Seq(Plain)
    OBVIOUS
  <2> HIDE DEF To, p
  <2>3. \A next : Leads(p, <<>>, next, To(<<>>))
    BY ONLY <2>1, LeadsNowhere
  <2> QED
    BY <2>2, <2>3
<1>2. ASSUME NEW g \in Seq(Plain), NEW x \in Plain, g \in T PROVE Append(g, x) \in T
  <2> DEFINE w == Append(g, x)
             st == BegunBy(g, s)
  <2>1. w \in Seq(Plain) /\ g \o <<x>> = w /\ w # <<>>
    BY ONLY g \in Seq(Plain), x \in Plain, Appending, Grown
  <2>2. <<x>> \in Seq(Character) /\ x \in Character /\ g \in Seq(Character)
    BY PlainText
  <2>3. ASSUME NEW next PROVE Leads(p, w, next, To(w))
    <3>1. ParseStep(Amid(a, b, g, No, No, st, No), x, next, Comma)
            = Amid(a, b, Append(g, x), No, No, Yes, No)
      <4> HIDE DEF st
      <4> QED
        BY ONLY x \in Plain, PlainStep
    <3>2. To(w) = Amid(a, b, Append(g, x), No, No, Yes, No)
      BY <2>1, Zenon DEF BegunBy
    <3> DEFINE m == To(g)
               o == To(w)
    <3>3. ParseStep(m, x, next, Comma) = o
      BY <3>1, <3>2
    <3>4. Leads(p, g, First(<<x>>, next), m)
      BY <1>2
    <3> HIDE DEF p, m, o, w
    <3>5. Leads(m, <<x>>, next, o)
      BY ONLY <2>2, <3>3, LeadsByOne
    <3>6. Leads(p, g \o <<x>>, next, o)
      BY ONLY <2>2, <3>4, <3>5, LeadsOn
    <3>7. Leads(p, w, next, o)
      BY <2>1, <3>6
    <3> QED
      BY <3>7 DEF o
  <2> HIDE DEF To, p
  <2>4. w \in T
    BY <2>1, <2>3
  <2> QED
    BY <2>4 DEF w
<1>3. Seq(Plain) \subseteq T
  <2>1. \A g \in Seq(Plain) : \A x \in Plain : g \in T => Append(g, x) \in T
    BY <1>2
  <2> HIDE DEF T
  <2> QED
    BY ONLY <1>1, <2>1, GrowingSequences
<1> QED
  BY <1>3

\* Between quotes, with every quote doubled.
Twice(x) == IF x = Quote THEN <<x, x>> ELSE <<x>>

LEMMA TwiceIs ==
  ASSUME NEW x \in Character
  PROVE  Twice(x) \in Seq(Character)
<1>1. <<x, x>> \in Seq(Character) /\ <<x>> \in Seq(Character)
  OBVIOUS
<1> QED
  BY <1>1, Zenon DEF Twice

\* What is made of every member of a sequence and its place, one after the other.
LEMMA MadeOfEach ==
  ASSUME NEW S, NEW X, NEW f, \A i \in Nat : \A x \in S : f[i][x] \in Seq(X)
  PROVE  \A v \in Seq(S) :
           /\ [i \in DOMAIN v |-> f[i][v[i]]] \in Seq(Seq(X))
           /\ \A x \in S : LET w == Append(v, x)
                           IN [i \in DOMAIN w |-> f[i][w[i]]]
                                = Append([i \in DOMAIN v |-> f[i][v[i]]], f[Len(v) + 1][x])
<1> DEFINE Made(v) == [i \in DOMAIN v |-> f[i][v[i]]]
<1> SUFFICES ASSUME NEW v \in Seq(S)
             PROVE  Made(v) \in Seq(Seq(X))
                    /\ \A x \in S : Made(Append(v, x)) = Append(Made(v), f[Len(v) + 1][x])
  OBVIOUS
<1>1. \A u \in Seq(S) : Made(u) \in Seq(Seq(X)) /\ Len(Made(u)) = Len(u)
                        /\ \A i \in 1..Len(u) : Made(u)[i] = f[i][u[i]]
  <2> TAKE u \in Seq(S)
  <2> DEFINE n == Len(u)
             F(i) == f[i][u[i]]
             h == [i \in 1..n |-> F(i)]
  <2>1. n \in Nat /\ DOMAIN u = 1..n /\ \A i \in 1..n : u[i] \in S /\ i \in Nat
    OBVIOUS
  <2>2. \A i \in 1..n : F(i) \in Seq(X)
    BY <2>1
  <2>3. Made(u) = h
    BY <2>1
  <2> HIDE DEF F
  <2>4. h \in [1..n -> Seq(X)] /\ \A i \in 1..n : h[i] = F(i)
    BY <2>2
  <2> HIDE DEF h, n
  <2>5. h \in Seq(Seq(X)) /\ Len(h) = n
    BY <2>1, <2>4
  <2> HIDE DEF Made
  <2> QED
    BY <2>3, <2>4, <2>5 DEF F, n
<1>2. ASSUME NEW x \in S PROVE Made(Append(v, x)) = Append(Made(v), f[Len(v) + 1][x])
  <2> DEFINE w == Append(v, x)
             l == Made(w)
             s == Made(v)
             n == Len(v)
             y == f[n + 1][x]
             g == Append(s, y)
  <2>1. w \in Seq(S) /\ Len(w) = n + 1 /\ w[n + 1] = x /\ n \in Nat
        /\ \A i \in 1..n : w[i] = v[i]
    OBVIOUS
  <2>0. y \in Seq(X)
    BY <2>1
  <2> HIDE DEF w
  <2>2. l \in Seq(Seq(X)) /\ Len(l) = n + 1 /\ \A i \in 1..(n + 1) : l[i] = f[i][w[i]]
    BY <1>1, <2>1
  <2>3. s \in Seq(Seq(X)) /\ Len(s) = n /\ \A i \in 1..n : s[i] = f[i][v[i]]
    BY <1>1
  <2> HIDE DEF l, s
  <2>8. l[n + 1] = y
    BY <2>1, <2>2
  <2> HIDE DEF y
  <2>4. g \in Seq(Seq(X)) /\ Len(g) = n + 1 /\ g[n + 1] = y /\ \A i \in 1..n : g[i] = s[i]
    BY <2>0, <2>1, <2>3
  <2> HIDE DEF g, n
  <2>5. ASSUME NEW i \in 1..(n + 1) PROVE l[i] = g[i]
    <3>1. CASE i = n + 1
      BY <2>4, <2>8, <3>1
    <3>2. CASE i \in 1..n
      <4>1. l[i] = f[i][w[i]] /\ w[i] = v[i]
        BY <2>1, <2>2, <3>2
      <4>2. s[i] = f[i][v[i]] /\ g[i] = s[i]
        BY <2>3, <2>4, <3>2
      <4> QED
        BY ONLY <4>1, <4>2
    <3> QED
      BY <2>1, <3>1, <3>2
  <2>6. l = g
    BY <2>2, <2>4, <2>5
  <2> QED
    BY <2>6 DEF l, g, s, w, y, n
<1> QED
  BY <1>1, <1>2

LEMMA DoubledGrows ==
  /\ Doubled(<<>>) = <<>>
  /\ \A v \in Seq(Character) :
       /\ Doubled(v) \in Seq(Character)
       /\ \A x \in Character : Doubled(Append(v, x)) = Doubled(v) \o Twice(x)
<1> DEFINE f == [i \in Nat |-> [x \in Character |-> Twice(x)]]
           Pieces(v) == [i \in DOMAIN v |-> f[i][v[i]]]
<1>1. ASSUME NEW i \in Nat, NEW x \in Character
      PROVE  f[i][x] = Twice(x) /\ f[i][x] \in Seq(Character)
  BY TwiceIs
<1>2. ASSUME NEW v \in Seq(Character) PROVE Doubled(v) = FlattenSeq(Pieces(v))
  <2>1. \A i \in DOMAIN v : f[i][v[i]] = Twice(v[i])
    <3>1. \A i \in DOMAIN v : i \in Nat /\ v[i] \in Character
      OBVIOUS
    <3> HIDE DEF f
    <3> QED
      BY <1>1, <3>1
  <2>2. Pieces(v) = [i \in DOMAIN v |-> Twice(v[i])]
    <3> HIDE DEF f
    <3> QED
      BY <2>1
  <2>3. \A i \in DOMAIN v : Twice(v[i]) = IF v[i] = "quote" THEN <<"quote", "quote">> ELSE <<v[i]>>
    BY Zenon DEF Twice, Quote
  <2>4. [i \in DOMAIN v |-> Twice(v[i])]
          = [i \in DOMAIN v |-> IF v[i] = "quote" THEN <<"quote", "quote">> ELSE <<v[i]>>]
    BY ONLY <2>3, Zenon
  <2> QED
    BY ONLY <2>2, <2>4, Zenon DEF Doubled
<1> HIDE DEF f
<1>3. ASSUME NEW v \in Seq(Character)
      PROVE  /\ Pieces(v) \in Seq(Seq(Character))
             /\ \A x \in Character : Pieces(Append(v, x)) = Append(Pieces(v), f[Len(v) + 1][x])
  BY <1>1, MadeOfEach
<1>4. Doubled(<<>>) = <<>>
  <2>1. <<>> \in Seq(Character)
    OBVIOUS
  <2>2. Pieces(<<>>) = <<>>
    OBVIOUS
  <2> HIDE DEF Pieces
  <2> QED
    BY ONLY <1>2, <2>1, <2>2, NoPieces
<1> HIDE DEF Pieces
<1>5. ASSUME NEW v \in Seq(Character)
      PROVE  /\ Doubled(v) \in Seq(Character)
             /\ \A x \in Character : Doubled(Append(v, x)) = Doubled(v) \o Twice(x)
  <2>1. Pieces(v) \in Seq(Seq(Character))
    BY <1>3
  <2>2. <<>> \in Seq(Character)
    OBVIOUS
  <2>3. FlattenSeq(Pieces(v)) \in Seq(Character)
    BY ONLY <2>1, <2>2, PieceAppended
  <2>4. ASSUME NEW x \in Character PROVE Doubled(Append(v, x)) = Doubled(v) \o Twice(x)
    <3>1. Append(v, x) \in Seq(Character) /\ Len(v) + 1 \in Nat
      OBVIOUS
    <3> DEFINE y == f[Len(v) + 1][x]
    <3>2. y = Twice(x) /\ y \in Seq(Character)
      BY <1>1, <3>1
    <3>3. Pieces(Append(v, x)) = Append(Pieces(v), y)
      BY <1>3
    <3> HIDE DEF y
    <3>4. FlattenSeq(Append(Pieces(v), y)) = FlattenSeq(Pieces(v)) \o y
      BY ONLY <2>1, <3>2, PieceAppended
    <3>5. Doubled(Append(v, x)) = FlattenSeq(Pieces(Append(v, x)))
      BY ONLY <1>2, <3>1
    <3>6. Doubled(v) = FlattenSeq(Pieces(v))
      BY ONLY <1>2, v \in Seq(Character)
    <3> QED
      BY ONLY <3>2, <3>3, <3>4, <3>5, <3>6
  <2> QED
    BY <1>2, <2>3, <2>4
<1> QED
  BY <1>4, <1>5

\* A character between the quotes, doubled if it is a quote itself.
LEMMA TwiceLeads ==
  ASSUME NEW a, NEW b, NEW c, NEW x \in Character, NEW next
  PROVE  Leads(Amid(a, b, c, Yes, No, Yes, No), Twice(x), next,
               Amid(a, b, Append(c, x), Yes, No, Yes, No))
<1> DEFINE p == Amid(a, b, c, Yes, No, Yes, No)
           m == Amid(a, b, Append(c, x), Yes, No, Yes, Yes)
           o == Amid(a, b, Append(c, x), Yes, No, Yes, No)
<1>1. CASE x = Quote
  <2>1. ParseStep(p, x, x, Comma) = m
    <3>1. ParseStep(Amid(a, b, c, Yes, No, Yes, No), "quote", x, Comma)
            = Amid(a, b, Append(c, "quote"), Yes, No, Yes, Yes)
      <4>1. x = "quote"
        BY <1>1, Zenon DEF Quote
      <4> QED
        BY ONLY <4>1, StepDoubled
    <3>2. x = "quote"
      BY <1>1, Zenon DEF Quote
    <3> QED
      BY ONLY <3>1, <3>2, Zenon
  <2>2. ParseStep(m, x, next, Comma) = o
    BY ONLY StepSkip
  <2>3. First(<<x>>, next) = x /\ <<x>> \in Seq(Character) /\ x \in Character
    BY FirstIs
  <2>4. Twice(x) = <<x>> \o <<x>>
    <3>1. <<x, x>> = <<x>> \o <<x>>
      OBVIOUS
    <3> QED
      BY <1>1, <3>1, Zenon DEF Twice
  <2> HIDE DEF p, m, o
  <2>5. Leads(p, <<x>>, x, m)
    BY ONLY <2>1, <2>3, LeadsByOne
  <2>6. Leads(m, <<x>>, next, o)
    BY ONLY <2>2, <2>3, LeadsByOne
  <2>7. Leads(p, <<x>> \o <<x>>, next, o)
    <3>1. Leads(p, <<x>>, First(<<x>>, next), m)
      BY <2>3, <2>5
    <3> QED
      BY ONLY <2>3, <2>6, <3>1, LeadsOn
  <2>8. Leads(p, Twice(x), next, o)
    BY <2>4, <2>7
  <2> QED
    BY <2>8 DEF p, o
<1>2. CASE x # Quote
  <2>1. ParseStep(p, x, next, Comma) = o
    <3>1. x # "quote"
      BY <1>2, Zenon DEF Quote
    <3> QED
      BY ONLY <3>1, StepQuoted
  <2>2. Twice(x) = <<x>>
    BY <1>2, Zenon DEF Twice
  <2> HIDE DEF p, o
  <2>3. Leads(p, <<x>>, next, o)
    BY ONLY x \in Character, <2>1, LeadsByOne
  <2>4. Leads(p, Twice(x), next, o)
    BY <2>2, <2>3
  <2> QED
    BY <2>4 DEF p, o
<1> QED
  BY <1>1, <1>2

LEMMA DoubledLeads ==
  ASSUME NEW a, NEW b
  PROVE  \A v \in Seq(Character) : \A next :
           Leads(Amid(a, b, <<>>, Yes, No, Yes, No), Doubled(v), next,
                 Amid(a, b, v, Yes, No, Yes, No))
<1> DEFINE To(g) == Amid(a, b, g, Yes, No, Yes, No)
           p == Amid(a, b, <<>>, Yes, No, Yes, No)
           T == {g \in Seq(Character) : \A next : Leads(p, Doubled(g), next, To(g))}
<1>1. <<>> \in T
  <2>1. To(<<>>) = p
    OBVIOUS
  <2>2. <<>> \in Seq(Character) /\ Doubled(<<>>) = <<>>
    BY DoubledGrows
  <2> HIDE DEF To, p
  <2>3. \A next : Leads(p, Doubled(<<>>), next, To(<<>>))
    BY ONLY <2>1, <2>2, LeadsNowhere
  <2> QED
    BY <2>2, <2>3
<1>2. ASSUME NEW g \in Seq(Character), NEW x \in Character, g \in T PROVE Append(g, x) \in T
  <2> DEFINE w == Append(g, x)
  <2>1. w \in Seq(Character)
    OBVIOUS
  <2>2. Doubled(g) \in Seq(Character) /\ Doubled(w) = Doubled(g) \o Twice(x)
        /\ Twice(x) \in Seq(Character)
    BY DoubledGrows, TwiceIs
  <2>3. ASSUME NEW next PROVE Leads(p, Doubled(w), next, To(w))
    <3> DEFINE m == To(g)
               o == To(w)
    <3>1. Leads(p, Doubled(g), First(Twice(x), next), m)
      BY <1>2
    <3>2. Leads(m, Twice(x), next, o)
      BY ONLY x \in Character, TwiceLeads
    <3> HIDE DEF p, m, o, w
    <3>3. Leads(p, Doubled(g) \o Twice(x), next, o)
      BY ONLY <2>2, <3>1, <3>2, LeadsOn
    <3>4. Leads(p, Doubled(w), next, o)
      BY <2>2, <3>3
    <3> QED
      BY <3>4 DEF o
  <2> HIDE DEF To, p
  <2>4. w \in T
    BY <2>1, <2>3
  <2> QED
    BY <2>4 DEF w
<1>3. Seq(Character) \subseteq T
  <2>1. \A g \in Seq(Character) : \A x \in Character : g \in T => Append(g, x) \in T
    BY <1>2
  <2> HIDE DEF T
  <2> QED
    BY ONLY <1>1, <2>1, GrowingSequences
<1> QED
  BY <1>3

\* What is read of a value.
Restored(v) == IF v = Null THEN <<>> ELSE v

LEMMA QuotedLeads ==
  ASSUME NEW a, NEW b, NEW s, NEW v \in Seq(Character), NEW next, next # Quote
  PROVE  LET g == <<Quote>> \o Doubled(v) \o <<Quote>>
         IN /\ g \in Seq(Character)
            /\ Leads(Amid(a, b, <<>>, No, No, s, No), g, next, Amid(a, b, v, No, Yes, Yes, No))
<1> DEFINE p == Amid(a, b, <<>>, No, No, s, No)
           q == Amid(a, b, <<>>, Yes, No, Yes, No)
           r == Amid(a, b, v, Yes, No, Yes, No)
           o == Amid(a, b, v, No, Yes, Yes, No)
           mark == <<Quote>>
           u == Doubled(v)
<1>1. Quote \in Character /\ mark \in Seq(Character) /\ u \in Seq(Character)
  <2>1. Quote \in Character
    BY Marks
  <2> QED
    BY <2>1, DoubledGrows
<1>2. \A n : ParseStep(p, Quote, n, Comma) = q
  <2>1. Comma # "quote"
    BY DEF Comma
  <2> QED
    BY ONLY <2>1, StepOpens DEF Quote
<1>3. ParseStep(r, Quote, next, Comma) = o
  <2>1. next # "quote"
    BY Zenon DEF Quote
  <2> QED
    BY ONLY <2>1, StepCloses DEF Quote
<1>4. \A n : Leads(q, u, n, r)
  BY DoubledLeads
<1> HIDE DEF p, q, r, o, u
<1>5. \A n : Leads(p, mark, n, q)
  BY ONLY <1>1, <1>2, LeadsByOne
<1>6. Leads(r, mark, next, o)
  BY ONLY <1>1, <1>3, LeadsByOne
<1> HIDE DEF mark
<1>7. mark \o u \in Seq(Character) /\ mark \o u \o mark \in Seq(Character)
  BY ONLY <1>1, Together
<1>8. Leads(p, mark \o u, First(mark, next), r)
  BY ONLY <1>1, <1>4, <1>5, LeadsOn
<1>9. Leads(p, mark \o u \o mark, next, o)
  BY ONLY <1>1, <1>6, <1>7, <1>8, LeadsOn
<1> QED
  BY <1>7, <1>9 DEF p, o, mark, u

LEMMA CellLeads ==
  ASSUME NEW a, NEW b, NEW s, NEW v, Restored(v) \in Seq(Character), NEW next, next # Quote
  PROVE  /\ CsvValue(v) \in Seq(Character)
         /\ \E l : Leads(Amid(a, b, <<>>, No, No, s, No), CsvValue(v), next,
                         Amid(a, b, Restored(v), No, l, BegunBy(Restored(v), s), No))
<1> DEFINE p == Amid(a, b, <<>>, No, No, s, No)
<1>1. CASE v = Null
  <2>1. CsvValue(v) = <<>> /\ Restored(v) = <<>> /\ BegunBy(Restored(v), s) = s
    BY <1>1, Zenon DEF CsvValue, Restored, BegunBy
  <2>2. Amid(a, b, Restored(v), No, No, BegunBy(Restored(v), s), No) = p
    BY <2>1
  <2> HIDE DEF p
  <2>3. Leads(p, <<>>, next, p)
    BY ONLY LeadsNowhere
  <2>4. Leads(p, CsvValue(v), next, Amid(a, b, Restored(v), No, No, BegunBy(Restored(v), s), No))
    BY <2>1, <2>2, <2>3
  <2>5. CsvValue(v) \in Seq(Character)
    BY <2>1
  <2> QED
    BY <2>4, <2>5 DEF p
<1>2. CASE v # Null
  <2> DEFINE marked == ToSet(v) \cap ({",", "quote"} \cup Ends) # {}
             g == <<Quote>> \o Doubled(v) \o <<Quote>>
  <2>1. Restored(v) = v /\ v \in Seq(Character)
    BY <1>2, Zenon DEF Restored
  <2>2. marked => CsvValue(v) = g
    BY <1>2, Zenon DEF CsvValue, CsvCell, Quote
  <2>3. ~marked => CsvValue(v) = v
    BY <1>2, Zenon DEF CsvValue, CsvCell
  <2>4. marked => v # <<>>
    <3> SUFFICES ASSUME v = <<>> PROVE ~marked
      OBVIOUS
    <3>1. ToSet(v) = {}
      BY DEF ToSet
    <3> QED
      BY <3>1
  <2>5. ~marked => v \in Seq(Plain)
    <3> SUFFICES ASSUME ~marked PROVE v \in Seq(Plain)
      OBVIOUS
    <3>1. {",", "quote"} \cup Ends = {Quote, Comma, Cr, Lf}
      BY DEF Quote, Comma, Cr, Lf, Ends
    <3>2. ToSet(v) \cap {Quote, Comma, Cr, Lf} = {}
      BY <3>1
    <3> DEFINE n == Len(v)
    <3>3. n \in Nat /\ DOMAIN v = 1..n /\ v \in [1..n -> Character]
      BY ONLY <2>1
    <3>4. \A i \in 1..n : v[i] \in ToSet(v)
      BY <3>3 DEF ToSet
    <3>5. \A i \in 1..n : v[i] \in Plain
      BY <3>2, <3>3, <3>4 DEF Plain
    <3>6. v \in [1..n -> Plain]
      BY <3>3, <3>5
    <3> HIDE DEF n
    <3> QED
      BY ONLY <3>3, <3>6
  <2> HIDE DEF marked
  <2>6. CASE marked
    <3>1. g \in Seq(Character) /\ Leads(p, g, next, Amid(a, b, v, No, Yes, Yes, No))
      BY ONLY <2>1, next # Quote, QuotedLeads
    <3>2. BegunBy(v, s) = Yes
      BY <2>4, <2>6, Zenon DEF BegunBy
    <3> HIDE DEF g, p
    <3>3. CsvValue(v) \in Seq(Character)
      BY <2>2, <2>6, <3>1
    <3>4. Leads(p, CsvValue(v), next, Amid(a, b, Restored(v), No, Yes, BegunBy(Restored(v), s), No))
      BY <2>1, <2>2, <2>6, <3>1, <3>2
    <3> QED
      BY <3>3, <3>4 DEF p
  <2>7. CASE ~marked
    <3>1. Leads(p, v, next, Amid(a, b, v, No, No, BegunBy(v, s), No))
      BY <2>5, <2>7, PlainLeads
    <3> HIDE DEF p
    <3>2. CsvValue(v) \in Seq(Character)
      BY <2>1, <2>3, <2>7
    <3>3. Leads(p, CsvValue(v), next, Amid(a, b, Restored(v), No, No, BegunBy(Restored(v), s), No))
      BY <2>1, <2>3, <2>7, <3>1
    <3> QED
      BY <3>2, <3>3 DEF p
  <2> QED
    BY <2>6, <2>7
<1> QED
  BY <1>1, <1>2

\* The cells of a row, with a delimiter before all but the first, and what is read of them.
Cells(row) ==
  FlattenSeq([i \in DOMAIN row |->
                IF i = 1 THEN CsvValue(row[i]) ELSE <<Comma>> \o CsvValue(row[i])])
NextCell(row, v) == IF row = <<>> THEN CsvValue(v) ELSE <<Comma>> \o CsvValue(v)
RestoredRow(row) == [i \in DOMAIN row |-> Restored(row[i])]

LEMMA CellsGrow ==
  ASSUME NEW V, \A v \in V : Restored(v) \in Seq(Character)
  PROVE  /\ Cells(<<>>) = <<>> /\ RestoredRow(<<>>) = <<>>
         /\ \A row \in Seq(V) :
              /\ Cells(row) \in Seq(Character) /\ RestoredRow(row) \in Seq(Seq(Character))
              /\ \A v \in V :
                   /\ RestoredRow(Append(row, v)) = Append(RestoredRow(row), Restored(v))
                   /\ Cells(Append(row, v)) = Cells(row) \o NextCell(row, v)
<1> DEFINE F(i, v) == IF i = 1 THEN CsvValue(v) ELSE <<Comma>> \o CsvValue(v)
           f == [i \in Nat |-> [v \in V |-> F(i, v)]]
           g == [i \in Nat |-> [v \in V |-> Restored(v)]]
           Pieces(row) == [i \in DOMAIN row |-> f[i][row[i]]]
           Meant(row) == [i \in DOMAIN row |-> g[i][row[i]]]
<1>1. ASSUME NEW v \in V PROVE CsvValue(v) \in Seq(Character)
  <2>1. Restored(v) \in Seq(Character)
    OBVIOUS
  <2>2. Comma # Quote
    BY Marks
  <2> QED
    BY ONLY <2>1, <2>2, CellLeads
<1>2. \A i \in Nat : \A v \in V : F(i, v) \in Seq(Character)
  <2>1. Comma \in Character
    BY Marks
  <2>2. \A v \in V : <<Comma>> \o CsvValue(v) \in Seq(Character)
    BY <1>1, <2>1
  <2> QED
    BY <1>1, <2>2, Zenon
<1> HIDE DEF F
<1>3. \A i \in Nat : \A v \in V : f[i][v] = F(i, v) /\ f[i][v] \in Seq(Character)
  BY <1>2
<1>4. \A i \in Nat : \A v \in V : g[i][v] = Restored(v) /\ g[i][v] \in Seq(Character)
  OBVIOUS
<1> HIDE DEF f, g
<1>5. ASSUME NEW row \in Seq(V)
      PROVE  Cells(row) = FlattenSeq(Pieces(row)) /\ RestoredRow(row) = Meant(row)
  <2>1. \A i \in DOMAIN row : i \in Nat /\ row[i] \in V
    OBVIOUS
  <2>2. Pieces(row) = [i \in DOMAIN row |-> F(i, row[i])]
    BY <1>3, <2>1
  <2>3. Cells(row) = FlattenSeq([i \in DOMAIN row |-> F(i, row[i])])
    BY Zenon DEF Cells, F
  <2>4. RestoredRow(row) = Meant(row)
    BY <1>4, <2>1 DEF RestoredRow
  <2> QED
    BY <2>2, <2>3, <2>4
<1>6. ASSUME NEW row \in Seq(V)
      PROVE  /\ Pieces(row) \in Seq(Seq(Character))
             /\ \A v \in V : Pieces(Append(row, v)) = Append(Pieces(row), f[Len(row) + 1][v])
  <2>1. \A i \in Nat : \A v \in V : f[i][v] \in Seq(Character)
    BY <1>3
  <2>2. /\ [i \in DOMAIN row |-> f[i][row[i]]] \in Seq(Seq(Character))
        /\ \A v \in V : LET w == Append(row, v)
                        IN [i \in DOMAIN w |-> f[i][w[i]]]
                             = Append([i \in DOMAIN row |-> f[i][row[i]]], f[Len(row) + 1][v])
    BY ONLY <2>1, row \in Seq(V), MadeOfEach
  <2> QED
    BY ONLY <2>2
<1>7. ASSUME NEW row \in Seq(V)
      PROVE  /\ Meant(row) \in Seq(Seq(Character))
             /\ \A v \in V : Meant(Append(row, v)) = Append(Meant(row), g[Len(row) + 1][v])
  <2>1. \A i \in Nat : \A v \in V : g[i][v] \in Seq(Character)
    BY <1>4
  <2>2. /\ [i \in DOMAIN row |-> g[i][row[i]]] \in Seq(Seq(Character))
        /\ \A v \in V : LET w == Append(row, v)
                        IN [i \in DOMAIN w |-> g[i][w[i]]]
                             = Append([i \in DOMAIN row |-> g[i][row[i]]], g[Len(row) + 1][v])
    BY ONLY <2>1, row \in Seq(V), MadeOfEach
  <2> QED
    BY ONLY <2>2
<1>8. Cells(<<>>) = <<>> /\ RestoredRow(<<>>) = <<>>
  <2>1. Pieces(<<>>) = <<>> /\ Meant(<<>>) = <<>>
    OBVIOUS
  <2>2. <<>> \in Seq(V)
    OBVIOUS
  <2> HIDE DEF Pieces, Meant
  <2> QED
    BY ONLY <1>5, <2>1, <2>2, NoPieces
<1> HIDE DEF Pieces, Meant
<1>9. ASSUME NEW row \in Seq(V)
      PROVE  /\ Cells(row) \in Seq(Character) /\ RestoredRow(row) \in Seq(Seq(Character))
             /\ \A v \in V :
                  /\ RestoredRow(Append(row, v)) = Append(RestoredRow(row), Restored(v))
                  /\ Cells(Append(row, v)) = Cells(row) \o NextCell(row, v)
  <2>1. Pieces(row) \in Seq(Seq(Character)) /\ <<>> \in Seq(Character)
    BY <1>6
  <2>2. Cells(row) \in Seq(Character)
    BY ONLY <1>5, <2>1, row \in Seq(V), PieceAppended
  <2>3. RestoredRow(row) \in Seq(Seq(Character))
    BY <1>5, <1>7
  <2>4. ASSUME NEW v \in V
        PROVE  /\ RestoredRow(Append(row, v)) = Append(RestoredRow(row), Restored(v))
               /\ Cells(Append(row, v)) = Cells(row) \o NextCell(row, v)
    <3> DEFINE w == Append(row, v)
               k == Len(row) + 1
    <3>1. w \in Seq(V) /\ k \in Nat
      OBVIOUS
    <3>2. Pieces(w) = Append(Pieces(row), f[k][v]) /\ Meant(w) = Append(Meant(row), g[k][v])
      BY <1>6, <1>7
    <3>3. F(k, v) = NextCell(row, v)
      <4>1. (k = 1) = (row = <<>>)
        <5>1. k = 1 => row = <<>>
          <6> SUFFICES ASSUME k = 1 PROVE row = <<>>
            OBVIOUS
          <6>1. Len(row) = 0
            OBVIOUS
          <6> QED
            BY <6>1
        <5>2. row = <<>> => k = 1
          OBVIOUS
        <5> QED
          BY <5>1, <5>2
      <4> HIDE DEF k
      <4> QED
        BY <4>1, Zenon DEF F, NextCell
    <3> HIDE DEF w, k
    <3>4. f[k][v] = F(k, v) /\ f[k][v] \in Seq(Character) /\ g[k][v] = Restored(v)
      BY <1>3, <1>4, <3>1
    <3>5. FlattenSeq(Append(Pieces(row), f[k][v])) = FlattenSeq(Pieces(row)) \o f[k][v]
      BY ONLY <2>1, <3>4, PieceAppended
    <3>6. Cells(row) = FlattenSeq(Pieces(row)) /\ Cells(w) = FlattenSeq(Pieces(w))
          /\ RestoredRow(row) = Meant(row) /\ RestoredRow(w) = Meant(w)
      BY <1>5, <3>1
    <3>7. Cells(w) = Cells(row) \o NextCell(row, v)
      BY ONLY <3>2, <3>3, <3>4, <3>5, <3>6
    <3>8. RestoredRow(w) = Append(RestoredRow(row), Restored(v))
      BY ONLY <3>2, <3>4, <3>6
    <3> QED
      BY ONLY <3>7, <3>8 DEF w
  <2> QED
    BY <2>2, <2>3, <2>4
<1> QED
  BY ONLY <1>8, <1>9

\* A parse that is at the end of a row, before its line break if it has one.
RowDone(a, r, l) == Amid(a, Front(r), Last(r), No, l, IF r = <<<<>>>> THEN No ELSE Yes, No)

LEMMA DelimiterLeads ==
  ASSUME NEW a, NEW b, NEW c, NEW l, NEW s, NEW next
  PROVE  Leads(Amid(a, b, c, No, l, s, No), <<Comma>>, next,
               Amid(a, Append(b, c), <<>>, No, No, Yes, No))
<1>1. Comma \in Character /\ Comma \notin {"quote", "cr", "lf"}
  BY Marks
<1> DEFINE p == Amid(a, b, c, No, l, s, No)
           o == Amid(a, Append(b, c), <<>>, No, No, Yes, No)
<1>2. ParseStep(p, Comma, next, Comma) = o
  BY ONLY <1>1, StepDelimiter
<1> HIDE DEF p, o
<1>3. Leads(p, <<Comma>>, next, o)
  BY ONLY <1>1, <1>2, LeadsByOne
<1> QED
  BY <1>3 DEF p, o

LEMMA AtTheEnd ==
  ASSUME NEW S, NEW r \in Seq(S), NEW x \in S
  PROVE  /\ Front(Append(r, x)) = r /\ Last(Append(r, x)) = x
         /\ r # <<>> => Append(Front(r), Last(r)) = r
         /\ r = <<>> => Append(r, x) = <<x>>
         /\ \A e : r # <<>> => Append(r, x) # <<e>>
<1>1. Front(Append(r, x)) = r /\ Last(Append(r, x)) = x
  BY Appending
<1>2. ASSUME r # <<>> PROVE Append(Front(r), Last(r)) = r
  <2> DEFINE n == Len(r)
             f == Front(r)
             g == Append(f, Last(r))
  <2>1. n \in Nat /\ n # 0
    BY <1>2
  <2>2. f = [i \in 1..(n - 1) |-> r[i]]
    BY <2>1 DEF Front
  <2>3. f \in Seq(S) /\ Len(f) = n - 1 /\ \A i \in 1..(n - 1) : f[i] = r[i]
    <3>1. f \in [1..(n - 1) -> S]
      BY <2>2
    <3> HIDE DEF f
    <3> QED
      BY <2>1, <2>2, <3>1
  <2>4. Last(r) = r[n] /\ Last(r) \in S
    BY <2>1 DEF Last
  <2> HIDE DEF f
  <2>5. g \in Seq(S) /\ Len(g) = n /\ \A i \in 1..n : g[i] = r[i]
    BY <2>1, <2>3, <2>4
  <2> HIDE DEF g
  <2>6. g = r
    BY <2>5
  <2> QED
    BY <2>6 DEF g, f
<1>3. r = <<>> => Append(r, x) = <<x>>
  OBVIOUS
<1>4. ASSUME NEW e, r # <<>> PROVE Append(r, x) # <<e>>
  <2>1. Len(r) # 0
    BY <1>4
  <2>2. Len(Append(r, x)) # 1 /\ Len(<<e>>) = 1
    BY <2>1
  <2> QED
    BY <2>2
<1> QED
  BY <1>1, <1>2, <1>3, <1>4

\* The cells of a row lead from its beginning to its end.
LEMMA RowLeads ==
  ASSUME NEW V, \A v \in V : Restored(v) \in Seq(Character), NEW a
  PROVE  \A row \in Seq(V) : \A next : row # <<>> /\ next # Quote =>
           \E l : Leads(Amid(a, <<>>, <<>>, No, No, No, No), Cells(row), next,
                        RowDone(a, RestoredRow(row), l))
<1> DEFINE none == <<>>
           p == Amid(a, none, none, No, No, No, No)
           T == {row \in Seq(V) : \A next : row # <<>> /\ next # Quote =>
                   \E l : Leads(p, Cells(row), next, RowDone(a, RestoredRow(row), l))}
<1>1. <<>> \in T
  OBVIOUS
<1>2. ASSUME NEW row \in Seq(V), NEW v \in V, row \in T PROVE Append(row, v) \in T
  <2> DEFINE w == Append(row, v)
             e == Restored(v)
             r == RestoredRow(row)
             cell == CsvValue(v)
  <2>1. w \in Seq(V)
    OBVIOUS
  <2>2. /\ Cells(row) \in Seq(Character) /\ Cells(w) = Cells(row) \o NextCell(row, v)
        /\ r \in Seq(Seq(Character)) /\ RestoredRow(w) = Append(r, e)
    BY CellsGrow
  <2>3. e \in Seq(Character) /\ Comma # Quote /\ cell \in Seq(Character)
    <3>1. e \in Seq(Character)
      OBVIOUS
    <3>2. Comma # Quote
      BY Marks
    <3>3. cell \in Seq(Character)
      BY ONLY <3>1, <3>2, CellLeads
    <3> QED
      BY <3>1, <3>2, <3>3
  <2>4. ASSUME NEW next, next # Quote
        PROVE  \E l : Leads(p, Cells(w), next, RowDone(a, RestoredRow(w), l))
    <3> DEFINE u == RestoredRow(w)
               s == IF row = <<>> THEN No ELSE Yes
               b == r
               m == Amid(a, b, none, No, No, s, No)
    <3>1. PICK l : Leads(m, cell, next, Amid(a, b, e, No, l, BegunBy(e, s), No))
      <4> DEFINE o(x) == Amid(a, b, e, No, x, BegunBy(e, s), No)
      <4>1. \E x : Leads(m, cell, next, Amid(a, b, e, No, x, BegunBy(e, s), No))
        <5> HIDE DEF e, b, s
        <5>1. Restored(v) = e
          BY DEF e
        <5> QED
          BY ONLY <2>3, <2>4, <5>1, CellLeads
      <4> QED
        BY <4>1
    <3>2. RowDone(a, u, l) = Amid(a, b, e, No, l, IF u = <<<<>>>> THEN No ELSE Yes, No)
      <4>1. Front(u) = b /\ Last(u) = e
        BY ONLY <2>2, <2>3, AtTheEnd
      <4> HIDE DEF u, b, e
      <4> QED
        BY <4>1, Zenon DEF RowDone
    <3>3. BegunBy(e, s) = IF u = <<<<>>>> THEN No ELSE Yes
      <4>1. CASE row = <<>>
        <5>1. u = <<e>>
          <6>1. r = <<>>
            BY <4>1, CellsGrow
          <6> QED
            BY ONLY <2>2, <2>3, <6>1, AtTheEnd
        <5>2. (u = <<<<>>>>) = (e = <<>>)
          <6> HIDE DEF u, e
          <6>1. \A x : (<<e>> = <<x>>) = (e = x)
            OBVIOUS
          <6> QED
            BY ONLY <5>1, <6>1
        <5> HIDE DEF u, e
        <5> QED
          BY ONLY <4>1, <5>2, Zenon DEF BegunBy, s
      <4>2. CASE row # <<>>
        <5>1. r # <<>>
          <6>1. Len(r) = Len(row)
            BY DEF RestoredRow
          <6>2. Len(row) # 0
            BY <4>2
          <6> QED
            BY <6>1, <6>2
        <5>2. u # <<<<>>>>
          <6>1. \A x : Append(r, e) # <<x>>
            BY ONLY <2>2, <2>3, <5>1, AtTheEnd
          <6> HIDE DEF none, u, r, e
          <6>2. Append(r, e) # <<none>>
            BY ONLY <6>1
          <6>3. u = Append(r, e)
            BY <2>2 DEF u
          <6>4. u # <<none>>
            BY ONLY <6>2, <6>3
          <6> QED
            BY <6>4 DEF none
        <5> HIDE DEF u, e
        <5> QED
          BY ONLY <4>2, <5>2, Zenon DEF BegunBy, s
      <4> QED
        BY <4>1, <4>2
    <3>4. Leads(m, cell, next, RowDone(a, u, l))
      <4> HIDE DEF m, cell, u, e, b, s
      <4> QED
        BY ONLY <3>1, <3>2, <3>3
    <3>5. CASE row = <<>>
      <4>1. p = m
        <5>1. r = <<>> /\ s = No
          BY <3>5, CellsGrow
        <5> HIDE DEF r, s
        <5> QED
          BY <5>1
      <4>2. Cells(w) = cell
        <5>1. Cells(row) = <<>> /\ NextCell(row, v) = cell
          BY <3>5, CellsGrow DEF NextCell
        <5>2. <<>> \o cell = cell
          BY ONLY <2>3, NothingAdded
        <5> HIDE DEF cell
        <5> QED
          BY ONLY <2>2, <5>1, <5>2
      <4> HIDE DEF m, cell, u, p, w
      <4>3. Leads(p, Cells(w), next, RowDone(a, u, l))
        BY ONLY <3>4, <4>1, <4>2
      <4> QED
        BY <4>3 DEF u
    <3>6. CASE row # <<>>
      <4> DEFINE bar == <<Comma>>
                 n == First(cell, next)
                 g == Cells(row)
      <4>1. PICK k : Leads(p, g, Comma, RowDone(a, r, k))
        BY <1>2, <2>3, <3>6
      <4> DEFINE q == RowDone(a, r, k)
      <4>2. Leads(q, bar, n, m)
        <5>1. r # <<>>
          <6>1. Len(r) = Len(row)
            BY DEF RestoredRow
          <6>2. Len(row) # 0
            BY <3>6
          <6> QED
            BY <6>1, <6>2
        <5>2. Append(Front(r), Last(r)) = r
          BY ONLY <2>2, <2>3, <5>1, AtTheEnd
        <5> DEFINE st == IF r = <<<<>>>> THEN No ELSE Yes
                   f == Front(r)
                   z == Last(r)
        <5>3. q = Amid(a, f, z, No, k, st, No)
          BY Zenon DEF RowDone
        <5>4. Leads(Amid(a, f, z, No, k, st, No), bar, n,
                    Amid(a, Append(f, z), <<>>, No, No, Yes, No))
          <6> HIDE DEF f, z, st, n
          <6> QED
            BY ONLY DelimiterLeads
        <5>5. m = Amid(a, Append(f, z), <<>>, No, No, Yes, No)
          <6>1. s = Yes
            BY <3>6
          <6> HIDE DEF f, z, s
          <6> QED
            BY <5>2, <6>1 DEF f, z
        <5> HIDE DEF q, m, f, z, st, n
        <5> QED
          BY ONLY <5>3, <5>4, <5>5
      <4>3. bar \in Seq(Character) /\ g \in Seq(Character) /\ bar \o cell \in Seq(Character)
            /\ First(bar \o cell, next) = Comma
        <5>1. bar \in Seq(Character)
          <6>1. Comma \in Character
            BY Marks
          <6> QED
            BY <6>1
        <5>2. bar \o cell \in Seq(Character)
          BY ONLY <2>3, <5>1, Together
        <5>3. First(bar \o cell, next) = First(bar, First(cell, next))
          <6> HIDE DEF bar, cell
          <6> QED
            BY ONLY <2>3, <5>1, FirstOfTwo
        <5>4. First(bar, First(cell, next)) = Comma
          BY ONLY FirstIs
        <5> QED
          BY ONLY <2>2, <5>1, <5>2, <5>3, <5>4
      <4>4. Cells(w) = g \o (bar \o cell)
        BY <2>2, <3>6, Zenon DEF NextCell
      <4> DEFINE o == RowDone(a, u, l)
      <4>6. Leads(m, cell, next, o)
        BY <3>4
      <4> HIDE DEF m, cell, u, p, w, q, n, g, bar, o
      <4>5. Leads(q, bar \o cell, next, o)
        BY ONLY <2>3, <4>2, <4>3, <4>6, LeadsOn DEF n
      <4>7. Leads(p, g \o (bar \o cell), next, o)
        <5>1. Leads(p, g, First(bar \o cell, next), q)
          BY <4>1, <4>3 DEF g, q
        <5> QED
          BY ONLY <4>3, <4>5, <5>1, LeadsOn
      <4>8. Leads(p, Cells(w), next, o)
        BY ONLY <4>4, <4>7
      <4> QED
        BY <4>8 DEF o, u
    <3> QED
      BY <3>5, <3>6
  <2> HIDE DEF w
  <2>5. w \in T
    BY <2>1, <2>4
  <2> QED
    BY <2>5 DEF w
<1>3. Seq(V) \subseteq T
  <2>1. \A row \in Seq(V) : \A v \in V : row \in T => Append(row, v) \in T
    BY <1>2
  <2> HIDE DEF T
  <2> QED
    BY ONLY <1>1, <2>1, GrowingSequences
<1> QED
  BY <1>3

LEMMA TwoJoined ==
  ASSUME NEW S, NEW x \in S, NEW y \in S
  PROVE  <<x>> \o <<y>> = <<x, y>>
<1> DEFINE g == <<x>> \o <<y>>
           h == <<x, y>>
<1>1. g \in Seq(S) /\ Len(g) = 2 /\ g[1] = x /\ g[2] = y
  <2> DEFINE a == <<x>>
             b == <<y>>
  <2>1. a \in Seq(S) /\ b \in Seq(S) /\ Len(a) = 1 /\ Len(b) = 1 /\ a[1] = x /\ b[1] = y
    OBVIOUS
  <2> HIDE DEF a, b
  <2>2. a \o b \in Seq(S) /\ Len(a \o b) = 2 /\ (a \o b)[1] = x /\ (a \o b)[2] = y
    <3>1. /\ a \o b \in Seq(S) /\ Len(a \o b) = Len(a) + Len(b)
          /\ \A i \in 1..Len(a) : (a \o b)[i] = a[i]
          /\ \A i \in 1..Len(b) : (a \o b)[Len(a) + i] = b[i]
      BY ONLY <2>1, Joining
    <3>2. 1 \in 1..1 /\ 1 + 1 = 2
      OBVIOUS
    <3> QED
      BY ONLY <2>1, <3>1, <3>2
  <2> QED
    BY <2>2 DEF a, b
<1>2. h \in Seq(S) /\ Len(h) = 2 /\ h[1] = x /\ h[2] = y
  OBVIOUS
<1> HIDE DEF g, h
<1>3. g = h
  BY <1>1, <1>2
<1> QED
  BY <1>3 DEF g, h

\* The line break after a row.
LEMMA BreakLeads ==
  ASSUME NEW S, NEW r \in Seq(S), r # <<>>, NEW a, NEW l, NEW next
  PROVE  Leads(RowDone(a, r, l), <<Cr, Lf>>, next, Amid(Append(a, r), <<>>, <<>>, No, No, No, No))
<1> DEFINE none == <<>>
           s == IF r = <<<<>>>> THEN No ELSE Yes
           f == Front(r)
           z == Last(r)
           p == RowDone(a, r, l)
           m == Amid(Append(a, r), none, none, No, No, No, Yes)
           o == Amid(Append(a, r), none, none, No, No, No, No)
<1>1. p = Amid(a, f, z, No, l, s, No)
  BY Zenon DEF RowDone
<1>2. Append(f, z) = r
  <2>1. Last(r) \in S
    <3>1. Len(r) # 0
      OBVIOUS
    <3> QED
      BY <3>1 DEF Last
  <2> QED
    BY ONLY <2>1, r \in Seq(S), r # <<>>, AtTheEnd
<1>3. Cr \in Character /\ Lf \in Character /\ Comma \notin {"quote", "cr", "lf"}
  BY Marks
<1>4. ParseStep(p, Cr, Lf, Comma) = m
  <2>1. ParseStep(Amid(a, f, z, No, l, s, No), "cr", "lf", Comma)
          = Amid(Append(a, Append(f, z)), <<>>, <<>>, No, No, No, "lf" = "lf")
    <3> HIDE DEF f, z, s
    <3> QED
      BY ONLY <1>3, StepCr
  <2>2. ("lf" = "lf") = Yes
    BY Zenon DEF Yes
  <2> HIDE DEF f, z, s, p
  <2>3. ParseStep(p, "cr", "lf", Comma) = m
    BY ONLY <1>1, <1>2, <2>1, <2>2, Zenon
  <2> QED
    BY <2>3 DEF Cr, Lf
<1>5. ParseStep(m, Lf, next, Comma) = o
  BY ONLY StepSkip
<1>6. <<Cr>> \in Seq(Character) /\ <<Lf>> \in Seq(Character) /\ First(<<Lf>>, next) = Lf
  BY <1>3, FirstIs
<1> HIDE DEF p, m, o
<1>7. Leads(p, <<Cr>>, Lf, m)
  BY ONLY <1>3, <1>4, LeadsByOne
<1>8. Leads(m, <<Lf>>, next, o)
  BY ONLY <1>3, <1>5, LeadsByOne
<1>9. Leads(p, <<Cr>>, First(<<Lf>>, next), m)
  BY ONLY <1>6, <1>7
<1>10. Leads(p, <<Cr>> \o <<Lf>>, next, o)
  BY ONLY <1>6, <1>8, <1>9, LeadsOn
<1>11. <<Cr>> \o <<Lf>> = <<Cr, Lf>>
  BY ONLY <1>3, TwoJoined
<1>12. Leads(p, <<Cr, Lf>>, next, o)
  BY <1>10, <1>11
<1> QED
  BY <1>12 DEF p, o

RestoredTable(rows) == [r \in DOMAIN rows |-> RestoredRow(rows[r])]

LEMMA TableGrows ==
  ASSUME NEW D, \A x \in D : RestoredRow(x) \in Seq(Seq(Character))
  PROVE  \A u \in Seq(D) :
           /\ RestoredTable(u) \in Seq(Seq(Seq(Character)))
           /\ \A x \in D : RestoredTable(Append(u, x)) = Append(RestoredTable(u), RestoredRow(x))
<1> DEFINE X == Seq(Character)
           f == [i \in Nat |-> [x \in D |-> RestoredRow(x)]]
           Made(u) == [i \in DOMAIN u |-> f[i][u[i]]]
<1> HIDE DEF X
<1>1. \A i \in Nat : \A x \in D : f[i][x] = RestoredRow(x) /\ f[i][x] \in Seq(X)
  BY DEF X
<1> HIDE DEF f
<1>2. ASSUME NEW u \in Seq(D) PROVE RestoredTable(u) = Made(u)
  <2>1. \A i \in DOMAIN u : i \in Nat /\ u[i] \in D
    OBVIOUS
  <2> QED
    BY <1>1, <2>1 DEF RestoredTable
<1>3. ASSUME NEW u \in Seq(D)
      PROVE  /\ Made(u) \in Seq(Seq(X))
             /\ \A x \in D : Made(Append(u, x)) = Append(Made(u), f[Len(u) + 1][x])
  <2>1. \A i \in Nat : \A x \in D : f[i][x] \in Seq(X)
    BY <1>1
  <2>2. /\ [i \in DOMAIN u |-> f[i][u[i]]] \in Seq(Seq(X))
        /\ \A x \in D : LET w == Append(u, x)
                        IN [i \in DOMAIN w |-> f[i][w[i]]]
                             = Append([i \in DOMAIN u |-> f[i][u[i]]], f[Len(u) + 1][x])
    BY ONLY <2>1, u \in Seq(D), MadeOfEach
  <2> QED
    BY ONLY <2>2
<1> HIDE DEF Made
<1>4. ASSUME NEW u \in Seq(D), NEW x \in D
      PROVE  RestoredTable(Append(u, x)) = Append(RestoredTable(u), RestoredRow(x))
  <2>1. Append(u, x) \in Seq(D) /\ Len(u) + 1 \in Nat
    OBVIOUS
  <2>2. f[Len(u) + 1][x] = RestoredRow(x)
    BY <1>1, <2>1
  <2>3. RestoredTable(Append(u, x)) = Made(Append(u, x)) /\ RestoredTable(u) = Made(u)
    BY <1>2, <2>1
  <2>4. Made(Append(u, x)) = Append(Made(u), f[Len(u) + 1][x])
    BY <1>3
  <2> QED
    BY ONLY <2>2, <2>3, <2>4
<1>5. ASSUME NEW u \in Seq(D) PROVE RestoredTable(u) \in Seq(Seq(Seq(Character)))
  <2>1. Made(u) \in Seq(Seq(X))
    BY <1>3
  <2>2. RestoredTable(u) \in Seq(Seq(X))
    BY ONLY <1>2, <2>1, u \in Seq(D)
  <2> QED
    BY <2>2 DEF X
<1> QED
  BY <1>4, <1>5

LEMMA WholeRows ==
  ASSUME NEW V, \A v \in V : Restored(v) \in Seq(Character),
         NEW rows \in Seq(Seq(V) \ {<<>>}), rows # <<>>
  PROVE  LET R == RestoredTable(rows)
         IN /\ Last(R) \in Seq(Seq(Character)) /\ Last(R) # <<>>
            /\ Append(Front(R), Last(R)) = R /\ Append(Front(Last(R)), Last(Last(R))) = Last(R)
<1> DEFINE R == RestoredTable(rows)
           D == Seq(V) \ {<<>>}
           last == Last(R)
           c == Len(rows)
<1>0. \A x \in D : RestoredRow(x) \in Seq(Seq(Character))
  BY CellsGrow
<1>1. rows \in Seq(D)
  OBVIOUS
<1> HIDE DEF D
<1>2. R \in Seq(Seq(Seq(Character)))
  BY ONLY <1>0, <1>1, TableGrows
<1>3. c \in Nat /\ c # 0 /\ DOMAIN rows = 1..c
  BY <1>1
<1>4. DOMAIN R = 1..c /\ R[c] = RestoredRow(rows[c])
  BY <1>3 DEF RestoredTable
<1>5. Len(R) = c
  <2> HIDE DEF R
  <2> QED
    BY <1>2, <1>3, <1>4
<1>6. R # <<>> /\ last = R[c]
  <2> HIDE DEF R
  <2> QED
    BY <1>3, <1>5 DEF Last
<1>7. RestoredRow(rows[c]) # <<>>
  <2> DEFINE row == rows[c]
  <2>1. row \in Seq(V) /\ row # <<>>
    BY <1>1, <1>3 DEF D
  <2> HIDE DEF row
  <2>2. Len(row) # 0 /\ Len(row) \in Nat /\ DOMAIN row = 1..Len(row)
    BY ONLY <2>1
  <2>3. DOMAIN RestoredRow(row) = DOMAIN row
    BY DEF RestoredRow
  <2>4. 1 \in DOMAIN row
    BY ONLY <2>2
  <2>5. DOMAIN <<>> = {}
    OBVIOUS
  <2>6. RestoredRow(row) # <<>>
    BY <2>3, <2>4, <2>5
  <2> QED
    BY <2>6 DEF row
<1>8. last \in Seq(Seq(Character)) /\ last # <<>>
  <2> HIDE DEF R, last, c
  <2>1. c \in 1..Len(R)
    BY <1>3, <1>5
  <2> QED
    BY <1>2, <1>4, <1>6, <1>7, <2>1
<1>9. Append(Front(R), last) = R
  <2> HIDE DEF R
  <2> QED
    BY ONLY <1>2, <1>6, <1>8, AtTheEnd
<1>10. Append(Front(last), Last(last)) = last
  <2> HIDE DEF R, last
  <2>1. Last(last) \in Seq(Character)
    <3>1. Len(last) # 0
      BY <1>8
    <3> QED
      BY <1>8, <3>1 DEF Last
  <2> QED
    BY ONLY <1>8, <2>1, AtTheEnd
<1> QED
  BY ONLY <1>8, <1>9, <1>10

\* A text in which these rows were written, and nothing else.
IsWritten(t, rows) ==
  LET R == RestoredTable(rows)
  IN IF rows = <<>> THEN t = <<>>
     ELSE \A next : next # Quote => \E l : UpTo(t, next, Comma) = RowDone(Front(R), Last(R), l)

LEMMA WrittenGrows ==
  ASSUME NEW V, \A v \in V : Restored(v) \in Seq(Character),
         NEW rows \in Seq(Seq(V) \ {<<>>}), NEW row \in Seq(V) \ {<<>>},
         NEW t \in Seq(Character), IsWritten(t, rows)
  PROVE  IsWritten(t \o WriteLine(row, rows # <<>>), Append(rows, row))
<1> DEFINE R == RestoredTable(rows)
           r == RestoredRow(row)
           line == Cells(row)
           none == <<>>
           D == Seq(V) \ {<<>>}
           p == Amid(R, none, none, No, No, No, No)
           whole == Append(rows, row)
<1>0. (\A v \in V : Restored(v) \in Seq(Character)) /\ rows \in Seq(Seq(V) \ {<<>>})
  OBVIOUS
<1>1. \A x \in D : RestoredRow(x) \in Seq(Seq(Character)) /\ x \in Seq(V)
  BY CellsGrow
<1>4. row \in Seq(V) /\ row # <<>> /\ row \in D /\ rows \in Seq(D) /\ whole \in Seq(D)
  OBVIOUS
<1> HIDE DEF D
<1>6. R \in Seq(Seq(Seq(Character))) /\ r \in Seq(Seq(Character))
      /\ RestoredTable(whole) = Append(R, r)
  <2>1. \A x \in D : RestoredRow(x) \in Seq(Seq(Character))
    BY <1>1
  <2>2. r \in Seq(Seq(Character))
    BY <1>1, <1>4
  <2> QED
    BY ONLY <1>4, <2>1, <2>2, TableGrows
<1>7. Front(RestoredTable(whole)) = R /\ Last(RestoredTable(whole)) = r
  BY ONLY <1>6, AtTheEnd
<1>8. line \in Seq(Character)
  BY <1>4, CellsGrow
<1>9. whole # <<>>
  BY ONLY <1>4, Grown
<1>10. \A next : next # Quote => \E l : Leads(p, line, next, RowDone(R, r, l))
  <2> HIDE DEF R
  <2> QED
    BY <1>4, RowLeads
<1> DEFINE break == IF rows # <<>> THEN <<Cr, Lf>> ELSE <<>>
<1>11. WriteLine(row, rows # <<>>) = break \o line
  BY Zenon DEF WriteLine, Cells, Cr, Lf, Comma
<1> HIDE DEF R, r, line, whole
<1>12. ASSUME NEW next, next # Quote
       PROVE  \E l : UpTo(t \o (break \o line), next, Comma) = RowDone(R, r, l)
  <2> DEFINE n == First(line, next)
  <2>1. PICK l : Leads(p, line, next, RowDone(R, r, l))
    BY <1>10, <1>12
  <2> DEFINE o == RowDone(R, r, l)
  <2>2. CASE rows = <<>>
    <3>1. t = <<>> /\ R = none
      BY <2>2 DEF IsWritten, R, RestoredTable
    <3>2. break = <<>> /\ break \o line = line /\ t \o line = line
      <4>1. <<>> \o line = line
        BY ONLY <1>8, NothingAdded
      <4>2. break = <<>>
        BY <2>2
      <4> HIDE DEF break
      <4> QED
        BY ONLY <3>1, <4>1, <4>2
    <3>3. UpTo(t, n, Comma) = p
      <4>1. UpTo(<<>>, n, Comma) = ParseStart
        BY ONLY UpToGrows
      <4>2. ParseStart = Amid(none, none, none, No, No, No, No)
        BY Zenon DEF ParseStart, Amid, ParseAs, No
      <4> HIDE DEF n, none
      <4> QED
        BY <3>1, <4>1, <4>2 DEF none
    <3> HIDE DEF p, n, o, break
    <3>4. UpTo(t \o line, next, Comma) = o
      BY <2>1, <3>3, Zenon DEF Leads, n, o
    <3>5. UpTo(t \o (break \o line), next, Comma) = o
      BY <3>2, <3>4
    <3> QED
      BY <3>5 DEF o
  <2>3. CASE rows # <<>>
    <3> DEFINE lf == <<Cr, Lf>>
               a == Front(R)
               last == Last(R)
    <3>1. break = lf
      BY <2>3
    <3>2. lf \in Seq(Character) /\ lf \o line \in Seq(Character) /\ First(lf \o line, next) = Cr
          /\ Cr # Quote
      <4>1. Cr \in Character /\ Lf \in Character /\ Cr # Quote
        BY Marks
      <4>2. lf \in Seq(Character) /\ lf # <<>> /\ lf[1] = Cr
        BY ONLY <4>1
      <4>3. First(lf, n) = Cr
        <5> HIDE DEF lf
        <5> QED
          BY ONLY <4>2, Zenon DEF First
      <4> HIDE DEF lf
      <4>4. lf \o line \in Seq(Character)
        BY ONLY <1>8, <4>2, Together
      <4>5. First(lf \o line, next) = First(lf, n)
        BY ONLY <1>8, <4>2, FirstOfTwo DEF n
      <4> QED
        BY ONLY <4>1, <4>2, <4>3, <4>4, <4>5
    <3>3. PICK k : UpTo(t, Cr, Comma) = RowDone(a, last, k)
      <4>1. \A x : x # Quote => \E k : UpTo(t, x, Comma) = RowDone(a, last, k)
        BY <2>3, Zenon DEF IsWritten, R
      <4> QED
        BY <3>2, <4>1
    <3> DEFINE q == RowDone(a, last, k)
    <3>4. last # <<>> /\ last \in Seq(Seq(Character)) /\ Append(a, last) = R
      BY ONLY <1>0, <2>3, WholeRows DEF R
    <3>5. Leads(q, lf, n, p)
      <4> HIDE DEF a, last, n
      <4>1. Leads(q, lf, n, Amid(Append(a, last), <<>>, <<>>, No, No, No, No))
        BY ONLY <3>4, BreakLeads
      <4>2. Append(a, last) = R
        BY ONLY <3>4
      <4> HIDE DEF q, lf
      <4> QED
        BY ONLY <4>1, <4>2
    <3> HIDE DEF p, q, o, lf, a, last, break
    <3>6. Leads(p, line, next, o)
      BY <2>1 DEF o
    <3>7. Leads(q, lf \o line, next, o)
      BY ONLY <1>8, <3>2, <3>5, <3>6, LeadsOn DEF n
    <3>8. UpTo(t, First(lf \o line, next), Comma) = q
      BY <3>2, <3>3 DEF q
    <3>9. UpTo(t \o (lf \o line), next, Comma) = o
      BY ONLY <3>7, <3>8, t \in Seq(Character), Zenon DEF Leads
    <3> QED
      BY <3>1, <3>9 DEF o
  <2> QED
    BY <2>2, <2>3
<1> DEFINE made == t \o (break \o line)
<1> HIDE DEF break
<1>13. IsWritten(made, whole)
  <2>1. \A next : next # Quote => \E l : UpTo(made, next, Comma) = RowDone(R, r, l)
    BY <1>12
  <2> HIDE DEF made
  <2> QED
    BY <1>7, <1>9, <2>1, Zenon DEF IsWritten
<1> QED
  BY <1>11, <1>13 DEF whole

\* What is read of a text in which rows were written.
LEMMA WrittenIsRead ==
  ASSUME NEW V, \A v \in V : Restored(v) \in Seq(Character),
         NEW rows \in Seq(Seq(V) \ {<<>>}), NEW t \in Seq(Character), IsWritten(t, rows),
         ~Cut(t).tooLong, t = <<>> \/ t[1] # "mark"
  PROVE  LET R == RestoredTable(rows)
         IN Read(t, Comma) =
              [rows |-> IF rows # <<>> /\ Last(R) = <<<<>>>> THEN Front(R) ELSE R,
               failed |-> FALSE]
<1> DEFINE R == RestoredTable(rows)
           read == Read(t, Comma)
           whole == Parse(t, Comma)
           none == <<>>
           kept == IF rows # <<>> /\ Last(R) = <<<<>>>> THEN Front(R) ELSE R
<1>1. read.failed = whole.failed /\ (~read.failed => read.rows = whole.rows)
  <2>1. t # <<"mark">>
    <3>1. <<"mark">> # <<>> /\ <<"mark">>[1] = "mark"
      OBVIOUS
    <3> QED
      BY <3>1
  <2>2. Comma \notin {"quote", "cr", "lf"}
    BY Marks
  <2>3. Unmarked(t, 1) = t
    BY Zenon DEF Unmarked
  <2> QED
    BY ONLY <2>1, <2>2, <2>3, t \in Seq(Character), ~Cut(t).tooLong, ReaderAgrees
<1>2. whole = Parsed(UpTo(t, "end", Comma))
  BY ParseIs
<1>3. ~whole.failed /\ whole.rows = kept
  <2>1. CASE rows = <<>>
    <3>1. t = <<>> /\ R = none
      BY <2>1 DEF IsWritten, RestoredTable
    <3>2. UpTo(t, "end", Comma) = Amid(none, none, none, No, No, No, No)
      <4>1. UpTo(<<>>, "end", Comma) = ParseStart
        BY ONLY UpToGrows
      <4>2. ParseStart = Amid(none, none, none, No, No, No, No)
        BY Zenon DEF ParseStart, Amid, ParseAs, No
      <4> HIDE DEF none
      <4> QED
        BY <3>1, <4>1, <4>2 DEF none
    <3>3. kept = none
      BY <2>1, <3>1, Zenon
    <3> HIDE DEF none, kept, whole
    <3>4. Parsed(Amid(none, none, none, No, No, No, No)).failed <=> No
      BY ONLY FailedAt
    <3>5. Parsed(Amid(none, none, none, No, No, No, No)).rows = none
      BY ONLY RowsBetween
    <3> QED
      BY <1>2, <3>2, <3>3, <3>4, <3>5, Zenon DEF No
  <2>2. CASE rows # <<>>
    <3> DEFINE a == Front(R)
               r == Last(R)
               b == Front(r)
               e == Last(r)
               s == IF r = <<<<>>>> THEN No ELSE Yes
    <3>1. PICK l : UpTo(t, "end", Comma) = RowDone(a, r, l)
      <4>1. "end" # Quote
        BY DEF Quote
      <4> QED
        BY <2>2, <4>1, Zenon DEF IsWritten
    <3>2. RowDone(a, r, l) = Amid(a, b, e, No, l, s, No)
      BY Zenon DEF RowDone
    <3>3. Append(a, r) = R /\ Append(b, e) = r
      BY <2>2, WholeRows
    <3>4. s = No => kept = a
      <4>1. Yes # No
        BY Zenon DEF Yes, No
      <4> QED
        BY <2>2, <4>1, Zenon
    <3>5. s = Yes => kept = R
      <4>1. Yes # No
        BY Zenon DEF Yes, No
      <4> QED
        BY <2>2, <4>1, Zenon
    <3>6. s = Yes \/ s = No
      BY Zenon
    <3> HIDE DEF a, r, b, e, s, kept, whole
    <3>7. whole = Parsed(Amid(a, b, e, No, l, s, No))
      BY <1>2, <3>1, <3>2, Zenon
    <3>8. Parsed(Amid(a, b, e, No, l, s, No)).failed <=> No
      BY ONLY FailedAt
    <3>9. CASE s = No
      <4>1. Parsed(Amid(a, b, e, No, l, No, No)).rows = a
        BY ONLY RowsBetween
      <4> QED
        BY <3>4, <3>7, <3>8, <3>9, <4>1, Zenon DEF No
    <3>10. CASE s = Yes
      <4>1. Parsed(Amid(a, b, e, No, l, Yes, No)).rows = Append(a, Append(b, e))
        BY ONLY RowsWithin
      <4>2. Append(a, Append(b, e)) = R
        BY <3>3
      <4> QED
        BY <3>5, <3>7, <3>8, <3>10, <4>1, <4>2, Zenon DEF No
    <3> QED
      BY <3>6, <3>9, <3>10
  <2> QED
    BY <2>1, <2>2
<1>4. \E x, y : read = [rows |-> x, failed |-> y]
  BY Zenon DEF Read, ReadRecords, RowsOf
<1>5. read.failed \in BOOLEAN
  BY Zenon DEF Read, ReadRecords, RowsOf
<1> HIDE DEF whole, kept, read
<1>6. read.failed = FALSE /\ read.rows = kept
  BY <1>1, <1>3, <1>5, Zenon
<1>7. read = [rows |-> kept, failed |-> FALSE]
  BY <1>4, <1>6
<1> QED
  BY <1>7 DEF read, kept

-----------------------------------------------------------------------------
(* The text of a file.                                                     *)

LEMMA ValuesAreText ==
  ASSUME NEW v \in Value
  PROVE  Restored(v) \in Seq(Character)
<1>1. CASE v = Null
  <2>1. Restored(v) = <<>>
    BY <1>1, Zenon DEF Restored
  <2> QED
    BY <2>1
<1>2. CASE v # Null
  <2> DEFINE S == {"quote", ",", "cr", "lf", "mark", "x"}
  <2>1. v \in SeqOf(S, 2)
    BY <1>2, Zenon DEF Value, BoundedSeq, S
  <2>2. PICK n \in Nat : v \in [1..n -> S]
    <3> HIDE DEF S
    <3>1. \E n \in 0..2 : v \in [1..n -> S]
      BY <2>1 DEF SeqOf
    <3> QED
      BY <3>1
  <2>3. S \subseteq Character
    BY DEF Character
  <2>4. Restored(v) = v
    BY <1>2, Zenon DEF Restored
  <2> HIDE DEF S
  <2> QED
    BY <2>2, <2>3, <2>4
<1> QED
  BY <1>1, <1>2

LEMMA LinesAreText ==
  ASSUME NEW row \in Seq(Value), NEW after \in BOOLEAN
  PROVE  WriteLine(row, after) \in Seq(Character)
<1> DEFINE break == IF after THEN <<Cr, Lf>> ELSE <<>>
<1>1. WriteLine(row, after) = break \o Cells(row)
  BY Zenon DEF WriteLine, Cells, Cr, Lf, Comma
<1>2. Cells(row) \in Seq(Character)
  BY ValuesAreText, CellsGrow
<1>3. break \in Seq(Character)
  <2>1. <<Cr, Lf>> \in Seq(Character) /\ <<>> \in Seq(Character)
    BY Marks
  <2> QED
    BY <2>1, Zenon
<1> HIDE DEF break
<1> QED
  BY <1>1, <1>2, <1>3

CsvInv ==
  /\ text \in Seq(Character) /\ width \in Nat
  /\ width > 0 => table \in Seq(Seq(Value) \ {<<>>}) /\ IsWritten(text, table)

LEMMA CsvInvHolds == CsvSpec => []CsvInv
<1>1. CsvInit => CsvInv
  <2> SUFFICES ASSUME CsvInit PROVE CsvInv
    OBVIOUS
  <2>1. text = <<>> /\ table = <<>> /\ width \in Nat
    <3>1. Len(Targets) \in Nat
      BY CsvAssumption
    <3> QED
      BY <3>1 DEF CsvInit
  <2>2. IsWritten(text, table)
    BY <2>1, Zenon DEF IsWritten
  <2> QED
    BY <2>1, <2>2 DEF CsvInv
<1>2. CsvInv /\ [CsvNext]_csvVars => CsvInv'
  <2> SUFFICES ASSUME CsvInv, [CsvNext]_csvVars PROVE CsvInv'
    OBVIOUS
  <2>0. text \in Seq(Character) /\ width \in Nat
    BY DEF CsvInv
  <2>1. CASE TypeCharacter
    <3>1. PICK c \in Character : text' = Append(text, c)
      BY <2>1, Zenon DEF TypeCharacter
    <3>2. width' = width /\ width = 0
      BY <2>1, Zenon DEF TypeCharacter
    <3> QED
      BY <2>0, <3>1, <3>2 DEF CsvInv
  <2>2. CASE ExportRow
    <3>1. PICK made \in [1..width -> {v \in Value : v = Null \/ Len(v) <= 3 - width}] :
            text' = text \o WriteLine(made, table # <<>>) /\ table' = Append(table, made)
      BY <2>2, Zenon DEF ExportRow
    <3>2. width' = width /\ width > 0
      BY <2>2, Zenon DEF ExportRow
    <3> DEFINE after == table # <<>>
               line == WriteLine(made, after)
    <3>3. made \in [1..width -> Value] /\ after \in BOOLEAN
      OBVIOUS
    <3>4. made \in Seq(Value) \ {<<>>}
      <4>1. DOMAIN made = 1..width /\ 1 \in 1..width
        BY <2>0, <3>2, <3>3
      <4>2. made \in Seq(Value)
        BY <2>0, <3>3
      <4>3. DOMAIN <<>> = {}
        OBVIOUS
      <4> QED
        BY <4>1, <4>2, <4>3
    <3>5. line \in Seq(Character)
      <4> HIDE DEF after
      <4> QED
        BY <3>3, <3>4, LinesAreText
    <3>6. text' = text \o line
      BY <3>1, Zenon
    <3>7. text' \in Seq(Character)
      <4> HIDE DEF line
      <4> QED
        BY <2>0, <3>5, <3>6
    <3>8. table \in Seq(Seq(Value) \ {<<>>}) /\ IsWritten(text, table)
      BY <3>2 DEF CsvInv
    <3> DEFINE more == Append(table, made)
    <3>9. more \in Seq(Seq(Value) \ {<<>>})
      BY <3>4, <3>8
    <3>10. IsWritten(text \o line, more)
      <4>1. \A v \in Value : Restored(v) \in Seq(Character)
        BY ValuesAreText
      <4> QED
        BY ONLY <2>0, <3>4, <3>8, <4>1, WrittenGrows
    <3>11. \A t, rows : text' = t /\ table' = rows =>
                          (IsWritten(text, table)' <=> IsWritten(t, rows))
      BY Zenon DEF IsWritten, RestoredTable
    <3>12. IsWritten(text, table)'
      BY <3>1, <3>6, <3>10, <3>11, Zenon
    <3> HIDE DEF more, line
    <3>13. table' \in Seq(Seq(Value) \ {<<>>})
      BY <3>1, <3>9 DEF more
    <3> QED
      BY <2>0, <3>2, <3>7, <3>12, <3>13 DEF CsvInv
  <2>3. CASE UNCHANGED csvVars
    BY <2>3 DEF CsvInv, csvVars, IsWritten, RestoredTable
  <2> QED
    BY <2>1, <2>2, <2>3 DEF CsvNext
<1> QED
  BY <1>1, <1>2, PTL DEF CsvSpec

\* For exports of any number of rows and columns: what write_csv_line wrote of a cell is
\* what CsvRecordReader and parse_csv_delimited find, cell by cell.
THEOREM ExportsAreReadBack == CsvSpec => []RoundTrip
<1>1. CsvInv => RoundTrip
  <2> SUFFICES ASSUME CsvInv, width > 0, ~Cut(text).tooLong, text = <<>> \/ text[1] # "mark"
               PROVE  Read(text, ",")
                        = [rows |-> IF table # <<>> /\ Last(RestoredTable(table)) = <<<<>>>>
                                    THEN Front(RestoredTable(table)) ELSE RestoredTable(table),
                           failed |-> FALSE]
    BY Zenon DEF RoundTrip, RestoredTable, RestoredRow, Restored
  <2>1. table \in Seq(Seq(Value) \ {<<>>}) /\ IsWritten(text, table) /\ text \in Seq(Character)
    BY DEF CsvInv
  <2>2. \A v \in Value : Restored(v) \in Seq(Character)
    BY ValuesAreText
  <2>3. Read(text, Comma) = Read(text, ",")
    BY DEF Comma
  <2> QED
    BY ONLY <2>1, <2>2, <2>3, ~Cut(text).tooLong, text = <<>> \/ text[1] # "mark", WrittenIsRead
<1> QED
  BY <1>1, CsvInvHolds, PTL

\* For every file of any length: unless a record is too long, CsvRecordReader and
\* parse_csv_delimited find the same rows, or both an error.
THEOREM ReaderCorrect == CsvSpec => []ReaderAgreesWithParser
<1>1. CsvInv => ReaderAgreesWithParser
  <2> SUFFICES ASSUME CsvInv, ~Cut(text).tooLong, text # <<"mark">>, NEW d \in Delimiter
               PROVE  LET read == Read(text, d)
                          whole == Parse(Unmarked(text, 1), d)
                      IN read.failed = whole.failed /\ (~read.failed => read.rows = whole.rows)
    BY DEF ReaderAgreesWithParser
  <2>1. text \in Seq(Character)
    BY DEF CsvInv
  <2>2. d \notin {"quote", "cr", "lf"}
    BY DEF Delimiter
  <2> QED
    BY <2>1, <2>2, ReaderAgrees
<1> QED
  BY <1>1, CsvInvHolds, PTL

\* For every file, of any length, and every header and mapping: what
\* preview_csv_reader finds is what import_csv_rows_in_transaction would offer.
THEOREM PreviewsAgree == CsvSpec => []PreviewAgreesWithImport
<1>1. CsvInv => PreviewAgreesWithImport
  BY ReadsRows, RowsAgree DEF CsvInv, PreviewAgreesWithImport
<1> QED
  BY <1>1, CsvInvHolds, PTL
=============================================================================
