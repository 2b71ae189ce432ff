------------------------ MODULE MeasurementPlanProofs ------------------------
(***************************************************************************)
(* A plan measures the grid of its request: for every request whose axes   *)
(* and channels make a grid, any set of scripts and any number of samples, *)
(* the scripts of a plan that can be built, run one after the other, take  *)
(* n samples at every position of the grid, in row-major order, and their  *)
(* averages are the values there.                                          *)
(*                                                                         *)
(* BuildPlan, Product, SamplesOf and Joined are recursive functions: each  *)
(* is shown to satisfy its equation, by putting together a function that   *)
(* does, and then to compute what is claimed, by induction for a set.      *)
(***************************************************************************)
EXTENDS MeasurementPlan, TLAPS, WellFoundedInduction, FiniteSetTheorems, SequenceTheorems

\* A length, a count of samples.
Pos == Nat \ {0}

\* Quotient and remainder.
LEMMA Division ==
    ASSUME NEW a \in Nat, NEW b \in Pos
    PROVE  /\ a \div b \in Nat /\ a % b \in 0..(b - 1)
           /\ a = b * (a \div b) + (a % b)
  BY DEF Pos

\* There is only one of each.
LEMMA Quotient ==
    ASSUME NEW b \in Pos, NEW q \in Nat, NEW r \in 0..(b - 1)
    PROVE  (b * q + r) \div b = q /\ (b * q + r) % b = r
<1> DEFINE a == b * q + r
           p == a \div b
           s == a % b
<1> b \in Nat /\ b > 0
  BY DEF Pos
<1>1. a \in Nat
  OBVIOUS
<1>2. p \in Nat /\ s \in 0..(b - 1) /\ a = b * p + s
  <2> HIDE DEF a
  <2> QED
    BY <1>1, Division
<1>3. b * q + r = b * p + s
  BY <1>2
<1> HIDE DEF p, s
<1>4. q <= p
  <2> SUFFICES ASSUME p + 1 <= q
               PROVE  FALSE
    BY <1>2
  <2>1. b * (p + 1) <= b * q
    BY <1>2
  <2>2. b * (p + 1) = b * p + b
    BY <1>2
  <2> QED
    BY <1>2, <1>3, <2>1, <2>2
<1>5. p <= q
  <2> SUFFICES ASSUME q + 1 <= p
               PROVE  FALSE
    BY <1>2
  <2>1. b * (q + 1) <= b * p
    BY <1>2
  <2>2. b * (q + 1) = b * q + b
    OBVIOUS
  <2> QED
    BY <1>2, <1>3, <2>1, <2>2
<1>6. p = q
  BY <1>2, <1>4, <1>5
<1>7. s = r
  BY <1>2, <1>3, <1>6
<1> QED
  BY <1>6, <1>7 DEF p, s

\* A product of lengths is a length.
LEMMA Times ==
    ASSUME NEW b \in Pos, NEW c \in Pos
    PROVE  b * c \in Pos
  BY DEF Pos

\* Division by a product is division by one factor and then by the other.
LEMMA Nested ==
    ASSUME NEW x \in Nat, NEW b \in Pos, NEW c \in Pos
    PROVE  /\ (x \div c) \div b = x \div (b * c)
           /\ (x % (b * c)) \div c = (x \div c) % b
           /\ (x % (b * c)) % c = x % c
<1> DEFINE q == x \div c
           r == x % c
           p == q \div b
           s == q % b
           y == c * s + r
<1> b \in Nat /\ b > 0 /\ c \in Nat /\ c > 0
  BY DEF Pos
<1>1. q \in Nat /\ r \in 0..(c - 1) /\ x = c * q + r
  BY Division
<1> HIDE DEF q, r
<1>2. p \in Nat /\ s \in 0..(b - 1) /\ q = b * p + s
  BY <1>1, Division
<1> HIDE DEF p, s
<1>3. b * c \in Pos /\ b * c \in Nat
  BY DEF Pos
<1>4. y \in 0..((b * c) - 1)
  <2>1. c * s \in Nat
    BY <1>2
  <2>2. c * s <= c * (b - 1)
    BY <1>2
  <2>3. c * (b - 1) = (b * c) - c
    OBVIOUS
  <2> QED
    BY <1>1, <1>2, <1>3, <2>1, <2>2, <2>3
<1>5. x = (b * c) * p + y
  <2>1. c * q = c * (b * p) + c * s
    BY <1>2
  <2>2. c * (b * p) = (b * c) * p
    BY <1>2
  <2> QED
    BY <1>1, <1>2, <2>1, <2>2
<1>6. x \div (b * c) = p /\ x % (b * c) = y
  <2> DEFINE d == b * c
  <2> HIDE DEF y, d
  <2>1. d \in Pos /\ y \in 0..(d - 1) /\ x = d * p + y
    BY <1>3, <1>4, <1>5 DEF d
  <2>2. x \div d = p /\ x % d = y
    BY <1>2, <2>1, Quotient
  <2> QED
    BY <2>2 DEF d
<1>7. y \div c = s /\ y % c = r
  BY <1>1, <1>2, Quotient
<1> QED
  BY <1>6, <1>7 DEF q, r, p, s

\* A digit of a number is the digit of its remainder by a larger block.
LEMMA Digit ==
    ASSUME NEW x \in Nat, NEW a \in Pos, NEW b \in Pos, NEW c \in Pos
    PROVE  ((x % ((a * b) * c)) \div c) % b = (x \div c) % b
<1> DEFINE e == a * b
           q == x \div c
<1>1. e \in Pos /\ q \in Nat
  BY Division, Times
<1>2. (q % e) % b = q % b
  <2> HIDE DEF q
  <2> QED
    BY <1>1, Nested, Zenon
<1> HIDE DEF e
<1>3. (x % (e * c)) \div c = q % e
  BY <1>1, Nested, Zenon
<1> QED
  BY <1>2, <1>3 DEF e, q

\* Induction, with a set for the predicate: a set of numbers that is not all of
\* them would leave out a least one.
LEMMA Induction ==
    ASSUME NEW S, 0 \in S, \A n \in Nat : n \in S => n + 1 \in S
    PROVE  Nat \subseteq S
<1> DEFINE T == Nat \ S
<1> SUFFICES ASSUME T # {}
             PROVE  FALSE
  OBVIOUS
<1>1. PICK x \in T : \A y \in T : ~ (<<y, x>> \in OpToRel(<, Nat))
  <2>1. T \subseteq Nat
    OBVIOUS
  <2> HIDE DEF T
  <2> QED
    BY <2>1, WFMin, NatLessThanWellFounded
<1>2. \A y \in T : ~ (y < x)
  BY <1>1 DEF OpToRel
<1>3. x # 0 /\ x \in Nat
  OBVIOUS
<1>4. x - 1 \in Nat /\ x - 1 \notin T
  BY <1>2, <1>3
<1> QED
  BY <1>3, <1>4

\* The n steps of a fold over values in R.
Steps(n, R) == [1..n -> [R -> R]]
\* G holds the values of a fold, from z on.
Fold(G, n, R, z, step) ==
    G \in [0..n -> R] /\ G[0] = z /\ \A i \in 1..n : G[i] = step[i][G[i - 1]]

\* There is a function with the values of a fold: the recursive functions of
\* the model, which are chosen by their equation, satisfy it.
LEMMA FoldExists ==
    ASSUME NEW n \in Nat, NEW R, NEW z \in R, NEW step \in Steps(n, R)
    PROVE  \E G : Fold(G, n, R, z, step)
<1> USE DEF Steps
<1> DEFINE OK(m, g) == g \in [0..n -> R] /\ g[0] = z /\ \A i \in 1..n : i <= m => g[i] = step[i][g[i - 1]]
           S == {m \in Nat : \E g : OK(m, g)}
<1>1. 0 \in S
  <2>1. OK(0, [i \in 0..n |-> z])
    OBVIOUS
  <2> QED
    BY <2>1
<1>2. ASSUME NEW m \in Nat, m \in S
      PROVE  m + 1 \in S
  <2>1. PICK g : OK(m, g)
    BY <1>2
  <2> DEFINE h == [i \in 0..n |-> IF i = m + 1 THEN step[m + 1][g[m]] ELSE g[i]]
  <2>2. h \in [0..n -> R]
    <3> SUFFICES ASSUME NEW i \in 0..n
                 PROVE  h[i] \in R
      BY Zenon
    <3>1. CASE i = m + 1
      <4>1. m + 1 \in 1..n /\ m \in 0..n
        BY <3>1
      <4>2. step[m + 1] \in [R -> R] /\ g[m] \in R
        BY <2>1, <4>1
      <4> QED
        BY <3>1, <4>2
    <3>2. CASE i # m + 1
      BY <2>1, <3>2
    <3> QED
      BY <3>1, <3>2
  <2>3. h[0] = z
    BY <2>1
  <2>4. ASSUME NEW i \in 1..n, i <= m + 1
        PROVE  h[i] = step[i][h[i - 1]]
    <3>1. i - 1 # m + 1 /\ i - 1 \in 0..n /\ i \in 0..n
      BY <2>4
    <3>2. h[i - 1] = g[i - 1]
      BY <3>1
    <3>3. CASE i = m + 1
      BY <3>1, <3>2, <3>3
    <3>4. CASE i # m + 1
      BY <2>1, <2>4, <3>1, <3>2, <3>4
    <3> QED
      BY <3>3, <3>4
  <2> HIDE DEF h
  <2>5. OK(m + 1, h)
    BY <2>2, <2>3, <2>4
  <2> HIDE DEF OK
  <2> QED
    BY <2>5
<1>3. n \in S
  <2> HIDE DEF S
  <2> QED
    BY <1>1, <1>2, Induction
<1> QED
  BY <1>3 DEF Fold

-----------------------------------------------------------------------------
(* Products of lengths.                                                    *)

\* G holds the products of the first lengths of s.
Multiplies(G, s, n) ==
    Len(s) = n /\ G[0] = 1 /\ \A i \in 1..n : G[i] = G[i - 1] * s[i]

\* Product multiplies all of them.
LEMMA ProductIs ==
    ASSUME NEW s, NEW n \in Nat, NEW G, Multiplies(G, s, n)
    PROVE  Product(s) = G[n]
<1> USE DEF Multiplies
<1> DEFINE St(F) == [i \in 0..n |-> IF i = 0 THEN 1 ELSE F[i - 1] * s[i]]
           P == CHOOSE F : F = St(F)
           H == [i \in 0..n |-> G[i]]
<1>1. Product(s) = P[n]
  BY DEF Product
<1>2. H = St(H)
  <2>1. ASSUME NEW i \in 0..n
        PROVE  H[i] = St(H)[i]
    <3>1. CASE i = 0
      BY <3>1
    <3>2. CASE i # 0
      <4>1. i - 1 \in 0..n /\ i \in 1..n
        BY <3>2
      <4> QED
        BY <3>2, <4>1
    <3> QED
      BY <3>1, <3>2
  <2> QED
    BY <2>1
<1>3. P = St(P)
  <2> HIDE DEF St, H
  <2> QED
    BY <1>2
<1> HIDE DEF P
<1> DEFINE S == {m \in Nat : m <= n => P[m] = G[m]}
<1>4. 0 \in S
  BY <1>3
<1>5. ASSUME NEW m \in Nat, m \in S
      PROVE  m + 1 \in S
  <2>1. CASE m + 1 <= n
    <3>1. P[m + 1] = P[m] * s[m + 1]
      <4>1. P[m + 1] = St(P)[m + 1]
        BY <1>3, Zenon
      <4>2. m + 1 \in 0..n /\ m + 1 # 0 /\ (m + 1) - 1 = m
        BY <2>1
      <4> QED
        BY <4>1, <4>2
    <3>2. m + 1 \in 1..n /\ (m + 1) - 1 = m
      BY <2>1
    <3> QED
      BY <1>5, <2>1, <3>1, <3>2
  <2>2. CASE ~ (m + 1 <= n)
    BY <2>2
  <2> QED
    BY <2>1, <2>2
<1>6. n \in S
  <2> HIDE DEF S
  <2> QED
    BY <1>4, <1>5, Induction
<1> QED
  BY <1>1, <1>6

\* The number of positions that axes a to b have together.
Block(L, a, b) == Product(SubSeq(L, a, b))

\* A block of no axis has one position; one more axis multiplies.
LEMMA BlockStep ==
    ASSUME NEW L \in Seq(Pos), NEW a \in 1..(Len(L) + 1)
    PROVE  /\ Block(L, a, a - 1) = 1
           /\ \A b \in (a - 1)..Len(L) : Block(L, a, b) \in Pos
           /\ \A b \in a..Len(L) : Block(L, a, b) = Block(L, a, b - 1) * L[b]
<1> DEFINE n == Len(L) - a + 1
           step == [i \in 1..n |-> [x \in Pos |-> x * L[a + i - 1]]]
<1>1. n \in Nat /\ Len(L) \in Nat
  OBVIOUS
<1>2. \A i \in 1..Len(L) : L[i] \in Pos
  OBVIOUS
<1>3. step \in Steps(n, Pos)
  <2> SUFFICES ASSUME NEW i \in 1..n, NEW x \in Pos
               PROVE  x * L[a + i - 1] \in Pos
    BY Zenon DEF Steps
  <2>1. a + i - 1 \in 1..Len(L)
    BY <1>1
  <2> QED
    BY <1>2, <2>1, Times
<1>4. 1 \in Pos
  BY DEF Pos
<1> HIDE DEF step
<1>5. PICK G : Fold(G, n, Pos, 1, step)
  <2> HIDE DEF n
  <2> QED
    BY <1>1, <1>3, <1>4, FoldExists
<1> USE DEF Fold
<1>6. \A i \in 1..n : G[i] = G[i - 1] * L[a + i - 1]
  <2> TAKE i \in 1..n
  <2>1. i - 1 \in 0..n
    BY <1>1
  <2>2. G[i - 1] \in Pos
    BY <1>5, <2>1
  <2> QED
    BY <1>5, <2>2 DEF step
<1>7. ASSUME NEW b \in (a - 1)..Len(L)
      PROVE  Block(L, a, b) = G[b - a + 1]
  <2> DEFINE s == SubSeq(L, a, b)
             k == b - a + 1
  <2>1. k \in 0..n /\ a \in Int /\ b \in Int
    BY <1>1
  <2>2. Len(s) = k /\ \A i \in 1..k : s[i] = L[a + i - 1]
    <3>1. \A i \in a..b : L[i] \in Pos
      BY <1>1, <1>2
    <3>2. /\ Len(s) = IF a <= b THEN b - a + 1 ELSE 0
          /\ \A i \in 1..b-a+1 : s[i] = L[a + i - 1]
      BY <2>1, <3>1, SubSeqProperties
    <3>3. (IF a <= b THEN b - a + 1 ELSE 0) = k
      BY <1>1
    <3> QED
      BY <3>2, <3>3
  <2> HIDE DEF s, k
  <2>3. \A i \in 1..k : G[i] = G[i - 1] * s[i]
    <3> TAKE i \in 1..k
    <3>1. i \in 1..n
      BY <2>1
    <3> QED
      BY <1>6, <2>2, <3>1
  <2>4. k \in Nat
    BY <1>1, <2>1
  <2>5. Product(s) = G[k]
    <3>1. Multiplies(G, s, k)
      BY <1>5, <2>2, <2>3 DEF Multiplies
    <3> QED
      BY <2>4, <3>1, ProductIs
  <2> QED
    BY <2>5 DEF Block, s, k
<1>8. Block(L, a, a - 1) = 1
  <2>1. a - 1 \in (a - 1)..Len(L) /\ (a - 1) - a + 1 = 0
    OBVIOUS
  <2> QED
    BY <1>5, <1>7, <2>1
<1>9. ASSUME NEW b \in (a - 1)..Len(L)
      PROVE  Block(L, a, b) \in Pos
  <2>1. b - a + 1 \in 0..n
    OBVIOUS
  <2>2. G[b - a + 1] \in Pos
    BY <1>5, <2>1
  <2> QED
    BY <1>7, <2>2
<1>10. ASSUME NEW b \in a..Len(L)
       PROVE  Block(L, a, b) = Block(L, a, b - 1) * L[b]
  <2>1. b - a + 1 \in 1..n /\ (b - a + 1) - 1 = (b - 1) - a + 1 /\ a + (b - a + 1) - 1 = b
    OBVIOUS
  <2>2. b \in (a - 1)..Len(L) /\ b - 1 \in (a - 1)..Len(L)
    OBVIOUS
  <2>3. G[b - a + 1] = G[(b - 1) - a + 1] * L[b]
    BY <1>6, <2>1
  <2>4. Block(L, a, b) = G[b - a + 1] /\ Block(L, a, b - 1) = G[(b - 1) - a + 1]
    BY <1>7, <2>2
  <2> QED
    BY <2>3, <2>4
<1> QED
  BY <1>8, <1>9, <1>10

\* The axes from a to b are those to c and those after it.
LEMMA BlockSplit ==
    ASSUME NEW L \in Seq(Pos), NEW a \in 1..(Len(L) + 1), NEW c \in (a - 1)..Len(L)
    PROVE  \A b \in c..Len(L) : Block(L, a, b) = Block(L, a, c) * Block(L, c + 1, b)
<1> DEFINE S == {m \in Nat : c + m <= Len(L) => Block(L, a, c + m) = Block(L, a, c) * Block(L, c + 1, c + m)}
<1>1. Len(L) \in Nat /\ c \in Nat /\ c + 1 \in 1..(Len(L) + 1) /\ a \in Nat /\ a - 1 <= c /\ c <= Len(L)
  OBVIOUS
<1>2. 0 \in S
  <2>1. Block(L, c + 1, c) = 1 /\ Block(L, a, c) \in Pos
    <3>1. (c + 1) - 1 = c
      BY <1>1
    <3>2. Block(L, c + 1, (c + 1) - 1) = 1
      BY <1>1, BlockStep
    <3> QED
      BY <1>1, <3>1, <3>2, BlockStep
  <2>2. c + 0 = c
    BY <1>1
  <2>3. Block(L, a, c) = Block(L, a, c) * 1
    BY <2>1 DEF Pos
  <2> QED
    BY <2>1, <2>2, <2>3
<1>3. ASSUME NEW m \in Nat, m \in S
      PROVE  m + 1 \in S
  <2> SUFFICES ASSUME c + (m + 1) <= Len(L)
               PROVE  Block(L, a, c + (m + 1)) = Block(L, a, c) * Block(L, c + 1, c + (m + 1))
    OBVIOUS
  <2> DEFINE b == c + (m + 1)
             x == Block(L, a, c)
             y == Block(L, c + 1, c + m)
  <2>1. b \in a..Len(L) /\ b \in (c + 1)..Len(L) /\ b - 1 = c + m /\ c + m <= Len(L)
    BY <1>1
  <2>2. Block(L, a, c + m) = x * y
    BY <1>3, <2>1
  <2>3. Block(L, a, b) = Block(L, a, c + m) * L[b]
    <3> HIDE DEF b
    <3>1. Block(L, a, b) = Block(L, a, b - 1) * L[b]
      BY <2>1, BlockStep
    <3> QED
      BY <2>1, <3>1
  <2>4. Block(L, c + 1, b) = y * L[b]
    <3> HIDE DEF b
    <3>1. Block(L, c + 1, b) = Block(L, c + 1, b - 1) * L[b]
      BY <1>1, <2>1, BlockStep
    <3> QED
      BY <2>1, <3>1
  <2>5. x \in Int /\ y \in Int /\ L[b] \in Int
    <3>1. x \in Pos
      BY <1>1, BlockStep
    <3>2. c + m \in ((c + 1) - 1)..Len(L)
      BY <1>1, <2>1
    <3>3. y \in Pos
      BY <1>1, <3>2, BlockStep
    <3>4. b \in 1..Len(L)
      BY <1>1, <2>1
    <3>5. L[b] \in Pos
      BY <3>4
    <3> QED
      BY <3>1, <3>3, <3>5 DEF Pos
  <2> HIDE DEF x, y, b
  <2>6. (x * y) * L[b] = x * (y * L[b])
    BY <2>5
  <2> QED
    BY <2>2, <2>3, <2>4, <2>6 DEF x, y, b
<1>4. Nat \subseteq S
  <2> HIDE DEF S
  <2> QED
    BY <1>2, <1>3, Induction
<1> SUFFICES ASSUME NEW b \in c..Len(L)
             PROVE  Block(L, a, b) = Block(L, a, c) * Block(L, c + 1, b)
  OBVIOUS
<1>5. b - c \in S /\ c + (b - c) = b /\ b <= Len(L)
  BY <1>1, <1>4
<1> QED
  BY <1>5

-----------------------------------------------------------------------------
(* Lists put together from blocks.                                         *)

\* G holds the first parts, one after the other.
Concats(G, part, n) ==
    G[0] = << >> /\ \A k \in 1..n : G[k] = G[k - 1] \o part[k]

\* There is such a function.
LEMMA ConcatExists ==
    ASSUME NEW n \in Nat, NEW S, NEW part \in [1..n -> Seq(S)]
    PROVE  \E G : G \in [0..n -> Seq(S)] /\ Concats(G, part, n)
<1> DEFINE R == Seq(S)
           step == [k \in 1..n |-> [x \in R |-> x \o part[k]]]
<1>1. step \in Steps(n, R)
  <2>1. \A k \in 1..n, x \in R : x \o part[k] \in R
    OBVIOUS
  <2> HIDE DEF R
  <2> QED
    BY <2>1, Zenon DEF Steps
<1>2. << >> \in R
  OBVIOUS
<1> HIDE DEF step, R
<1>3. PICK G : Fold(G, n, R, << >>, step)
  BY <1>1, <1>2, FoldExists
<1>4. G \in [0..n -> R] /\ G[0] = << >>
  BY <1>3 DEF Fold
<1>5. ASSUME NEW k \in 1..n
      PROVE  G[k] = G[k - 1] \o part[k]
  <2>1. G[k] = step[k][G[k - 1]]
    BY <1>3 DEF Fold
  <2>2. k - 1 \in 0..n
    OBVIOUS
  <2>3. G[k - 1] \in R
    BY <1>4, <2>2
  <2> QED
    BY <2>1, <2>3 DEF step
<1> QED
  BY <1>4, <1>5 DEF Concats, R

\* x is k parts of the same length M, one after the other.
Blocks(x, part, k, M) ==
    Len(x) = k * M /\ \A l \in 1..(k * M) : x[l] = part[((l - 1) \div M) + 1][((l - 1) % M) + 1]

\* One more part.
LEMMA BlocksAppend ==
    ASSUME NEW S, NEW x \in Seq(S), NEW y \in Seq(S), NEW M \in Pos, NEW k \in Nat, NEW part,
           Blocks(x, part, k, M), Len(y) = M, \A j \in 1..M : y[j] = part[k + 1][j]
    PROVE  Blocks(x \o y, part, k + 1, M)
<1> DEFINE z == x \o y
<1>1. M \in Nat /\ M > 0 /\ k * M \in Nat /\ (k + 1) * M = k * M + M
  BY DEF Pos
<1>2. /\ Len(x) = k * M
      /\ \A l \in 1..(k * M) : x[l] = part[((l - 1) \div M) + 1][((l - 1) % M) + 1]
  BY DEF Blocks
<1> DEFINE n == k * M
<1> HIDE DEF n
<1>3. Len(z) = n + M /\ \A l \in 1..(n + M) : z[l] = IF l <= n THEN x[l] ELSE y[l - n]
  <2>1. n \in Nat /\ Len(x) = n
    BY <1>1, <1>2 DEF n
  <2> QED
    BY <1>1, <2>1, ConcatProperties
<1> HIDE DEF z
<1>4. ASSUME NEW l \in 1..(n + M)
      PROVE  z[l] = part[((l - 1) \div M) + 1][((l - 1) % M) + 1]
  <2>1. CASE l <= n
    <3>1. l \in 1..n
      BY <1>1, <2>1 DEF n
    <3> QED
      BY <1>2, <1>3, <2>1, <3>1 DEF n
  <2>2. CASE l > n
    <3> DEFINE r == l - 1 - n
    <3>1. r \in 0..(M - 1) /\ l - 1 = M * k + r /\ l - n = r + 1 /\ l - n \in 1..M /\ ~ (l <= n)
      BY <1>1, <2>2 DEF n
    <3>2. z[l] = y[l - n]
      BY <1>3, <3>1
    <3> HIDE DEF r
    <3>3. (l - 1) \div M = k /\ (l - 1) % M = r
      <4>1. (M * k + r) \div M = k /\ (M * k + r) % M = r
        BY <3>1, Quotient
      <4> QED
        BY <3>1, <4>1
    <3> QED
      BY <3>1, <3>2, <3>3
  <2> QED
    BY <1>1, <2>1, <2>2 DEF n
<1> QED
  BY <1>1, <1>3, <1>4 DEF Blocks, n, z

\* What a fold over \o makes of parts of one length.
LEMMA Flatten ==
    ASSUME NEW n \in Nat, NEW S, NEW part \in [1..n -> Seq(S)], NEW G \in [0..n -> Seq(S)],
           Concats(G, part, n), NEW M \in Pos, \A k \in 1..n : Len(part[k]) = M
    PROVE  Blocks(G[n], part, n, M)
<1> DEFINE T == {m \in Nat : m <= n => Blocks(G[m], part, m, M)}
<1>1. 0 \in T
  <2>1. G[0] = << >> /\ 0 * M = 0
    BY DEF Concats, Pos
  <2> QED
    BY <2>1 DEF Blocks
<1>2. ASSUME NEW m \in Nat, m \in T
      PROVE  m + 1 \in T
  <2> SUFFICES ASSUME m + 1 <= n
               PROVE  Blocks(G[m + 1], part, m + 1, M)
    OBVIOUS
  <2>1. m + 1 \in 1..n /\ (m + 1) - 1 = m /\ m \in 0..n
    OBVIOUS
  <2>2. G[m + 1] = G[m] \o part[m + 1]
    BY <2>1 DEF Concats
  <2>3. G[m] \in Seq(S) /\ part[m + 1] \in Seq(S) /\ Len(part[m + 1]) = M
    BY <2>1
  <2>4. Blocks(G[m], part, m, M)
    BY <1>2, <2>1
  <2>5. Blocks(G[m] \o part[m + 1], part, m + 1, M)
    BY <2>3, <2>4, BlocksAppend
  <2> QED
    BY <2>2, <2>5
<1>3. n \in T
  <2> HIDE DEF T
  <2> QED
    BY <1>1, <1>2, Induction
<1> QED
  BY <1>3

-----------------------------------------------------------------------------
(* The inputs of the scripts.                                              *)

\* The channel that a slot of the request sets.
On(req, ports, s) == ConvertToTarget(Labelled(req, s).port, ports)

\* The request is a grid: axes with points and channels, and no channel on two
\* of its slots. What CanHandle leaves through.
Grid(req, ports) ==
    /\ Len(Axes(req)) \in Nat /\ DOMAIN Axes(req) = 1..Len(Axes(req))
    /\ \A i \in DOMAIN Axes(req) :
          /\ Len(AxisValues(req, i)) \in Pos
          /\ DOMAIN AxisValues(req, i) = 1..Len(AxisValues(req, i))
          /\ DOMAIN Axes(req)[i] # {} /\ DOMAIN Axes(req)[i] \subseteq Nat
    /\ \A s, u \in Slots(req) : On(req, ports, s) = On(req, ports, u) => s = u

\* A slot is an axis and one of its channels.
LEMMA Slot ==
    ASSUME NEW req
    PROVE  /\ \A s \in Slots(req) : /\ s = <<s[1], s[2]>> /\ s[1] \in DOMAIN Axes(req)
                                    /\ s[2] \in DOMAIN Axes(req)[s[1]]
           /\ \A i \in DOMAIN Axes(req) : \A j \in DOMAIN Axes(req)[i] : <<i, j>> \in Slots(req)
  BY DEF Slots

\* The shape of a grid is the numbers of points of its axes.
LEMMA Lengths ==
    ASSUME NEW req, NEW ports, Grid(req, ports)
    PROVE  /\ ShapeFromSpace(req) \in Seq(Pos) /\ Len(ShapeFromSpace(req)) = Len(Axes(req))
           /\ \A i \in 1..Len(Axes(req)) : ShapeFromSpace(req)[i] = Len(AxisValues(req, i))
<1>1. ShapeFromSpace(req) = [i \in 1..Len(Axes(req)) |-> Len(AxisValues(req, i))]
  BY DEF ShapeFromSpace, Grid
<1>2. \A i \in 1..Len(Axes(req)) : Len(AxisValues(req, i)) \in Pos
  BY DEF Grid
<1>3. Len(Axes(req)) \in Nat
  BY DEF Grid
<1> QED
  BY <1>1, <1>2, <1>3

\* The setters of a script, channel by channel: no slot overwrites another.
LEMMA SettersBuilt ==
    ASSUME NEW req, NEW ports, Grid(req, ports), NEW f
    PROVE  /\ DOMAIN BuildSetters(req, f, ports) = {On(req, ports, s) : s \in Slots(req)}
           /\ \A s \in Slots(req) : BuildSetters(req, f, ports)[On(req, ports, s)] = SetterInput(req, s, f)
<1> DEFINE Later(s, r) == s[1] > r[1] \/ (s[1] = r[1] /\ s[2] >= r[2])
           Last(t) == CHOOSE s \in Slots(req) :
                        On(req, ports, s) = t /\ \A r \in Slots(req) : On(req, ports, r) = t => Later(s, r)
<1>1. BuildSetters(req, f, ports) =
        [t \in {On(req, ports, s) : s \in Slots(req)} |-> SetterInput(req, Last(t), f)]
  BY DEF BuildSetters, On
<1>2. ASSUME NEW s \in Slots(req)
      PROVE  Last(On(req, ports, s)) = s
  <2>1. \A r \in Slots(req) : On(req, ports, r) = On(req, ports, s) => r = s
    BY DEF Grid
  <2>2. Later(s, s)
    <3>1. s[2] \in Nat
      BY Slot DEF Grid
    <3> QED
      BY <3>1
  <2> HIDE DEF Later
  <2> QED
    BY <2>1, <2>2
<1> HIDE DEF Last
<1> QED
  BY <1>1, <1>2

\* The numbers from a to b.
LEMMA Intervals ==
    ASSUME NEW a \in Int, NEW b \in Int, a <= b + 1
    PROVE  Cardinality(a..b) = b - a + 1
<1>1. Cardinality(a..b) = IF a > b THEN 0 ELSE b - a + 1
  BY FS_Interval
<1> QED
  BY <1>1

\* What the script of a plan is given when the first a axes are fixed: it is
\* the one for the other dimensions, and it sweeps no fixed axis.
LEMMA InputOf ==
    ASSUME NEW req, NEW ports, Grid(req, ports),
           NEW a \in 0..Len(Axes(req)), NEW f, DOMAIN f = 1..a
    PROVE  LET r == Len(Axes(req))
               in == PrimitiveInput(req, f, ports)
           IN  /\ in.choice = r - a
               /\ in.getters = GetterTargets(req, ports)
               /\ DOMAIN in.setters = {On(req, ports, s) : s \in Slots(req)}
               /\ \A s \in Slots(req) :
                    /\ in.setters[On(req, ports, s)] = SetterInput(req, s, f)
                    /\ s[1] <= a => ~SetterInput(req, s, f).swept
                    /\ s[1] > a => /\ SetterInput(req, s, f).swept
                                   /\ SetterInput(req, s, f).axis = s[1] - 1 - a
                                   /\ SetterInput(req, s, f).num = ShapeFromSpace(req)[s[1]]
               /\ AxisCounts(in) = [b \in 1..(r - a) |-> ShapeFromSpace(req)[a + b]]
               /\ a = 0 => NativeShape(in) = ShapeFromSpace(req)
<1> DEFINE r == Len(Axes(req))
           L == ShapeFromSpace(req)
           in == PrimitiveInput(req, f, ports)
           b == BuildSetters(req, f, ports)
           on(s) == On(req, ports, s)
<1>1. r \in Nat /\ DOMAIN Axes(req) = 1..r
  BY DEF Grid
<1>2. /\ in.setters = b /\ in.getters = GetterTargets(req, ports)
      /\ in.choice = Cardinality({b[t].axis : t \in Swept(b)})
  BY DEF PrimitiveInput
<1>3. DOMAIN b = {on(s) : s \in Slots(req)} /\ \A s \in Slots(req) : b[on(s)] = SetterInput(req, s, f)
  BY SettersBuilt
<1> HIDE DEF in, b, on
<1>4. \A s \in Slots(req) : s[1] \in 1..r
  BY <1>1, Slot
<1>5. ASSUME NEW s \in Slots(req), s[1] <= a
      PROVE  ~SetterInput(req, s, f).swept
  <2>1. s[1] \in DOMAIN f
    BY <1>4, <1>5
  <2> QED
    BY <2>1 DEF SetterInput
<1>6. ASSUME NEW s \in Slots(req), s[1] > a
      PROVE  /\ SetterInput(req, s, f).swept
             /\ SetterInput(req, s, f).axis = s[1] - 1 - a
             /\ SetterInput(req, s, f).num = L[s[1]]
  <2>1. s[1] \notin DOMAIN f
    BY <1>4, <1>6
  <2>2. /\ SetterInput(req, s, f).swept
        /\ SetterInput(req, s, f).axis = PrimitiveAxis(s[1], f)
        /\ SetterInput(req, s, f).num = Len(AxisValues(req, s[1]))
    BY <2>1 DEF SetterInput, InputFromDomain
  <2>3. PrimitiveAxis(s[1], f) = s[1] - 1 - a
    <3> DEFINE i == s[1]
    <3>1. i \in 1..r /\ i > a
      BY <1>4, <1>6
    <3> HIDE DEF i
    <3>2. {k \in 1..(i - 1) : k \notin DOMAIN f} = (a + 1)..(i - 1)
      BY <1>1, <3>1
    <3>3. Cardinality((a + 1)..(i - 1)) = (i - 1) - (a + 1) + 1
      BY <1>1, <3>1, Intervals
    <3>4. PrimitiveAxis(i, f) = (i - 1) - (a + 1) + 1
      BY <3>2, <3>3 DEF PrimitiveAxis
    <3> QED
      BY <1>1, <3>1, <3>4 DEF i
  <2> QED
    BY <1>4, <2>2, <2>3, Lengths
<1>7. \A t \in Swept(b) : \E s \in Slots(req) : t = on(s) /\ s[1] > a
  <2> TAKE t \in Swept(b)
  <2>1. t \in DOMAIN b /\ b[t].swept
    BY DEF Swept
  <2>2. PICK s \in Slots(req) : t = on(s)
    BY <1>3, <2>1
  <2>3. ~ (s[1] <= a)
    BY <1>3, <1>5, <2>1, <2>2
  <2> QED
    BY <1>1, <1>4, <2>2, <2>3
<1>8. \A i \in (a + 1)..r : \E s \in Slots(req) : s[1] = i /\ on(s) \in Swept(b)
  <2> TAKE i \in (a + 1)..r
  <2>1. i \in DOMAIN Axes(req) /\ i > a
    BY <1>1
  <2>2. PICK j \in DOMAIN Axes(req)[i] : TRUE
    BY <2>1 DEF Grid
  <2>3. <<i, j>> \in Slots(req) /\ <<i, j>>[1] = i
    BY <2>1, <2>2, Slot
  <2>4. SetterInput(req, <<i, j>>, f).swept
    BY <1>6, <2>1, <2>3
  <2>5. on(<<i, j>>) \in Swept(b)
    BY <1>3, <2>3, <2>4 DEF Swept
  <2> QED
    BY <2>3, <2>5
<1>9. \A s \in Slots(req) : on(s) \in Swept(b) => /\ s[1] > a /\ b[on(s)].axis = s[1] - 1 - a
                                                /\ b[on(s)].num = L[s[1]]
  <2> TAKE s \in Slots(req)
  <2> HAVE on(s) \in Swept(b)
  <2>1. b[on(s)].swept /\ b[on(s)] = SetterInput(req, s, f)
    BY <1>3 DEF Swept
  <2>2. ~ (s[1] <= a)
    BY <1>5, <2>1
  <2>3. s[1] > a
    BY <1>1, <1>4, <2>2
  <2> QED
    BY <1>6, <2>1, <2>3
<1>10. {b[t].axis : t \in Swept(b)} = 0..(r - a - 1)
  <2>1. ASSUME NEW t \in Swept(b)
        PROVE  b[t].axis \in 0..(r - a - 1)
    <3>1. PICK s \in Slots(req) : t = on(s)
      BY <1>7
    <3>2. s[1] > a /\ b[t].axis = s[1] - 1 - a
      BY <1>9, <3>1
    <3> QED
      BY <1>1, <1>4, <3>2
  <2>2. ASSUME NEW x \in 0..(r - a - 1)
        PROVE  \E t \in Swept(b) : b[t].axis = x
    <3>1. x + a + 1 \in (a + 1)..r
      BY <1>1
    <3>2. PICK s \in Slots(req) : s[1] = x + a + 1 /\ on(s) \in Swept(b)
      BY <1>8, <3>1
    <3>3. b[on(s)].axis = (x + a + 1) - 1 - a
      BY <1>9, <3>2
    <3> QED
      BY <1>1, <3>2, <3>3
  <2> QED
    BY <2>1, <2>2
<1>11. Cardinality(0..(r - a - 1)) = r - a
  <2>1. r - a - 1 \in Int /\ 0 <= (r - a - 1) + 1 /\ (r - a - 1) - 0 + 1 = r - a
    BY <1>1
  <2> QED
    BY <2>1, Intervals
<1>12. in.choice = r - a
  BY <1>2, <1>10, <1>11
<1>13. ASSUME NEW x \in 1..(r - a)
       PROVE  b[CHOOSE t \in Swept(b) : b[t].axis = x - 1].num = L[a + x]
  <2>1. a + x \in (a + 1)..r
    BY <1>1
  <2>2. PICK s \in Slots(req) : s[1] = a + x /\ on(s) \in Swept(b)
    BY <1>8, <2>1
  <2>3. b[on(s)].axis = x - 1
    BY <1>1, <1>9, <2>2
  <2> DEFINE t == CHOOSE t \in Swept(b) : b[t].axis = x - 1
  <2>4. t \in Swept(b) /\ b[t].axis = x - 1
    BY <2>2, <2>3
  <2> HIDE DEF t
  <2>5. PICK u \in Slots(req) : t = on(u)
    BY <1>7, <2>4
  <2>6. u[1] > a /\ b[t].axis = u[1] - 1 - a /\ b[t].num = L[u[1]]
    BY <1>9, <2>4, <2>5
  <2>7. u[1] = a + x
    <3>1. x - 1 = u[1] - 1 - a /\ u[1] \in Int
      BY <1>1, <1>4, <2>4, <2>6
    <3> QED
      BY <1>1, <3>1
  <2> QED
    BY <2>6, <2>7 DEF t
<1>14. AxisCounts(in) = [x \in 1..(r - a) |-> L[a + x]]
  <2>1. AxisCounts(in) = [x \in 1..(r - a) |-> b[CHOOSE t \in Swept(b) : b[t].axis = x - 1].num]
    BY <1>2, <1>12 DEF AxisCounts
  <2> QED
    BY <1>13, <2>1
<1>15. ASSUME a = 0
       PROVE  NativeShape(in) = L
  <2> DEFINE N(x) == b[CHOOSE t \in Swept(b) : b[t].axis = x - 1].num
  <2>1. NativeShape(in) = [x \in 1..r |-> IF x - 1 \in 0..(r - a - 1) THEN N(x) ELSE 0]
    <3>1. NativeShape(in) = [x \in 1..Cardinality({b[t].axis : t \in Swept(b)}) |->
                               IF x - 1 \in {b[t].axis : t \in Swept(b)} THEN N(x) ELSE 0]
      BY <1>2 DEF NativeShape
    <3>2. r - a = r
      BY <1>1, <1>15
    <3> HIDE DEF N
    <3> QED
      BY <1>10, <1>11, <3>1, <3>2
  <2>2. \A x \in 1..r : x - 1 \in 0..(r - a - 1) /\ N(x) = L[x]
    <3> HIDE DEF N
    <3> TAKE x \in 1..r
    <3>1. x \in 1..(r - a) /\ x - 1 \in 0..(r - a - 1) /\ a + x = x
      BY <1>1, <1>15
    <3> QED
      BY <1>13, <3>1 DEF N
  <2> HIDE DEF N
  <2>3. L = [x \in 1..r |-> L[x]]
    BY <1>1 DEF ShapeFromSpace
  <2> HIDE DEF L
  <2> QED
    BY <2>1, <2>2, <2>3
<1> QED
  BY <1>2, <1>3, <1>5, <1>6, <1>12, <1>14, <1>15 DEF in, on

-----------------------------------------------------------------------------
(* The recursion of BuildPlan.                                             *)

\* The leaves of the plans below, one after the other.
Joined(sub) ==
    LET Upto[k \in 0..Len(sub)] == IF k = 0 THEN << >> ELSE Upto[k - 1] \o sub[k].leaves
    IN  Upto[Len(sub)]

\* The axis that buildPlan fixes next.
FirstFree(req, f) == CHOOSE i \in AxisToReduce(req, f) : TRUE

\* The plans below f, one for every point of that axis.
Below(req, G, f) == [k \in DOMAIN AxisValues(req, FirstFree(req, f)) |-> G[f @@ (FirstFree(req, f) :> k)]]

\* One unfolding of BuildPlan, with G for the plans below.
Body(req, ports, dims, G, f) ==
    IF ~SettersOK(req, f) THEN NoPlan
    ELSE IF PrimitiveInput(req, f, ports).choice \in dims
         THEN [ok |-> TRUE, leaves |-> <<PrimitiveInput(req, f, ports)>>]
    ELSE IF AxisToReduce(req, f) = {} THEN NoPlan
    ELSE IF \A k \in DOMAIN Below(req, G, f) : Below(req, G, f)[k].ok
         THEN [ok |-> TRUE, leaves |-> Joined(Below(req, G, f))] ELSE NoPlan

\* G satisfies the equation of BuildPlan.
Unfolds(req, ports, dims, G) ==
    G = [f \in Fixings(req) |-> Body(req, ports, dims, G, f)]

\* BuildPlan is a function that was chosen for its equation.
LEMMA PlanChosen ==
    ASSUME NEW req, NEW ports, NEW dims, NEW f
    PROVE  BuildPlan(req, ports, f, dims) = (CHOOSE G : Unfolds(req, ports, dims, G))[f]
  BY DEF BuildPlan, Unfolds, Body, Below, Joined, FirstFree

\* An unfolding looks only at the plans below.
LEMMA Congruence ==
    ASSUME NEW req, NEW ports, NEW dims, NEW f, NEW G, NEW H,
           AxisToReduce(req, f) # {} => Below(req, G, f) = Below(req, H, f)
    PROVE  Body(req, ports, dims, G, f) = Body(req, ports, dims, H, f)
<1>1. CASE AxisToReduce(req, f) = {}
  BY <1>1 DEF Body
<1>2. CASE AxisToReduce(req, f) # {}
  BY <1>2 DEF Body
<1> QED
  BY <1>1, <1>2

\* Fixing the next axis at a point is a fixing again.
LEMMA Extended ==
    ASSUME NEW req, NEW f \in Fixings(req), AxisToReduce(req, f) # {},
           NEW k \in DOMAIN AxisValues(req, FirstFree(req, f))
    PROVE  LET a == FirstFree(req, f)
               g == f @@ (a :> k)
           IN  /\ a \in DOMAIN Axes(req) /\ a \notin DOMAIN f /\ \A i \in 1..(a - 1) : i \in DOMAIN f
               /\ g \in Fixings(req) /\ DOMAIN g = DOMAIN f \cup {a}
               /\ g[a] = k /\ \A i \in DOMAIN f : g[i] = f[i]
<1> DEFINE a == FirstFree(req, f)
           g == f @@ (a :> k)
           Points(S) == UNION {DOMAIN AxisValues(req, i) : i \in S}
<1>1. a \in AxisToReduce(req, f)
  BY DEF FirstFree
<1>2. a \in DOMAIN Axes(req) /\ a \notin DOMAIN f /\ \A i \in 1..(a - 1) : i \in DOMAIN f
  BY <1>1 DEF AxisToReduce
<1>3. k \in DOMAIN AxisValues(req, a)
  OBVIOUS
<1> HIDE DEF a
<1>4. DOMAIN g = DOMAIN f \cup {a} /\ g[a] = k /\ \A i \in DOMAIN f : g[i] = f[i]
  BY <1>2 DEF @@, :>
<1>5. g = [i \in DOMAIN f \cup {a} |-> g[i]]
  BY DEF @@, :>
<1>6. PICK S \in SUBSET DOMAIN Axes(req) : f \in [S -> Points(S)]
  BY DEF Fixings
<1> HIDE DEF g
<1>7. DOMAIN f = S /\ S \cup {a} \in SUBSET DOMAIN Axes(req)
  BY <1>2, <1>6
<1>8. \A i \in S \cup {a} : g[i] \in Points(S \cup {a})
  <2>1. Points(S) \subseteq Points(S \cup {a}) /\ k \in Points(S \cup {a})
    BY <1>3
  <2>2. \A i \in S : f[i] \in Points(S)
    BY <1>6
  <2> HIDE DEF Points
  <2> QED
    BY <1>4, <1>7, <2>1, <2>2
<1>9. g \in [S \cup {a} -> Points(S \cup {a})]
  <2> HIDE DEF Points
  <2> QED
    BY <1>5, <1>7, <1>8
<1>10. g \in Fixings(req)
  BY <1>7, <1>9 DEF Fixings
<1> QED
  BY <1>2, <1>4, <1>10 DEF g, a

\* The fixings of at least the first e axes.
Deep(req, e) == {f \in Fixings(req) : 1..e \subseteq DOMAIN f}

\* Fixing the next axis goes deeper, which ends the recursion.
LEMMA Deeper ==
    ASSUME NEW req, Len(Axes(req)) \in Nat, DOMAIN Axes(req) = 1..Len(Axes(req)),
           NEW e \in Nat, e <= Len(Axes(req)), NEW f \in Deep(req, e), AxisToReduce(req, f) # {},
           NEW k \in DOMAIN AxisValues(req, FirstFree(req, f))
    PROVE  /\ f @@ (FirstFree(req, f) :> k) \in Deep(req, e)
           /\ f \notin Deep(req, e + 1) => f @@ (FirstFree(req, f) :> k) \in Deep(req, e + 1)
<1> DEFINE a == FirstFree(req, f)
           g == f @@ (a :> k)
<1>1. f \in Fixings(req) /\ 1..e \subseteq DOMAIN f
  BY DEF Deep
<1>2. /\ a \in 1..Len(Axes(req)) /\ a \notin DOMAIN f /\ \A i \in 1..(a - 1) : i \in DOMAIN f
      /\ g \in Fixings(req) /\ DOMAIN g = DOMAIN f \cup {a}
  BY <1>1, Extended
<1> HIDE DEF a, g
<1>3. 1..e \subseteq DOMAIN g
  BY <1>1, <1>2
<1>4. ASSUME f \notin Deep(req, e + 1)
      PROVE  1..(e + 1) \subseteq DOMAIN g
  <2>1. PICK i \in 1..(e + 1) : i \notin DOMAIN f
    BY <1>1, <1>4 DEF Deep
  <2>2. i = e + 1
    BY <1>1, <2>1
  <2>3. a > e
    BY <1>1, <1>2
  <2>4. a <= e + 1
    BY <1>2, <2>1, <2>2
  <2>5. a = e + 1
    BY <1>2, <2>3, <2>4
  <2> QED
    BY <1>1, <1>2, <2>5
<1> QED
  BY <1>2, <1>3, <1>4 DEF Deep, g, a

\* BuildPlan satisfies its equation: there is a function that does, put
\* together from the deepest fixings upwards.
LEMMA PlanUnfolds ==
    ASSUME NEW req, NEW ports, NEW dims,
           Len(Axes(req)) \in Nat, DOMAIN Axes(req) = 1..Len(Axes(req))
    PROVE  \E G : /\ Unfolds(req, ports, dims, G)
                  /\ \A f : BuildPlan(req, ports, f, dims) = G[f]
<1> DEFINE r == Len(Axes(req))
           B(G, f) == Body(req, ports, dims, G, f)
           OK(G, e) == \A f \in Deep(req, e) : G[f] = B(G, f)
           S == {m \in Nat : m <= r => \E G : OK(G, r - m)}
<1>1. 0 \in S
  <2> DEFINE G == [f \in Fixings(req) |-> B(<< >>, f)]
  <2> SUFFICES ASSUME NEW f \in Deep(req, r)
               PROVE  G[f] = B(G, f)
    <3> HIDE DEF G
    <3> QED
      OBVIOUS
  <2>1. AxisToReduce(req, f) = {}
    BY DEF AxisToReduce, Deep
  <2>2. B(<< >>, f) = B(G, f)
    BY <2>1, Congruence
  <2> HIDE DEF B
  <2> QED
    BY <2>2 DEF Deep
<1>2. ASSUME NEW m \in Nat, m \in S
      PROVE  m + 1 \in S
  <2> SUFFICES ASSUME m + 1 <= r
               PROVE  \E G : OK(G, r - (m + 1))
    OBVIOUS
  <2> DEFINE e == r - (m + 1)
  <2>1. e \in Nat /\ e <= r /\ e + 1 = r - m /\ e + 1 <= r /\ m <= r
    OBVIOUS
  <2> HIDE DEF e
  <2>2. PICK G : OK(G, e + 1)
    BY <1>2, <2>1
  <2> DEFINE H == [f \in Fixings(req) |-> IF f \in Deep(req, e + 1) THEN G[f] ELSE B(G, f)]
  <2>3. \A f \in Deep(req, e + 1) : H[f] = G[f]
    BY DEF Deep
  <2>4. ASSUME NEW f \in Deep(req, e)
        PROVE  H[f] = B(H, f)
    <3>1. H[f] = B(G, f)
      <4>1. CASE f \in Deep(req, e + 1)
        BY <2>2, <2>3, <4>1
      <4>2. CASE f \notin Deep(req, e + 1)
        BY <4>2 DEF Deep
      <4> QED
        BY <4>1, <4>2
    <3> HIDE DEF H
    <3>2. ASSUME AxisToReduce(req, f) # {}
          PROVE  Below(req, G, f) = Below(req, H, f)
      <4>1. ASSUME NEW k \in DOMAIN AxisValues(req, FirstFree(req, f))
            PROVE  f @@ (FirstFree(req, f) :> k) \in Deep(req, e + 1)
        <5>1. CASE f \in Deep(req, e + 1)
          BY <2>1, <3>2, <5>1, Deeper
        <5>2. CASE f \notin Deep(req, e + 1)
          BY <2>1, <3>2, <5>2, Deeper
        <5> QED
          BY <5>1, <5>2
      <4> QED
        BY <2>3, <4>1 DEF Below
    <3>3. B(G, f) = B(H, f)
      BY <3>2, Congruence
    <3> HIDE DEF B
    <3> QED
      BY <3>1, <3>3
  <2> HIDE DEF H, B
  <2>5. OK(H, e)
    BY <2>4
  <2> HIDE DEF OK
  <2> QED
    BY <2>5 DEF e
<1>3. PICK G : OK(G, 0)
  <2>1. r \in S
    <3> HIDE DEF S
    <3> QED
      BY <1>1, <1>2, Induction
  <2>2. r <= r /\ r - r = 0
    OBVIOUS
  <2> HIDE DEF OK
  <2> QED
    BY <2>1, <2>2
<1>4. Deep(req, 0) = Fixings(req)
  BY DEF Deep
<1> DEFINE H == [f \in Fixings(req) |-> G[f]]
           P == CHOOSE F : Unfolds(req, ports, dims, F)
<1>5. Unfolds(req, ports, dims, H)
  <2>1. ASSUME NEW f \in Fixings(req)
        PROVE  G[f] = B(H, f)
    <3>1. ASSUME AxisToReduce(req, f) # {}
          PROVE  Below(req, G, f) = Below(req, H, f)
      <4>1. \A k \in DOMAIN AxisValues(req, FirstFree(req, f)) : f @@ (FirstFree(req, f) :> k) \in Fixings(req)
        BY <3>1, Extended
      <4> QED
        BY <4>1 DEF Below
    <3>2. B(G, f) = B(H, f)
      <4> HIDE DEF H
      <4> QED
        BY <3>1, Congruence
    <3> HIDE DEF B, H
    <3> QED
      BY <1>3, <1>4, <3>2
  <2> QED
    BY <2>1 DEF Unfolds
<1>6. Unfolds(req, ports, dims, P)
  <2> HIDE DEF H
  <2> QED
    BY <1>5
<1>7. \A f : BuildPlan(req, ports, f, dims) = P[f]
  BY PlanChosen
<1> HIDE DEF P
<1> QED
  BY <1>6, <1>7

\* Leaves of plans of one length, joined.
LEMMA JoinedBlocks ==
    ASSUME NEW n \in Nat, NEW sub, Len(sub) = n, NEW S, NEW M \in Pos,
           \A k \in 1..n : sub[k].leaves \in Seq(S) /\ Len(sub[k].leaves) = M
    PROVE  /\ Joined(sub) \in Seq(S)
           /\ Blocks(Joined(sub), [k \in 1..n |-> sub[k].leaves], n, M)
<1> DEFINE part == [k \in 1..n |-> sub[k].leaves]
           St(F) == [k \in 0..n |-> IF k = 0 THEN << >> ELSE F[k - 1] \o sub[k].leaves]
           P == CHOOSE F : F = St(F)
<1>1. Joined(sub) = P[n]
  BY DEF Joined
<1>2. part \in [1..n -> Seq(S)] /\ \A k \in 1..n : part[k] = sub[k].leaves
  OBVIOUS
<1> HIDE DEF part
<1>3. PICK G : G \in [0..n -> Seq(S)] /\ Concats(G, part, n)
  BY <1>2, ConcatExists
<1>4. G = St(G)
  <2>1. ASSUME NEW k \in 0..n
        PROVE  G[k] = St(G)[k]
    <3>1. CASE k = 0
      BY <1>3, <3>1 DEF Concats
    <3>2. CASE k # 0
      <4>1. k \in 1..n
        BY <3>2
      <4> QED
        BY <1>2, <1>3, <3>2, <4>1 DEF Concats
    <3> QED
      BY <3>1, <3>2
  <2> QED
    BY <1>3, <2>1
<1>5. P = St(P)
  <2> HIDE DEF St
  <2> QED
    BY <1>4
<1> HIDE DEF P
<1> DEFINE T == {m \in Nat : m <= n => P[m] = G[m]}
<1>6. 0 \in T
  BY <1>3, <1>5 DEF Concats
<1>7. ASSUME NEW m \in Nat, m \in T
      PROVE  m + 1 \in T
  <2> SUFFICES ASSUME m + 1 <= n
               PROVE  P[m + 1] = G[m + 1]
    OBVIOUS
  <2>1. m + 1 \in 0..n /\ m + 1 # 0 /\ (m + 1) - 1 = m /\ m <= n
    OBVIOUS
  <2>2. P[m + 1] = P[m] \o sub[m + 1].leaves
    BY <1>5, <2>1
  <2>3. G[m + 1] = G[m] \o sub[m + 1].leaves
    BY <1>4, <2>1
  <2> QED
    BY <1>7, <2>1, <2>2, <2>3
<1>8. n \in T
  <2> HIDE DEF T
  <2> QED
    BY <1>6, <1>7, Induction
<1>9. Joined(sub) = G[n]
  BY <1>1, <1>8
<1>10. Blocks(G[n], part, n, M)
  BY <1>2, <1>3, Flatten
<1>11. G[n] \in Seq(S)
  BY <1>3
<1> QED
  BY <1>9, <1>10, <1>11 DEF part

-----------------------------------------------------------------------------
(* The leaves of the plan.                                                 *)

\* The axes the plan fixes: the fewest first ones that leave a dimension for
\* which there is a script.
Fixed(req, dims, a, c) ==
    LET r == Len(Axes(req))
    IN  c \in a..r /\ r - c \in dims /\ \A b \in a..(c - 1) : r - b \notin dims

\* The points the l-th leaf below f fixes.
PointsAt(req, f, a, c, l) ==
    [i \in 1..c |->
        IF i <= a THEN f[i]
        ELSE (((l - 1) \div Block(ShapeFromSpace(req), i + 1, c)) % ShapeFromSpace(req)[i]) + 1]

\* The leaves below f, in row-major order.
RowMajor(leaves, req, ports, f, a, c) ==
    /\ leaves \in Seq({PrimitiveInput(req, g, ports) : g \in Fixings(req)})
    /\ Len(leaves) = Block(ShapeFromSpace(req), a + 1, c)
    /\ \A l \in 1..Len(leaves) :
          /\ PointsAt(req, f, a, c, l) \in Fixings(req)
          /\ SettersOK(req, PointsAt(req, f, a, c, l))
          /\ leaves[l] = PrimitiveInput(req, PointsAt(req, f, a, c, l), ports)

\* The number of axes a plan fixes is determined.
LEMMA FixedOnce ==
    ASSUME NEW req, NEW dims, Len(Axes(req)) \in Nat, NEW a \in Nat, NEW c, NEW d,
           Fixed(req, dims, a, c), Fixed(req, dims, a, d)
    PROVE  c = d
<1>1. c \in Nat /\ d \in Nat /\ a <= c /\ a <= d
  BY DEF Fixed
<1>2. ~ (c < d) /\ ~ (d < c)
  BY <1>1 DEF Fixed
<1> QED
  BY <1>1, <1>2

\* Fewer than n blocks come before a position of the first n.
LEMMA QuotientBound ==
    ASSUME NEW x \in Nat, NEW n \in Nat, NEW m \in Pos, x < n * m
    PROVE  x \div m < n
<1> DEFINE q == x \div m
           y == x % m
<1>1. q \in Nat /\ y \in 0..(m - 1) /\ x = m * q + y
  BY Division
<1>2. m \in Nat /\ m > 0
  BY DEF Pos
<1> HIDE DEF q, y
<1>3. ASSUME n <= q
      PROVE  FALSE
  <2>1. m * n <= m * q /\ m * n = n * m /\ m * n \in Nat /\ m * q \in Nat
    BY <1>1, <1>2, <1>3
  <2> QED
    BY <1>1, <1>2, <2>1
<1> QED
  BY <1>1, <1>3 DEF q

\* Row-major plans for the points of one axis, joined, are a row-major plan.
LEMMA RowMajorStep ==
    ASSUME NEW req, NEW ports, Grid(req, ports), NEW a \in Nat, a < Len(Axes(req)),
           NEW c \in (a + 1)..Len(Axes(req)), NEW f \in Fixings(req), DOMAIN f = 1..a,
           NEW sub, Len(sub) = ShapeFromSpace(req)[a + 1],
           \A k \in 1..Len(sub) : RowMajor(sub[k].leaves, req, ports, f @@ ((a + 1) :> k), a + 1, c)
    PROVE  RowMajor(Joined(sub), req, ports, f, a, c)
<1> DEFINE L == ShapeFromSpace(req)
           n == L[a + 1]
           M == Block(L, a + 2, c)
           S == {PrimitiveInput(req, g, ports) : g \in Fixings(req)}
           J == Joined(sub)
           part == [k \in 1..n |-> sub[k].leaves]
           fk(k) == f @@ ((a + 1) :> k)
<1>1. L \in Seq(Pos) /\ Len(L) = Len(Axes(req)) /\ Len(L) \in Nat
  BY Lengths DEF Grid
<1> HIDE DEF L
<1>2. n \in Pos /\ n \in Nat
  <2>1. a + 1 \in 1..Len(L)
    BY <1>1
  <2> QED
    BY <1>1, <2>1 DEF Pos
<1>3. M \in Pos /\ M \in Nat
  <2>1. a + 2 \in 1..(Len(L) + 1) /\ c \in ((a + 2) - 1)..Len(L)
    BY <1>1
  <2>2. M \in Pos
    BY <1>1, <2>1, BlockStep
  <2> QED
    BY <2>2 DEF Pos
<1>4. Block(L, a + 1, c) = n * M
  <2>1. a + 1 \in 1..(Len(L) + 1) /\ a + 1 \in (a + 1)..Len(L) /\ a + 1 \in ((a + 1) - 1)..Len(L)
         /\ c \in (a + 1)..Len(L) /\ (a + 1) + 1 = a + 2 /\ (a + 1) - 1 = a
    BY <1>1
  <2>2. Block(L, a + 1, c) = Block(L, a + 1, a + 1) * Block(L, (a + 1) + 1, c)
    BY <1>1, <2>1, BlockSplit
  <2>3. Block(L, a + 1, a + 1) = Block(L, a + 1, (a + 1) - 1) * L[a + 1] /\ Block(L, a + 1, (a + 1) - 1) = 1
    BY <1>1, <2>1, BlockStep
  <2>4. 1 * n = n
    BY <1>2
  <2> QED
    BY <2>1, <2>2, <2>3, <2>4
<1>5. ASSUME NEW k \in 1..n
      PROVE  /\ sub[k].leaves \in Seq(S) /\ Len(sub[k].leaves) = M
             /\ \A q \in 1..M :
                  /\ PointsAt(req, fk(k), a + 1, c, q) \in Fixings(req)
                  /\ SettersOK(req, PointsAt(req, fk(k), a + 1, c, q))
                  /\ sub[k].leaves[q] = PrimitiveInput(req, PointsAt(req, fk(k), a + 1, c, q), ports)
  <2>1. RowMajor(sub[k].leaves, req, ports, fk(k), a + 1, c)
    BY DEF L
  <2>2. (a + 1) + 1 = a + 2
    OBVIOUS
  <2> HIDE DEF fk
  <2> QED
    BY <2>1, <2>2 DEF RowMajor, L
<1> HIDE DEF n, M, S
<1>6. J \in Seq(S) /\ Blocks(J, part, n, M)
  <2>1. Len(sub) = n
    BY DEF n, L
  <2> QED
    BY <1>2, <1>3, <1>5, <2>1, JoinedBlocks
<1>7. Len(J) = n * M /\ n * M \in Nat
  BY <1>2, <1>3, <1>6 DEF Blocks
<1>8. ASSUME NEW l \in 1..Len(J)
      PROVE  /\ PointsAt(req, f, a, c, l) \in Fixings(req)
             /\ SettersOK(req, PointsAt(req, f, a, c, l))
             /\ J[l] = PrimitiveInput(req, PointsAt(req, f, a, c, l), ports)
  <2> DEFINE x == l - 1
             k == (x \div M) + 1
             q == (x % M) + 1
  <2>1. x \in Nat /\ x < n * M /\ l \in 1..(n * M)
    BY <1>7
  <2> HIDE DEF x
  <2>2. x \div M \in 0..(n - 1) /\ x % M \in 0..(M - 1)
    <3>1. x \div M < n
      BY <1>2, <1>3, <2>1, QuotientBound
    <3>2. x \div M \in Nat /\ x % M \in 0..(M - 1)
      BY <1>2, <1>3, <2>1, Division
    <3>3. n \in Nat
      BY <1>2 DEF Pos
    <3> QED
      BY <3>1, <3>2, <3>3
  <2>3. k \in 1..n /\ q \in 1..M /\ q - 1 = x % M
    BY <1>2, <1>3, <2>2
  <2>4. J[l] = sub[k].leaves[q]
    <3>1. J[l] = part[k][q]
      BY <1>6, <2>1 DEF Blocks, x
    <3> QED
      BY <2>3, <3>1
  <2>5. PointsAt(req, fk(k), a + 1, c, q) = PointsAt(req, f, a, c, l)
    <3> DEFINE W(i) == Block(L, i + 1, c)
    <3>1. /\ PointsAt(req, fk(k), a + 1, c, q) =
               [i \in 1..c |-> IF i <= a + 1 THEN fk(k)[i] ELSE (((q - 1) \div W(i)) % L[i]) + 1]
          /\ PointsAt(req, f, a, c, l) = [i \in 1..c |-> IF i <= a THEN f[i] ELSE ((x \div W(i)) % L[i]) + 1]
      BY DEF PointsAt, L, x
    <3> HIDE DEF k, q, fk, W
    <3>2. ASSUME NEW i \in 1..c, i <= a
          PROVE  fk(k)[i] = f[i]
      <4>1. i \in DOMAIN f
        BY <3>2
      <4> QED
        BY <4>1 DEF fk, @@, :>
    <3>3. ASSUME NEW i \in 1..c, i = a + 1
          PROVE  fk(k)[i] = ((x \div W(i)) % L[i]) + 1
      <4>1. fk(k)[a + 1] = k
        <5>1. a + 1 \notin DOMAIN f
          OBVIOUS
        <5> QED
          BY <5>1 DEF fk, @@, :>
      <4>2. (a + 1) + 1 = a + 2
        OBVIOUS
      <4>3. W(i) = M
        BY <3>3, <4>2 DEF W, M
      <4>4. ((x \div M) % n) = x \div M
        <5> DEFINE y == x \div M
        <5> HIDE DEF y
        <5>1. y \in 0..(n - 1) /\ n * 0 + y = y
          BY <1>2, <2>2 DEF y
        <5>2. (n * 0 + y) % n = y
          BY <1>2, <5>1, Quotient
        <5>3. y % n = y
          BY <5>1, <5>2
        <5> QED
          BY <5>3 DEF y
      <4>5. L[i] = n /\ k = (x \div M) + 1 /\ fk(k)[i] = k
        BY <3>3, <4>1 DEF n, k
      <4> HIDE DEF L, n, M
      <4> QED
        BY <4>3, <4>4, <4>5, Zenon
    <3>4. ASSUME NEW i \in 1..c, i > a + 1
          PROVE  ((q - 1) \div W(i)) % L[i] = (x \div W(i)) % L[i]
      <4> DEFINE u == Block(L, a + 2, i - 1)
                 b == L[i]
                 w == W(i)
      <4>1. /\ a + 2 \in 1..(Len(L) + 1) /\ i + 1 \in 1..(Len(L) + 1)
            /\ i - 1 \in ((a + 2) - 1)..Len(L) /\ i \in (a + 2)..Len(L) /\ i \in ((a + 2) - 1)..Len(L)
            /\ c \in ((i + 1) - 1)..Len(L) /\ c \in i..Len(L) /\ i \in 1..Len(L)
        BY <1>1, <3>4
      <4>2. u \in Pos /\ w \in Pos /\ b \in Pos
        <5>1. u \in Pos
          BY <1>1, <4>1, BlockStep
        <5>2. w \in Pos
          BY <1>1, <4>1, BlockStep DEF W
        <5>3. b \in Pos
          BY <1>1, <4>1
        <5> QED
          BY <5>1, <5>2, <5>3
      <4>3. M = Block(L, a + 2, i) * w
        BY <1>1, <4>1, BlockSplit DEF M, W
      <4>4. Block(L, a + 2, i) = u * b
        BY <1>1, <4>1, BlockStep
      <4> HIDE DEF u, b, w
      <4>5. M = (u * b) * w
        BY <4>3, <4>4
      <4>6. ((x % ((u * b) * w)) \div w) % b = (x \div w) % b
        BY <2>1, <4>2, Digit
      <4> QED
        BY <2>3, <4>5, <4>6 DEF b, w
    <3>5. ASSUME NEW i \in 1..c
          PROVE  (IF i <= a + 1 THEN fk(k)[i] ELSE (((q - 1) \div W(i)) % L[i]) + 1)
                 = (IF i <= a THEN f[i] ELSE ((x \div W(i)) % L[i]) + 1)
      <4>1. i <= a \/ i = a + 1 \/ i > a + 1
        OBVIOUS
      <4>2. CASE i <= a
        BY <3>2, <4>2
      <4>3. CASE i = a + 1
        BY <3>3, <4>3
      <4>4. CASE i > a + 1
        BY <3>4, <4>4
      <4> QED
        BY <4>1, <4>2, <4>3, <4>4
    <3> QED
      BY <3>1, <3>5
  <2> HIDE DEF k, q, fk
  <2> QED
    BY <1>5, <2>3, <2>4, <2>5
<1> HIDE DEF J
<1> QED
  BY <1>4, <1>6, <1>7, <1>8 DEF RowMajor, J, S, L


\* A plan below the fixed axes 1 to a that can be built has, for some number of
\* fixed axes, one leaf for every combination of their points, in row-major
\* order.
PlansRowMajor(req, ports, dims, G, a) ==
    \A f \in Fixings(req) : DOMAIN f = 1..a /\ G[f].ok =>
        \E c : Fixed(req, dims, a, c) /\ RowMajor(G[f].leaves, req, ports, f, a, c)

\* A script that takes the request as it is: the plan is one leaf.
LEMMA LeafRowMajor ==
    ASSUME NEW req, NEW ports, NEW dims, Grid(req, ports), NEW a \in 0..Len(Axes(req)),
           NEW f \in Fixings(req), DOMAIN f = 1..a, SettersOK(req, f), Len(Axes(req)) - a \in dims
    PROVE  Fixed(req, dims, a, a) /\ RowMajor(<<PrimitiveInput(req, f, ports)>>, req, ports, f, a, a)
<1> DEFINE L == ShapeFromSpace(req)
           in == PrimitiveInput(req, f, ports)
           S == {PrimitiveInput(req, g, ports) : g \in Fixings(req)}
<1>1. L \in Seq(Pos) /\ Len(L) = Len(Axes(req)) /\ Len(L) \in Nat /\ a \in Nat
  <2>1. Len(Axes(req)) \in Nat /\ a \in Nat
    BY DEF Grid
  <2> QED
    BY <2>1, Lengths
<1>2. Fixed(req, dims, a, a)
  BY <1>1 DEF Fixed
<1> HIDE DEF L
<1>3. Block(L, a + 1, a) = 1
  <2>1. a + 1 \in 1..(Len(L) + 1) /\ (a + 1) - 1 = a
    BY <1>1
  <2> QED
    BY <1>1, <2>1, BlockStep
<1>4. PointsAt(req, f, a, a, 1) = f
  <2>1. f = [i \in DOMAIN f |-> f[i]]
    BY DEF Fixings
  <2>2. PointsAt(req, f, a, a, 1) = [i \in 1..a |-> f[i]]
    <3>1. \A i \in 1..a : i <= a
      BY <1>1
    <3> QED
      BY <3>1 DEF PointsAt
  <2> QED
    BY <2>1, <2>2
<1>5. <<in>> \in Seq(S) /\ Len(<<in>>) = 1 /\ <<in>>[1] = in
  <2>1. in \in S
    OBVIOUS
  <2> HIDE DEF in, S
  <2> QED
    BY <2>1
<1>6. ASSUME NEW l \in 1..1
      PROVE  l = 1
  OBVIOUS
<1> QED
  BY <1>2, <1>3, <1>4, <1>5, <1>6 DEF RowMajor, L

\* The first free axis is the one after the fixed ones.
LEMMA NextAxis ==
    ASSUME NEW req, Len(Axes(req)) \in Nat, DOMAIN Axes(req) = 1..Len(Axes(req)),
           NEW a \in 0..Len(Axes(req)), NEW f, DOMAIN f = 1..a, AxisToReduce(req, f) # {}
    PROVE  a < Len(Axes(req)) /\ FirstFree(req, f) = a + 1
<1>1. \A i \in AxisToReduce(req, f) : i = a + 1 /\ a < Len(Axes(req))
  BY DEF AxisToReduce
<1>2. FirstFree(req, f) \in AxisToReduce(req, f)
  BY DEF FirstFree
<1> QED
  BY <1>1, <1>2

\* The step from the plans below axis a + 1 to those below axis a.
LEMMA PlansStep ==
    ASSUME NEW req, NEW ports, NEW dims, NEW G, Grid(req, ports), Unfolds(req, ports, dims, G),
           NEW a \in 0..Len(Axes(req)),
           a < Len(Axes(req)) => PlansRowMajor(req, ports, dims, G, a + 1)
    PROVE  PlansRowMajor(req, ports, dims, G, a)
<1> DEFINE r == Len(Axes(req))
<1>1. r \in Nat /\ DOMAIN Axes(req) = 1..r
  BY DEF Grid
<1> SUFFICES ASSUME NEW f \in Fixings(req), DOMAIN f = 1..a, G[f].ok
             PROVE  \E c : Fixed(req, dims, a, c) /\ RowMajor(G[f].leaves, req, ports, f, a, c)
  BY DEF PlansRowMajor
<1>2. G[f] = Body(req, ports, dims, G, f)
  BY DEF Unfolds
<1>3. PrimitiveInput(req, f, ports).choice = r - a
  BY InputOf
<1>4. SettersOK(req, f)
  BY <1>2 DEF Body, NoPlan
<1>5. CASE r - a \in dims
  <2>1. G[f].leaves = <<PrimitiveInput(req, f, ports)>>
    BY <1>2, <1>3, <1>4, <1>5 DEF Body
  <2> QED
    BY <1>4, <1>5, <2>1, LeafRowMajor
<1>6. CASE r - a \notin dims
  <2> DEFINE sub == Below(req, G, f)
  <2>1. /\ AxisToReduce(req, f) # {} /\ \A k \in DOMAIN sub : sub[k].ok
        /\ G[f].leaves = Joined(sub)
    BY <1>2, <1>3, <1>4, <1>6 DEF Body, NoPlan
  <2>2. a < r /\ FirstFree(req, f) = a + 1 /\ a \in Nat /\ a + 1 \in 1..r
    BY <1>1, <2>1, NextAxis
  <2>3. sub = [k \in DOMAIN AxisValues(req, a + 1) |-> G[f @@ ((a + 1) :> k)]]
    BY <2>2 DEF Below
  <2>4. LET n == ShapeFromSpace(req)[a + 1]
        IN  n \in Pos /\ DOMAIN AxisValues(req, a + 1) = 1..n
    BY <1>1, <2>2, Lengths DEF Grid
  <2> DEFINE n == ShapeFromSpace(req)[a + 1]
  <2> HIDE DEF sub, n
  <2>5. sub = [k \in 1..n |-> G[f @@ ((a + 1) :> k)]] /\ n \in Pos /\ n \in Nat
    BY <2>3, <2>4 DEF n, Pos
  <2>6. Len(sub) = n /\ DOMAIN sub = 1..n
    BY <2>5
  <2>7. ASSUME NEW k \in 1..n
        PROVE  \E c : /\ Fixed(req, dims, a + 1, c)
                      /\ RowMajor(sub[k].leaves, req, ports, f @@ ((a + 1) :> k), a + 1, c)
    <3> DEFINE g == f @@ ((a + 1) :> k)
    <3>1. k \in DOMAIN AxisValues(req, FirstFree(req, f))
      BY <2>2, <2>4 DEF n
    <3>2. g \in Fixings(req) /\ DOMAIN g = DOMAIN f \cup {a + 1}
      <4> DEFINE b == FirstFree(req, f)
      <4>1. f @@ (b :> k) \in Fixings(req) /\ DOMAIN (f @@ (b :> k)) = DOMAIN f \cup {b}
        BY <2>1, <3>1, Extended
      <4> QED
        BY <2>2, <4>1
    <3> HIDE DEF g
    <3>3. DOMAIN g = 1..(a + 1)
      BY <2>2, <3>2
    <3>4. sub[k] = G[g] /\ G[g].ok
      BY <2>1, <2>5, <2>6 DEF g
    <3>5. PlansRowMajor(req, ports, dims, G, a + 1)
      BY <2>2
    <3> QED
      BY <3>2, <3>3, <3>4, <3>5 DEF PlansRowMajor, g
  <2>8. PICK c : Fixed(req, dims, a + 1, c)
    <3>1. 1 \in 1..n
      BY <2>5 DEF Pos
    <3> QED
      BY <2>7, <3>1
  <2>9. \A k \in 1..Len(sub) : RowMajor(sub[k].leaves, req, ports, f @@ ((a + 1) :> k), a + 1, c)
    <3> SUFFICES ASSUME NEW k \in 1..n
                 PROVE  RowMajor(sub[k].leaves, req, ports, f @@ ((a + 1) :> k), a + 1, c)
      BY <2>6
    <3>1. PICK d : /\ Fixed(req, dims, a + 1, d)
                   /\ RowMajor(sub[k].leaves, req, ports, f @@ ((a + 1) :> k), a + 1, d)
      BY <2>7
    <3>2. c = d
      <4>1. a + 1 \in Nat
        BY <2>2
      <4> QED
        BY <1>1, <2>8, <3>1, <4>1, FixedOnce
    <3> QED
      BY <3>1, <3>2
  <2>10. c \in (a + 1)..r
    BY <2>8 DEF Fixed
  <2>11. RowMajor(Joined(sub), req, ports, f, a, c)
    BY <2>2, <2>6, <2>9, <2>10, RowMajorStep DEF n
  <2>12. Fixed(req, dims, a, c)
    BY <1>1, <1>6, <2>2, <2>8 DEF Fixed
  <2> QED
    BY <2>1, <2>11, <2>12
<1> QED
  BY <1>5, <1>6

\* buildPlan divides the grid: a plan that can be built has one leaf for every
\* combination of points on the axes it fixes, in row-major order.
THEOREM PlanRowMajor ==
    ASSUME NEW req, NEW ports, NEW dims, Grid(req, ports), BuildPlan(req, ports, << >>, dims).ok
    PROVE  \E c : /\ Fixed(req, dims, 0, c)
                  /\ RowMajor(BuildPlan(req, ports, << >>, dims).leaves, req, ports, << >>, 0, c)
<1> DEFINE r == Len(Axes(req))
<1>1. r \in Nat /\ DOMAIN Axes(req) = 1..r
  BY DEF Grid
<1>2. PICK G : Unfolds(req, ports, dims, G) /\ \A f : BuildPlan(req, ports, f, dims) = G[f]
  BY <1>1, PlanUnfolds
<1> DEFINE S == {m \in Nat : m <= r => PlansRowMajor(req, ports, dims, G, r - m)}
<1>3. 0 \in S
  <2>1. r - 0 = r /\ r \in 0..r /\ ~(r < r)
    BY <1>1
  <2> QED
    BY <1>2, <2>1, PlansStep
<1>4. ASSUME NEW m \in Nat, m \in S
      PROVE  m + 1 \in S
  <2> SUFFICES ASSUME m + 1 <= r
               PROVE  PlansRowMajor(req, ports, dims, G, r - (m + 1))
    OBVIOUS
  <2> DEFINE a == r - (m + 1)
  <2>1. a \in 0..r /\ a + 1 = r - m /\ m <= r
    BY <1>1
  <2>2. PlansRowMajor(req, ports, dims, G, a + 1)
    BY <1>4, <2>1
  <2> HIDE DEF a
  <2>3. PlansRowMajor(req, ports, dims, G, a)
    BY <1>2, <2>1, <2>2, PlansStep
  <2> QED
    BY <2>3 DEF a
<1>5. r \in S
  <2> HIDE DEF S
  <2> QED
    BY <1>1, <1>3, <1>4, Induction
<1>6. PlansRowMajor(req, ports, dims, G, 0)
  <2>1. r - r = 0
    BY <1>1
  <2> QED
    BY <1>1, <1>5, <2>1
<1>7. << >> \in Fixings(req) /\ DOMAIN << >> = 1..0
  <2>1. << >> \in [{} -> UNION {DOMAIN AxisValues(req, i) : i \in {}}]
    OBVIOUS
  <2> QED
    BY <2>1 DEF Fixings
<1> QED
  BY <1>2, <1>6, <1>7 DEF PlansRowMajor


-----------------------------------------------------------------------------
(* The samples of the scripts.                                             *)

\* G holds what the first calls answer of getter t in the u-th script.
Collects(G, calls, in, t, u) ==
    /\ G[0] = << >>
    /\ \A i \in 1..Len(calls) :
         G[i] = IF CallMatches(calls[i], in, t, u) THEN G[i - 1] \o calls[i].samples ELSE G[i - 1]

\* The fold of SamplesOf, given what it computes at every call.
LEMMA SamplesAre ==
    ASSUME NEW calls, NEW in, NEW t, NEW u, NEW n \in Nat, Len(calls) = n,
           NEW G, Collects(G, calls, in, t, u)
    PROVE  SamplesOf(calls, in, t, u) = G[n]
<1> USE DEF Collects
<1> DEFINE M(i) == CallMatches(calls[i], in, t, u)
           St(F) == [i \in 0..n |-> IF i = 0 THEN << >>
                                    ELSE IF M(i) THEN F[i - 1] \o calls[i].samples ELSE F[i - 1]]
           P == CHOOSE F : F = St(F)
           H == [i \in 0..n |-> G[i]]
<1>1. SamplesOf(calls, in, t, u) = P[n]
  BY DEF SamplesOf
<1> HIDE DEF M
<1>2. H = St(H)
  <2>1. ASSUME NEW i \in 0..n
        PROVE  H[i] = St(H)[i]
    <3>1. CASE i = 0
      BY <3>1
    <3>2. CASE i # 0
      <4>1. i - 1 \in 0..n /\ i \in 1..n
        BY <3>2
      <4> QED
        BY <3>2, <4>1 DEF M
    <3> QED
      BY <3>1, <3>2
  <2> QED
    BY <2>1
<1>3. P = St(P)
  <2> HIDE DEF St, H
  <2> QED
    BY <1>2
<1> HIDE DEF P
<1> DEFINE S == {m \in Nat : m <= n => P[m] = G[m]}
<1>4. 0 \in S
  BY <1>3
<1>5. ASSUME NEW m \in Nat, m \in S
      PROVE  m + 1 \in S
  <2>1. CASE m + 1 <= n
    <3>1. P[m + 1] = IF M(m + 1) THEN P[m] \o calls[m + 1].samples ELSE P[m]
      <4>1. P[m + 1] = St(P)[m + 1]
        BY <1>3, Zenon
      <4>2. m + 1 \in 0..n /\ m + 1 # 0 /\ (m + 1) - 1 = m
        BY <2>1
      <4> QED
        BY <4>1, <4>2
    <3>2. m + 1 \in 1..n /\ (m + 1) - 1 = m
      BY <2>1
    <3>3. G[m + 1] = IF M(m + 1) THEN G[m] \o calls[m + 1].samples ELSE G[m]
      BY <3>2 DEF M
    <3>4. P[m] = G[m]
      BY <1>5, <2>1
    <3> QED
      BY <3>1, <3>3, <3>4
  <2>2. CASE ~ (m + 1 <= n)
    BY <2>2
  <2> QED
    BY <2>1, <2>2
<1>6. n \in S
  <2> HIDE DEF S
  <2> QED
    BY <1>4, <1>5, Induction
<1> QED
  BY <1>1, <1>6

\* When no return counts for a getter it has no samples.
LEMMA NoSamples ==
    ASSUME NEW calls, NEW in, NEW t, NEW u, NEW n \in Nat, Len(calls) = n,
           \A i \in 1..n : ~CallMatches(calls[i], in, t, u)
    PROVE  SamplesOf(calls, in, t, u) = << >>
<1> DEFINE G == [i \in 0..n |-> << >>]
<1>1. Collects(G, calls, in, t, u)
  BY DEF Collects
<1>2. G[n] = << >>
  OBVIOUS
<1> HIDE DEF G
<1> QED
  BY <1>1, <1>2, SamplesAre

\* When one return counts for a getter its samples are the samples.
LEMMA OneReturn ==
    ASSUME NEW calls, NEW in, NEW t, NEW u, NEW n \in Nat, Len(calls) = n, NEW q \in 1..n,
           \A i \in 1..n : CallMatches(calls[i], in, t, u) <=> i = q,
           NEW S, calls[q].samples \in Seq(S)
    PROVE  SamplesOf(calls, in, t, u) = calls[q].samples
<1> DEFINE x == calls[q].samples
           G == [i \in 0..n |-> IF i < q THEN << >> ELSE x]
<1>1. << >> \o x = x
  <2>1. x \in Seq(S)
    OBVIOUS
  <2> HIDE DEF x
  <2> QED
    BY <2>1
<1> HIDE DEF x
<1>2. ASSUME NEW i \in 1..n
      PROVE  G[i] = IF CallMatches(calls[i], in, t, u) THEN G[i - 1] \o calls[i].samples ELSE G[i - 1]
  <2>1. i \in 0..n /\ i - 1 \in 0..n
    OBVIOUS
  <2>2. CASE i = q
    <3>1. G[i] = x /\ G[i - 1] = << >>
      BY <2>1, <2>2
    <3> QED
      BY <1>1, <2>2, <3>1 DEF x
  <2>3. CASE i # q
    <3>1. G[i] = G[i - 1]
      BY <2>1, <2>3
    <3> QED
      BY <2>3, <3>1
  <2> QED
    BY <2>2, <2>3
<1>3. G[0] = << >> /\ G[n] = x
  OBVIOUS
<1> HIDE DEF G
<1>4. Collects(G, calls, in, t, u)
  BY <1>2, <1>3 DEF Collects
<1> QED
  BY <1>3, <1>4, SamplesAre DEF x


\* The samples of a script at the positions of its axes, n for each.
LEMMA SamplesList ==
    ASSUME NEW in, NEW t, NEW n \in Pos, NEW Q \in Pos, Product(AxisCounts(in)) = Q
    PROVE  LET x == Samples(in, t, n)
           IN  /\ x \in Seq({Sample(in, t, Position(AxisCounts(in), k)) : k \in Nat})
               /\ Len(x) = Q * n
               /\ \A k \in 1..(Q * n) : x[k] = Sample(in, t, Position(AxisCounts(in), ((k - 1) \div n) + 1))
<1> DEFINE V(k) == Sample(in, t, Position(AxisCounts(in), k))
           x == Samples(in, t, n)
           M == Q * n
<1>1. M \in Nat
  BY DEF Pos
<1> HIDE DEF V
<1>2. x = [k \in 1..M |-> V(((k - 1) \div n) + 1)]
  BY DEF Samples, V
<1> HIDE DEF x, M
<1>3. ASSUME NEW k \in 1..M
      PROVE  ((k - 1) \div n) + 1 \in Nat
  <2>1. k - 1 \in Nat
    BY <1>1
  <2> DEFINE y == k - 1
  <2> HIDE DEF y
  <2>2. y \div n \in Nat
    BY <2>1, Division DEF y
  <2>3. (y \div n) + 1 \in Nat
    BY <2>2
  <2> QED
    BY <2>3 DEF y
<1>4. \A k \in 1..M : V(((k - 1) \div n) + 1) \in {V(i) : i \in Nat}
  BY <1>3
<1>5. x \in Seq({V(i) : i \in Nat}) /\ Len(x) = M
  BY <1>1, <1>2, <1>4
<1>6. \A k \in 1..M : x[k] = V(((k - 1) \div n) + 1)
  BY <1>2
<1> QED
  BY <1>5, <1>6 DEF V, x, M

\* x holds the samples of P scripts with the same axes, one script after the
\* other, each with n samples at its Q positions.
Sampled(x, in, t, n, Q, P, counts) ==
    /\ \A l \in 1..P : AxisCounts(in[l]) = counts
    /\ Product(counts) = Q
    /\ Blocks(x, [l \in 1..P |-> Samples(in[l], t, n)], P, Q * n)

\* The samples of the k-th position overall.
SamplesAt(x, in, t, n, Q, P, counts) ==
    \A k \in 1..(P * Q) : \A j \in 1..n :
        /\ ((k - 1) \div Q) + 1 \in 1..P
        /\ x[((k - 1) * n) + j] =
             Sample(in[((k - 1) \div Q) + 1], t, Position(counts, ((k - 1) % Q) + 1))

\* The sample at a position is one of the script that is there.
LEMMA SampleAt ==
    ASSUME NEW x, NEW in, NEW t, NEW n \in Pos, NEW Q \in Pos, NEW P \in Nat, NEW counts,
           Sampled(x, in, t, n, Q, P, counts)
    PROVE  SamplesAt(x, in, t, n, Q, P, counts)
<1> USE DEF Sampled
<1> SUFFICES ASSUME NEW k \in 1..(P * Q), NEW j \in 1..n
             PROVE  /\ ((k - 1) \div Q) + 1 \in 1..P
                    /\ x[((k - 1) * n) + j] =
                         Sample(in[((k - 1) \div Q) + 1], t, Position(counts, ((k - 1) % Q) + 1))
  BY DEF SamplesAt
<1> DEFINE y == k - 1
           z == n * y + (j - 1)
           M == Q * n
           N == P * Q
           l == (y \div Q) + 1
           part == [i \in 1..P |-> Samples(in[i], t, n)]
<1>1. n \in Nat /\ n > 0 /\ Q \in Nat /\ Q > 0 /\ M \in Pos /\ N \in Nat
  BY DEF Pos
<1>2. y \in Nat /\ y < N /\ j - 1 \in 0..(n - 1) /\ z \in Nat
  BY <1>1
<1> HIDE DEF y
<1>3. z \div n = y /\ z % n = j - 1
  BY <1>2, Quotient
<1> HIDE DEF z
<1>4. z \div M = y \div Q /\ (z % M) \div n = y % Q
  BY <1>2, <1>3, Nested
<1>5. z % M \in 0..(M - 1)
  BY <1>1, <1>2, Division
<1>6. y \div Q \in Nat /\ y \div Q < P
  <2>1. y \div Q < P
    BY <1>2, QuotientBound DEF N
  <2> QED
    BY <1>2, <2>1, Division
<1>7. l \in 1..P
  BY <1>6
<1>8. z + 1 \in 1..(P * M)
  <2>1. y + 1 <= N
    BY <1>1, <1>2
  <2>2. n * (y + 1) <= n * N
    BY <1>1, <1>2, <2>1
  <2>3. n * N = P * M /\ n * (y + 1) = n * y + n /\ n * y \in Nat
    BY <1>1, <1>2
  <2> QED
    BY <1>1, <1>2, <2>2, <2>3 DEF z
<1>9. x[z + 1] = part[l][(z % M) + 1]
  <2>1. (z + 1) - 1 = z
    BY <1>2
  <2>2. x[z + 1] = part[(((z + 1) - 1) \div M) + 1][(((z + 1) - 1) % M) + 1]
    BY <1>8 DEF Blocks
  <2> QED
    BY <1>4, <2>1, <2>2
<1>10. part[l] = Samples(in[l], t, n)
  BY <1>7
<1> HIDE DEF l, part
<1>11. Product(AxisCounts(in[l])) = Q /\ AxisCounts(in[l]) = counts
  BY <1>7
<1>12. (z % M) + 1 \in 1..(Q * n) /\ ((z % M) + 1) - 1 = z % M
  BY <1>1, <1>5 DEF M
<1>13. x[z + 1] = Sample(in[l], t, Position(counts, (y % Q) + 1))
  <2> DEFINE s == (z % M) + 1
             w == in[l]
  <2>1. s \in 1..(Q * n) /\ s - 1 = z % M /\ Product(AxisCounts(w)) = Q
    BY <1>11, <1>12
  <2> HIDE DEF s, w
  <2>2. Samples(w, t, n)[s] = Sample(w, t, Position(AxisCounts(w), ((s - 1) \div n) + 1))
    BY <2>1, SamplesList
  <2> QED
    BY <1>4, <1>9, <1>10, <1>11, <2>1, <2>2 DEF s, w
<1>14. z + 1 = (y * n) + j
  BY <1>1, <1>2 DEF z
<1> QED
  BY <1>7, <1>13, <1>14 DEF y, l

\* All the n samples of a position are alike.
Alike(x, n, N, y) ==
    Len(x) = N * n /\ \A k \in 1..N : \A j \in 1..n : x[((k - 1) * n) + j] = y[k]

\* averageData, when all the samples of a position are alike.
LEMMA Averages ==
    ASSUME NEW x, NEW n \in Pos, NEW N \in Nat, NEW y, Alike(x, n, N, y)
    PROVE  Average(x, n) = [k \in 1..N |-> [data |-> {y[k]}]]
<1> USE DEF Alike
<1>1. n \in Nat /\ n > 0 /\ 1 \in 1..n
  BY DEF Pos
<1>2. Len(x) \div n = N
  <2>1. n * N + 0 = N * n /\ 0 \in 0..(n - 1)
    BY <1>1
  <2>2. (n * N + 0) \div n = N
    BY <2>1, Quotient
  <2> QED
    BY <2>1, <2>2
<1>3. \A k \in 1..N : {x[((k - 1) * n) + j] : j \in 1..n} = {y[k]}
  BY <1>1
<1>4. Average(x, n) = [k \in 1..N |-> [data |-> {x[((k - 1) * n) + j] : j \in 1..n}]]
  BY <1>2 DEF Average
<1> QED
  BY <1>3, <1>4

\* The axes a script sweeps are the last ones.
LEMMA CountsAre ==
    ASSUME NEW L \in Seq(Pos), NEW c \in 0..Len(L)
    PROVE  Product([b \in 1..(Len(L) - c) |-> L[c + b]]) = Block(L, c + 1, Len(L))
<1>1. SubSeq(L, c + 1, Len(L)) = [b \in 1..(Len(L) - c) |-> L[c + b]]
  <2>1. SubSeq(L, c + 1, Len(L)) = [b \in 1..(Len(L) - (c + 1) + 1) |-> L[((c + 1) + b) - 1]]
    BY DEF SubSeq
  <2>2. Len(L) - (c + 1) + 1 = Len(L) - c
    OBVIOUS
  <2>3. \A b \in 1..(Len(L) - c) : ((c + 1) + b) - 1 = c + b
    OBVIOUS
  <2> QED
    BY <2>1, <2>2, <2>3
<1> QED
  BY <1>1 DEF Block

\* All axes together have the positions of the shape.
LEMMA WholeBlock ==
    ASSUME NEW L \in Seq(Pos)
    PROVE  Block(L, 1, Len(L)) = Product(L)
<1>1. SubSeq(L, 1, Len(L)) = L
  OBVIOUS
<1> QED
  BY <1>1 DEF Block


-----------------------------------------------------------------------------
(* The voltages at a position of the grid.                                 *)

\* The step on axis i of the k-th position.
Step(req, k, i) == ((k - 1) \div Block(ShapeFromSpace(req), i + 1, Len(Axes(req)))) % ShapeFromSpace(req)[i]

\* The voltage of a slot at the k-th position when the plan fixes c axes: the
\* coordinate of the unit space on a fixed axis, the domain of the port on a
\* swept one.
GridVoltage(req, c, s, k) ==
    LET d == Labelled(req, s).domain
        up == Space(req).increasing[s[1]][Labelled(req, s).port.gate]
        start == IF up THEN d.lo ELSE d.hi
        stop == IF up THEN d.hi ELSE d.lo
        n == ShapeFromSpace(req)[s[1]]
    IN  IF s[1] <= c THEN AxisValues(req, s[1])[Step(req, k, s[1]) + 1]
        ELSE IF n = 1 THEN start
        ELSE start + (Step(req, k, s[1]) * (stop - start)) \div (n - 1)

\* A fixed axis is at the step of the position.
LEMMA FixedStep ==
    ASSUME NEW req, NEW ports, Grid(req, ports), NEW c \in 0..Len(Axes(req)), NEW i \in 1..c,
           NEW k \in Nat \ {0}
    PROVE  LET Q == Block(ShapeFromSpace(req), c + 1, Len(Axes(req)))
           IN  PointsAt(req, << >>, 0, c, ((k - 1) \div Q) + 1)[i] = Step(req, k, i) + 1
<1> DEFINE L == ShapeFromSpace(req)
           r == Len(Axes(req))
           Q == Block(L, c + 1, r)
           W == Block(L, i + 1, c)
           y == k - 1
           z == y \div Q
<1>1. L \in Seq(Pos) /\ Len(L) = r /\ r \in Nat
  BY Lengths DEF Grid
<1>2. y \in Nat
  OBVIOUS
<1> HIDE DEF y, L, r
<1>3. c \in Nat /\ i \in Nat /\ i >= 1 /\ i <= c /\ c <= r /\ c + 1 \in 1..(Len(L) + 1) /\ i + 1 \in 1..(Len(L) + 1)
      /\ c \in ((i + 1) - 1)..Len(L) /\ r \in c..Len(L) /\ r \in ((c + 1) - 1)..Len(L)
  BY <1>1 DEF r
<1>4. Q \in Pos /\ W \in Pos
  <2>1. Q \in Pos
    BY <1>1, <1>3, BlockStep
  <2>2. W \in Pos
    BY <1>1, <1>3, BlockStep
  <2> QED
    BY <2>1, <2>2
<1>5. Block(L, i + 1, r) = W * Q
  BY <1>1, <1>3, BlockSplit
<1> HIDE DEF Q, W
<1>6. z \div W = y \div (W * Q) /\ z \in Nat
  BY <1>2, <1>4, Nested, Division
<1> HIDE DEF z
<1>7. PointsAt(req, << >>, 0, c, z + 1)[i] = ((z \div W) % L[i]) + 1
  <2>1. ~(i <= 0) /\ (z + 1) - 1 = z
    BY <1>3, <1>6
  <2> QED
    BY <2>1 DEF PointsAt, W, L
<1> QED
  BY <1>5, <1>6, <1>7 DEF Step, z, y, Q, L, r

\* A script is at the step of the position on every axis it sweeps.
LEMMA SweptStep ==
    ASSUME NEW req, NEW ports, Grid(req, ports), NEW c \in 0..Len(Axes(req)),
           Len(Axes(req)) - c \in 0..2, NEW i \in (c + 1)..Len(Axes(req)), NEW k \in Nat \ {0}
    PROVE  LET L == ShapeFromSpace(req)
               Q == Block(L, c + 1, Len(Axes(req)))
               counts == [b \in 1..(Len(Axes(req)) - c) |-> L[c + b]]
           IN  Position(counts, ((k - 1) % Q) + 1)[i - c] = Step(req, k, i)
<1> DEFINE L == ShapeFromSpace(req)
           r == Len(Axes(req))
           Q == Block(L, c + 1, r)
           y == k - 1
           p == y % Q
           counts == [b \in 1..(r - c) |-> L[c + b]]
<1>1. L \in Seq(Pos) /\ Len(L) = r /\ r \in Nat
  BY Lengths DEF Grid
<1>2. y \in Nat
  OBVIOUS
<1>3. c \in Nat /\ i \in Nat /\ c <= r /\ i > c /\ i <= r
  BY <1>1
<1> HIDE DEF y, L, r
<1>4. c + 1 \in 1..(Len(L) + 1) /\ r \in ((c + 1) - 1)..Len(L) /\ r \in (c + 1)..Len(L)
      /\ r + 1 \in 1..(Len(L) + 1) /\ r \in 1..Len(L) /\ r \in r..Len(L) /\ r \in ((r + 1) - 1)..Len(L)
      /\ c \in Nat /\ (r + 1) - 1 = r /\ (c + 1) - 1 = c
  BY <1>1, <1>3
<1>5. Q \in Pos /\ L[r] \in Pos /\ Block(L, r + 1, r) = 1
  <2>1. Q \in Pos
    BY <1>1, <1>4, BlockStep
  <2>2. Block(L, r + 1, (r + 1) - 1) = 1
    BY <1>1, <1>4, BlockStep
  <2>3. L[r] \in Pos
    BY <1>1, <1>4
  <2> QED
    BY <1>4, <2>1, <2>2, <2>3
<1>6. p \in Nat /\ (p + 1) - 1 = p
  <2>1. p \in 0..(Q - 1)
    BY <1>2, <1>5, Division
  <2>2. Q \in Nat
    BY <1>5 DEF Pos
  <2> HIDE DEF p
  <2> QED
    BY <2>1, <2>2
<1>7. y \div 1 = y
  BY <1>2
<1>8. CASE r - c = 1
  <2>1. i = r /\ i - c = 1 /\ Len(counts) = 1
    BY <1>1, <1>3, <1>8
  <2>2. Q = L[r]
    <3>1. Q = Block(L, c + 1, r - 1) * L[r]
      BY <1>1, <1>4, BlockStep
    <3>2. Block(L, c + 1, (c + 1) - 1) = 1
      BY <1>1, <1>4, BlockStep
    <3>3. r - 1 = c
      BY <1>1, <1>4, <1>8
    <3>4. 1 * L[r] = L[r]
      BY <1>5 DEF Pos
    <3> QED
      BY <1>4, <3>1, <3>2, <3>3, <3>4
  <2>3. Position(counts, p + 1) = <<(p + 1) - 1>>
    BY <2>1 DEF Position
  <2>4. Position(counts, p + 1)[1] = p
    BY <1>6, <2>3
  <2>5. Step(req, k, i) = (y \div 1) % L[r]
    BY <1>5, <2>1 DEF Step, L, r, y
  <2> QED
    BY <1>7, <2>1, <2>2, <2>4, <2>5 DEF L, r, y
<1>9. CASE r - c = 2
  <2> DEFINE u == L[c + 1]
             v == L[r]
  <2>1. (i = c + 1 \/ i = r) /\ Len(counts) = 2 /\ r = c + 2 /\ r - 1 = c + 1 /\ r - c = 2 /\ (c + 1) - c = 1
    BY <1>1, <1>3, <1>9
  <2>2. counts[2] = v
    BY <2>1, <1>9
  <2>3. u \in Pos
    BY <1>1, <1>4, <2>1
  <2>4. Q = u * v
    <3>1. Q = Block(L, c + 1, r - 1) * L[r]
      BY <1>1, <1>4, BlockStep
    <3>2. Block(L, c + 1, (c + 1) - 1) = 1
      BY <1>1, <1>4, BlockStep
    <3>3. Block(L, c + 1, c + 1) = Block(L, c + 1, (c + 1) - 1) * L[c + 1]
      <4>1. c + 1 \in (c + 1)..Len(L)
        BY <1>1, <1>4, <2>1
      <4> QED
        BY <1>1, <1>4, <4>1, BlockStep
    <3>4. 1 * u = u
      BY <2>3 DEF Pos
    <3> QED
      BY <2>1, <3>1, <3>2, <3>3, <3>4
  <2>5. Position(counts, p + 1) = <<((p + 1) - 1) \div counts[2], ((p + 1) - 1) % counts[2]>>
    BY <2>1 DEF Position
  <2> HIDE DEF counts
  <2>6. Position(counts, p + 1)[1] = p \div v /\ Position(counts, p + 1)[2] = p % v
    BY <1>6, <2>2, <2>5
  <2>7. Block(L, r, r) = v
    <3>1. Block(L, r, r) = Block(L, r, r - 1) * L[r] /\ Block(L, r, r - 1) = 1
      <4>1. r \in 1..(Len(L) + 1)
        BY <1>1, <1>4
      <4> QED
        BY <1>1, <1>4, <4>1, BlockStep
    <3> QED
      BY <1>5, <3>1 DEF Pos
  <2> HIDE DEF u, v
  <2>8. p \div v = (y \div v) % u /\ p % v = y % v
    BY <1>2, <1>5, <2>3, <2>4, Nested DEF v
  <2> HIDE DEF p
  <2>9. CASE i = c + 1
    <3>1. Step(req, k, i) = (y \div v) % u
      <4>1. (c + 1) + 1 = r
        BY <2>1, <1>4
      <4> QED
        BY <2>7, <2>9, <4>1 DEF Step, L, r, y, u, v
    <3> QED
      BY <2>1, <2>6, <2>8, <2>9, <3>1 DEF L, r, y, p, counts
  <2>10. CASE i = r
    <3>1. Step(req, k, i) = (y \div 1) % v
      BY <1>5, <2>10 DEF Step, L, r, y, v
    <3> QED
      BY <1>7, <2>1, <2>6, <2>8, <2>10, <3>1 DEF L, r, y, p, counts
  <2> QED
    BY <2>1, <2>9, <2>10
<1> QED
  BY <1>1, <1>3, <1>8, <1>9 DEF r


\* A setter of the script that takes the k-th position has the voltage of the
\* position.
LEMMA VoltageAtStep ==
    ASSUME NEW req, NEW ports, Grid(req, ports), NEW c \in 0..Len(Axes(req)),
           Len(Axes(req)) - c \in 0..2, NEW s \in Slots(req), NEW k \in Nat \ {0}
    PROVE  LET L == ShapeFromSpace(req)
               Q == Block(L, c + 1, Len(Axes(req)))
               counts == [b \in 1..(Len(Axes(req)) - c) |-> L[c + b]]
           IN  Voltage(SetterInput(req, s, PointsAt(req, << >>, 0, c, ((k - 1) \div Q) + 1)),
                       Position(counts, ((k - 1) % Q) + 1)) = GridVoltage(req, c, s, k)
<1> DEFINE L == ShapeFromSpace(req)
           r == Len(Axes(req))
           Q == Block(L, c + 1, r)
           counts == [b \in 1..(r - c) |-> L[c + b]]
           f == PointsAt(req, << >>, 0, c, ((k - 1) \div Q) + 1)
           pos == Position(counts, ((k - 1) % Q) + 1)
           setter == SetterInput(req, s, f)
           i == s[1]
           d == Labelled(req, s).domain
           up == Space(req).increasing[s[1]][Labelled(req, s).port.gate]
<1>1. DOMAIN f = 1..c
  BY DEF PointsAt
<1>2. r \in Nat /\ c \in Nat /\ c <= r
  <2>1. r \in Nat
    BY DEF Grid
  <2> QED
    BY <2>1
<1>3. i \in 1..r
  BY Slot DEF Grid
<1>4. CASE i <= c
  <2>1. i \in 1..c
    BY <1>2, <1>3, <1>4
  <2>2. f[i] = Step(req, k, i) + 1
    BY <2>1, FixedStep
  <2>3. ~setter.swept /\ setter.start = AxisValues(req, i)[f[i]]
    BY <1>1, <2>1 DEF SetterInput
  <2>4. Voltage(setter, pos) = setter.start
    BY <2>3 DEF Voltage
  <2> QED
    BY <1>4, <2>2, <2>3, <2>4 DEF GridVoltage
<1>5. CASE i > c
  <2>1. i \in (c + 1)..r /\ i \notin 1..c /\ ~(i <= c)
    BY <1>2, <1>3, <1>5
  <2>2. pos[i - c] = Step(req, k, i)
    BY <2>1, SweptStep
  <2>3. setter.swept /\ setter.axis = i - 1 - c /\ setter.num = L[i]
    BY <1>1, <1>5, InputOf
  <2>4. setter.start = (IF up THEN d.lo ELSE d.hi) /\ setter.stop = (IF up THEN d.hi ELSE d.lo)
    BY <1>1, <2>1 DEF SetterInput, InputFromDomain
  <2>5. setter.axis + 1 = i - c
    BY <1>2, <1>3, <2>3
  <2> HIDE DEF setter, pos
  <2> QED
    BY <2>1, <2>2, <2>3, <2>4, <2>5 DEF Voltage, GridVoltage, setter, pos
<1> QED
  BY <1>2, <1>3, <1>4, <1>5

\* x is a sample of channel t at the k-th position of the grid.
TakenAt(x, req, ports, c, t, k) ==
    /\ x.on = t
    /\ DOMAIN x.volts = {On(req, ports, s) : s \in Slots(req)}
    /\ \A s \in Slots(req) : x.volts[On(req, ports, s)] = GridVoltage(req, c, s, k)

\* x holds what the leaves of a plan take of getter t, n samples at a position,
\* one leaf after the other.
Gathered(x, leaves, req, c, t, n) ==
    Blocks(x, [l \in 1..Len(leaves) |-> Samples(leaves[l], t, n)], Len(leaves),
           Block(ShapeFromSpace(req), c + 1, Len(Axes(req))) * n)

\* After the average over the n samples of a position there is one value for
\* every position of the grid, in row-major order.
AveragesToGrid(x, req, ports, c, t, n) ==
    LET N == Product(ShapeFromSpace(req))
    IN  /\ N \in Pos /\ Len(x) = N * n
        /\ \E y : /\ Average(x, n) = [k \in 1..N |-> [data |-> {y[k]}]]
                  /\ n = 1 => \A k \in 1..N : x[k] = y[k]
                  /\ \A k \in 1..N : TakenAt(y[k], req, ports, c, t, k)

\* The samples of a row-major plan average to the grid of the request: the
\* scripts sweep the last axes, the plan holds the others, and together they
\* are at every position once and in order.
THEOREM Measured ==
    ASSUME NEW req, NEW ports, Grid(req, ports), NEW c \in 0..Len(Axes(req)),
           Len(Axes(req)) - c \in 0..2, NEW leaves, RowMajor(leaves, req, ports, << >>, 0, c),
           NEW t, NEW n \in Pos, NEW x, Gathered(x, leaves, req, c, t, n)
    PROVE  AveragesToGrid(x, req, ports, c, t, n)
<1> DEFINE L == ShapeFromSpace(req)
           r == Len(Axes(req))
           Q == Block(L, c + 1, r)
           P == Len(leaves)
           N == Product(L)
           counts == [b \in 1..(r - c) |-> L[c + b]]
           y == [k \in 1..N |-> Sample(leaves[((k - 1) \div Q) + 1], t, Position(counts, ((k - 1) % Q) + 1))]
           f(l) == PointsAt(req, << >>, 0, c, l)
<1>1. L \in Seq(Pos) /\ Len(L) = r /\ r \in Nat /\ c \in Nat
  <2>1. r \in Nat
    BY DEF Grid
  <2> QED
    BY <2>1, Lengths
<1>2. P = Block(L, 0 + 1, c) /\ \A l \in 1..P : leaves[l] = PrimitiveInput(req, f(l), ports)
  BY DEF RowMajor
<1> HIDE DEF L, P
<1>3. 1 \in 1..(Len(L) + 1) /\ c \in (1 - 1)..Len(L) /\ r \in c..Len(L) /\ c + 1 \in 1..(Len(L) + 1)
      /\ r \in ((c + 1) - 1)..Len(L) /\ c \in 0..Len(L) /\ 0 + 1 = 1
  BY <1>1 DEF r
<1>4. P \in Pos
  BY <1>1, <1>2, <1>3, BlockStep
<1>5. Q \in Pos
  BY <1>1, <1>3, BlockStep
<1>6. N = P * Q
  <2>1. Block(L, 1, r) = Block(L, 1, c) * Block(L, c + 1, r)
    BY <1>1, <1>3, BlockSplit
  <2>2. Block(L, 1, r) = N
    BY <1>1, WholeBlock
  <2> QED
    BY <1>2, <1>3, <2>1, <2>2
<1>7. Product(counts) = Q
  BY <1>1, <1>3, CountsAre
<1>8. \A l \in 1..P : AxisCounts(leaves[l]) = counts
  <2> SUFFICES ASSUME NEW l \in 1..P
               PROVE  AxisCounts(leaves[l]) = counts
    OBVIOUS
  <2>1. DOMAIN f(l) = 1..c
    BY DEF PointsAt
  <2> HIDE DEF f
  <2>2. AxisCounts(PrimitiveInput(req, f(l), ports)) = counts
    BY <2>1, InputOf DEF L
  <2> QED
    BY <1>2, <2>2
<1> HIDE DEF Q, counts
<1>9. Blocks(x, [l \in 1..P |-> Samples(leaves[l], t, n)], P, Q * n)
  BY DEF Gathered, P, Q, L
<1>10. P \in Nat /\ Q \in Nat /\ n \in Nat /\ n > 0 /\ N \in Pos /\ N \in Nat
  BY <1>4, <1>5, <1>6 DEF Pos
<1>11. Len(x) = N * n
  <2>1. Len(x) = P * (Q * n)
    BY <1>9 DEF Blocks
  <2>2. P * (Q * n) = (P * Q) * n
    BY <1>10
  <2> QED
    BY <1>6, <2>1, <2>2
<1>12. ASSUME NEW k \in 1..N
       PROVE  /\ ((k - 1) \div Q) + 1 \in 1..P
              /\ \A j \in 1..n : x[((k - 1) * n) + j] = y[k]
  <2>1. k \in 1..(P * Q)
    BY <1>6
  <2>2. 1 \in 1..n
    BY <1>10
  <2> DEFINE i == ((k - 1) \div Q) + 1
             z == Sample(leaves[i], t, Position(counts, ((k - 1) % Q) + 1))
  <2>3. ASSUME NEW j \in 1..n
        PROVE  i \in 1..P /\ x[((k - 1) * n) + j] = z
    <3>1. Sampled(x, leaves, t, n, Q, P, counts)
      BY <1>7, <1>8, <1>9 DEF Sampled
    <3>2. P \in Nat
      BY <1>10
    <3>3. SamplesAt(x, leaves, t, n, Q, P, counts)
      BY <1>5, <3>1, <3>2, SampleAt
    <3> HIDE DEF N, y
    <3> QED
      BY <2>1, <3>3, Zenon DEF SamplesAt
  <2>4. y[k] = z
    OBVIOUS
  <2> HIDE DEF z, y, i
  <2> QED
    BY <2>2, <2>3, <2>4 DEF i
<1> HIDE DEF N
<1>13. Average(x, n) = [k \in 1..N |-> [data |-> {y[k]}]]
  <2> HIDE DEF y
  <2>1. Alike(x, n, N, y)
    BY <1>11, <1>12 DEF Alike
  <2> QED
    BY <1>10, <2>1, Averages
<1>14. ASSUME n = 1, NEW k \in 1..N
       PROVE  x[k] = y[k]
  <2>1. ((k - 1) * n) + 1 = k /\ 1 \in 1..n
    BY <1>10, <1>14
  <2> QED
    BY <1>12, <2>1
<1>15. ASSUME NEW k \in 1..N
       PROVE  TakenAt(y[k], req, ports, c, t, k)
  <2> DEFINE l == ((k - 1) \div Q) + 1
             in == PrimitiveInput(req, f(l), ports)
             pos == Position(counts, ((k - 1) % Q) + 1)
  <2>1. y[k] = Sample(in, t, pos)
    <3>1. l \in 1..P
      BY <1>12
    <3> HIDE DEF l, pos
    <3> QED
      BY <1>2, <3>1 DEF l, pos
  <2>2. DOMAIN f(l) = 1..c
    BY DEF PointsAt
  <2>3. k \in Nat \ {0}
    BY <1>10
  <2> DEFINE fl == f(l)
  <2> HIDE DEF fl
  <2>4. /\ DOMAIN in.setters = {On(req, ports, s) : s \in Slots(req)}
        /\ \A s \in Slots(req) : in.setters[On(req, ports, s)] = SetterInput(req, s, fl)
    <3>1. in = PrimitiveInput(req, fl, ports) /\ DOMAIN fl = 1..c
      BY <2>2 DEF fl
    <3> HIDE DEF in
    <3> QED
      BY <3>1, InputOf
  <2>5. \A s \in Slots(req) : Voltage(SetterInput(req, s, fl), pos) = GridVoltage(req, c, s, k)
    BY <2>3, VoltageAtStep DEF fl, Q, counts, L
  <2> HIDE DEF in, pos, y
  <2>6. /\ y[k].on = t /\ DOMAIN y[k].volts = DOMAIN in.setters
        /\ \A u \in DOMAIN in.setters : y[k].volts[u] = Voltage(in.setters[u], pos)
    BY <2>1 DEF Sample
  <2>7. \A s \in Slots(req) : On(req, ports, s) \in DOMAIN in.setters
    BY <2>4
  <2> QED
    BY <2>4, <2>5, <2>6, <2>7 DEF TakenAt
<1> HIDE DEF y
<1>16. /\ N \in Pos /\ Len(x) = N * n
       /\ Average(x, n) = [k \in 1..N |-> [data |-> {y[k]}]]
       /\ n = 1 => \A k \in 1..N : x[k] = y[k]
       /\ \A k \in 1..N : TakenAt(y[k], req, ports, c, t, k)
  BY <1>10, <1>11, <1>13, <1>14, <1>15
<1> QED
  BY <1>16, Zenon DEF AveragesToGrid, N, L

=============================================================================
