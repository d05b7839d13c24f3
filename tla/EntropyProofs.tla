---------------------------- MODULE EntropyProofs ---------------------------
(***************************************************************************)
(* Proofs about the entropy pool and the random number generator, for all  *)
(* lengths of blocks and keys and all bounds of Entropy.                   *)
(*                                                                         *)
(* First, what the hash functions compute.  A hasher that has read x       *)
(* (HasRead) has compressed the full blocks of x and keeps the rest in its *)
(* buffer, which is empty only if x is; every turn of blake2s_update keeps *)
(* this, blake2s_finish makes the hash of x from it, and so do the turns   *)
(* of blake2b_hash.                                                        *)
(*                                                                         *)
(* Then the invariant, in four parts: the pool has read the padded last    *)
(* seed and the bytes since (PoolInv); the generator's estimate is the     *)
(* credit at the last seed (CreditInv); each seed is the hash of the bytes *)
(* between two reseeds under the seed before it (SeedsInv); and the states *)
(* the generator has used are all different, each a seed or the lower half *)
(* of the block of the one before it (DrawInv).                            *)
(***************************************************************************)
EXTENDS Entropy, SequenceTheorems, NaturalsInduction, WellFoundedInduction, TLAPS

LEMMA Constants ==
    /\ BlockLen \in Nat /\ BlockLen > 0 /\ KeyLen \in Nat /\ KeyLen > 0 /\ KeyLen <= BlockLen
    /\ Word \in Nat /\ Word > 0 /\ Threshold \in Nat /\ Threshold > 0
    /\ Estimate63 \in Nat /\ Estimate63 > Threshold
    /\ \A n \in MixLens \cup Credits \cup Lens : n \in Nat
    /\ MaxBytes \in Nat /\ MaxDraws \in Nat /\ MaxCredit \in Nat /\ MaxCredit < 2 * Estimate63
BY EntropyConstants

(* Induction, over a set of numbers. *)
LEMMA SetInduction ==
    ASSUME NEW S, 0 \in S, \A n \in Nat : n \in S => n + 1 \in S
    PROVE  \A n \in Nat : n \in S
<1> SUFFICES ASSUME NEW n \in Nat, n \notin S PROVE FALSE
  OBVIOUS
<1> DEFINE T == {k \in Nat : k \notin S}
<1>1. n \in T
  OBVIOUS
<1>2. PICK R : R = OpToRel(<, Nat)
  OBVIOUS
<1>3. IsWellFoundedOn(R, Nat)
  BY <1>2, NatLessThanWellFounded
<1>4. \E x \in T : \A y \in T : ~(<<y, x>> \in R)
  <2>1. T \subseteq Nat
    OBVIOUS
  <2> HIDE DEF T
  <2> QED BY <1>1, <1>3, <2>1, WFMin
<1>5. PICK x \in T : \A y \in T : ~(<<y, x>> \in R)
  BY <1>4
<1>6. x # 0 /\ x - 1 \in Nat /\ x - 1 \in T
  OBVIOUS
<1>7. <<x - 1, x>> \in R
  BY <1>2, <1>6 DEF OpToRel
<1> QED BY <1>5, <1>6, <1>7

(* Quotients. *)
LEMMA DivUnique ==
    ASSUME NEW a \in Nat, NEW b \in Nat, b > 0, NEW q \in Nat, NEW r \in 0..(b - 1),
           a = b * q + r
    PROVE  a \div b = q /\ a % b = r
<1>1. a \div b \in Nat /\ a % b \in 0..(b - 1) /\ a = b * (a \div b) + (a % b)
  OBVIOUS
<1>2. PICK x, y : x = a \div b /\ y = a % b
  OBVIOUS
<1>3. x \in Nat /\ y \in 0..(b - 1) /\ b * q + r = b * x + y
  BY <1>1, <1>2
<1>4. ASSUME NEW u \in Nat, NEW v \in Nat, u < v PROVE b * u + b <= b * v
  <2>1. b * (v - u) >= b
    BY <1>4
  <2>2. b * (v - u) = b * v - b * u
    BY <1>4
  <2> QED BY <2>1, <2>2
<1>5. ~(q < x) /\ ~(x < q)
  BY <1>3, <1>4
<1> QED BY <1>2, <1>3, <1>5

(* The two words of the count add up. *)
LEMMA CountWords ==
    ASSUME NEW a \in Nat, NEW n \in Nat
    PROVE  /\ ((a % Word) + n) % Word = (a + n) % Word
           /\ (a \div Word) + (((a % Word) + n) \div Word) = (a + n) \div Word
<1>1. PICK w : w = Word /\ w \in Nat /\ w > 0
  BY Constants
<1>2. PICK q, r : q = a \div w /\ r = a % w
  OBVIOUS
<1>3. q \in Nat /\ r \in 0..(w - 1) /\ a = w * q + r
  BY <1>1, <1>2
<1>4. PICK p, s : p = (r + n) \div w /\ s = (r + n) % w
  OBVIOUS
<1>5. p \in Nat /\ s \in 0..(w - 1) /\ r + n = w * p + s
  BY <1>1, <1>3, <1>4
<1>6. w * (q + p) = w * q + w * p /\ w * q \in Nat /\ w * p \in Nat /\ q + p \in Nat
  BY <1>1, <1>3, <1>5
<1>7. a + n = w * (q + p) + s /\ a + n \in Nat
  BY <1>1, <1>3, <1>5, <1>6
<1>8. (a + n) \div w = q + p /\ (a + n) % w = s
  BY <1>1, <1>5, <1>6, <1>7, DivUnique
<1> QED BY <1>1, <1>2, <1>4, <1>8

(* Sequences, of whatever elements. *)
IsSeqn(s) == \E S : s \in Seq(S)

LEMMA SeqnFacts ==
    ASSUME NEW s, IsSeqn(s)
    PROVE  Len(s) \in Nat /\ DOMAIN s = 1..Len(s) /\ (s = <<>> <=> Len(s) = 0)
<1>1. PICK S : s \in Seq(S)
  BY DEF IsSeqn
<1> QED BY <1>1

LEMMA NoElements == IsSeqn(<<>>) /\ Len(<<>>) = 0
<1>1. <<>> \in Seq({})
  OBVIOUS
<1> QED BY <1>1 DEF IsSeqn

LEMMA FunctionIsSeqn ==
    ASSUME NEW f, NEW n, n \in Nat, DOMAIN f = 1..n, f = [i \in DOMAIN f |-> f[i]]
    PROVE  IsSeqn(f) /\ Len(f) = n
<1>1. PICK S : S = {f[i] : i \in 1..n}
  OBVIOUS
<1>2. f \in [1..n -> S]
  BY <1>1
<1>3. f \in Seq(S) /\ Len(f) = n
  BY <1>2
<1> QED BY <1>3 DEF IsSeqn

(* Two of them, over one set. *)
LEMMA BothSeqns ==
    ASSUME NEW s, NEW t, IsSeqn(s), IsSeqn(t)
    PROVE  \E S : s \in Seq(S) /\ t \in Seq(S)
<1>1. PICK A : s \in Seq(A)
  BY DEF IsSeqn
<1>2. PICK B : t \in Seq(B)
  BY DEF IsSeqn
<1>3. PICK S : S = A \cup B
  OBVIOUS
<1>4. s \in Seq(S)
  <2>1. Len(s) \in Nat /\ s \in [1..Len(s) -> A]
    BY ONLY <1>1
  <2>2. s \in [1..Len(s) -> S]
    BY ONLY <1>3, <2>1
  <2> QED BY ONLY <2>1, <2>2
<1>5. t \in Seq(S)
  <2>1. Len(t) \in Nat /\ t \in [1..Len(t) -> B]
    BY ONLY <1>2
  <2>2. t \in [1..Len(t) -> S]
    BY ONLY <1>3, <2>1
  <2> QED BY ONLY <2>1, <2>2
<1> QED BY <1>4, <1>5

LEMMA SeqSame ==
    ASSUME NEW s, NEW t, IsSeqn(s), IsSeqn(t), Len(s) = Len(t), \A i \in 1..Len(s) : s[i] = t[i]
    PROVE  s = t
<1>1. PICK S : s \in Seq(S) /\ t \in Seq(S)
  BY BothSeqns
<1> QED BY <1>1, SeqEqual

(* u is what x has behind the first m elements, up to the n-th. *)
Part(u, x, m, n) == IsSeqn(u) /\ Len(u) = n - m /\ \A i \in 1..(n - m) : u[i] = x[m + i]

LEMMA SliceIsPart ==
    ASSUME NEW x, NEW m, NEW n, IsSeqn(x), m \in Nat, n \in Nat, m <= n, n <= Len(x)
    PROVE  Part(SubSeq(x, m + 1, n), x, m, n)
<1>0. PICK S : x \in Seq(S)
  BY DEF IsSeqn
<1>1. Len(x) \in Nat /\ \A i \in 1..Len(x) : x[i] \in S
  BY <1>0
<1>2. \A i \in (m + 1)..n : x[i] \in S
  BY <1>1
<1>3. m + 1 \in Int /\ n \in Int
  OBVIOUS
<1>4. /\ SubSeq(x, m + 1, n) \in Seq(S)
      /\ Len(SubSeq(x, m + 1, n)) = IF m + 1 <= n THEN n - (m + 1) + 1 ELSE 0
      /\ \A i \in 1..(n - (m + 1) + 1) : SubSeq(x, m + 1, n)[i] = x[(m + 1) + i - 1]
  BY <1>0, <1>2, <1>3, SubSeqProperties
<1>5. n - (m + 1) + 1 = n - m /\ (~(m + 1 <= n) => n - m = 0)
  OBVIOUS
<1>6. Len(SubSeq(x, m + 1, n)) = n - m
  BY <1>4, <1>5
<1>7. ASSUME NEW i \in 1..(n - m) PROVE SubSeq(x, m + 1, n)[i] = x[m + i]
  <2>1. (m + 1) + i - 1 = m + i
    OBVIOUS
  <2> QED BY <1>4, <1>5, <2>1
<1>8. IsSeqn(SubSeq(x, m + 1, n))
  BY <1>4 DEF IsSeqn
<1> QED BY <1>6, <1>7, <1>8 DEF Part

(* z is x, of a elements, and y, of b elements. *)
Join(z, x, y, a, b) ==
    /\ IsSeqn(z) /\ Len(z) = a + b /\ a \in Nat /\ b \in Nat
    /\ \A i \in 1..a : z[i] = x[i]
    /\ \A i \in 1..b : z[a + i] = y[i]

LEMMA Joined ==
    ASSUME NEW x, NEW y, IsSeqn(x), IsSeqn(y)
    PROVE  Join(x \o y, x, y, Len(x), Len(y))
<1>1. PICK S : x \in Seq(S) /\ y \in Seq(S)
  BY BothSeqns
<1>2. /\ x \o y \in Seq(S) /\ Len(x \o y) = Len(x) + Len(y)
      /\ Len(x) \in Nat /\ Len(y) \in Nat
      /\ \A i \in 1..Len(x) : (x \o y)[i] = x[i]
      /\ \A i \in 1..Len(y) : (x \o y)[Len(x) + i] = y[i]
  BY ONLY <1>1
<1>3. IsSeqn(x \o y)
  BY ONLY <1>2 DEF IsSeqn
<1> QED BY ONLY <1>2, <1>3 DEF Join

LEMMA Appended ==
    ASSUME NEW s, NEW e, IsSeqn(s)
    PROVE  /\ IsSeqn(Append(s, e)) /\ Len(Append(s, e)) = Len(s) + 1 /\ Len(s) \in Nat
           /\ \A i \in 1..Len(s) : Append(s, e)[i] = s[i]
           /\ Append(s, e)[Len(s) + 1] = e
<1>1. PICK S : s \in Seq(S)
  BY DEF IsSeqn
<1>2. PICK Y : Y = S \cup {e}
  OBVIOUS
<1>3. s \in Seq(Y) /\ e \in Y
  <2>1. Len(s) \in Nat /\ s \in [1..Len(s) -> S]
    BY ONLY <1>1
  <2>2. s \in [1..Len(s) -> Y]
    BY ONLY <1>2, <2>1
  <2> QED BY ONLY <1>2, <2>1, <2>2
<1>4. /\ Append(s, e) \in Seq(Y) /\ Len(Append(s, e)) = Len(s) + 1 /\ Len(s) \in Nat
      /\ \A i \in 1..Len(s) : Append(s, e)[i] = s[i]
      /\ Append(s, e)[Len(s) + 1] = e
  BY ONLY <1>3
<1> QED BY <1>4 DEF IsSeqn

LEMMA PartIsOne ==
    ASSUME NEW u, NEW v, NEW x, NEW m, NEW n, Part(u, x, m, n), Part(v, x, m, n)
    PROVE  u = v
<1>1. PICK k : k = n - m
  OBVIOUS
<1>2. /\ IsSeqn(u) /\ Len(u) = k /\ \A i \in 1..k : u[i] = x[m + i]
      /\ IsSeqn(v) /\ Len(v) = k /\ \A i \in 1..k : v[i] = x[m + i]
  BY <1>1 DEF Part
<1>3. Len(u) = Len(v) /\ \A i \in 1..Len(u) : u[i] = v[i]
  BY ONLY <1>2
<1> QED BY ONLY <1>2, <1>3, SeqSame

(* A part that is a slice. *)
LEMMA PartIsSlice ==
    ASSUME NEW u, NEW x, NEW m, NEW n, IsSeqn(x), m \in Nat, n \in Nat, m <= n, n <= Len(x),
           Part(u, x, m, n)
    PROVE  u = SubSeq(x, m + 1, n)
<1>1. PICK v : v = SubSeq(x, m + 1, n)
  OBVIOUS
<1>2. Part(v, x, m, n)
  BY <1>1, SliceIsPart
<1>3. u = v
  BY ONLY <1>2, Part(u, x, m, n), PartIsOne
<1> QED BY ONLY <1>1, <1>3

(* What was there stays as it was. *)
LEMMA SlicePrefix ==
    ASSUME NEW x, NEW y, NEW m, NEW n, IsSeqn(x), IsSeqn(y), m \in Nat, n \in Nat, m <= n, n <= Len(x)
    PROVE  SubSeq(x \o y, m + 1, n) = SubSeq(x, m + 1, n)
<1>1. PICK z, u : z = x \o y /\ u = SubSeq(x, m + 1, n)
  OBVIOUS
<1>2. PICK p, q : p = Len(x) /\ q = Len(y)
  OBVIOUS
<1>3. /\ IsSeqn(z) /\ Len(z) = p + q /\ p \in Nat /\ q \in Nat /\ \A i \in 1..p : z[i] = x[i]
  <2>1. Join(z, x, y, p, q)
    BY ONLY <1>1, <1>2, IsSeqn(x), IsSeqn(y), Joined
  <2> QED BY ONLY <2>1 DEF Join
<1>4. Part(u, x, m, n)
  BY <1>1, SliceIsPart
<1>5. n <= p /\ n <= Len(z)
  BY <1>2, <1>3
<1>6. \A i \in 1..(n - m) : x[m + i] = z[m + i]
  <2>1. \A i \in 1..(n - m) : m + i \in 1..p
    BY ONLY <1>3, <1>5, m \in Nat, n \in Nat
  <2> QED BY ONLY <1>3, <2>1
<1>7. Part(u, z, m, n)
  BY ONLY <1>4, <1>6 DEF Part
<1>8. u = SubSeq(z, m + 1, n)
  BY ONLY <1>3, <1>5, <1>7, m \in Nat, n \in Nat, m <= n, PartIsSlice
<1> QED BY ONLY <1>1, <1>8

(* The end of the whole is the end of the first part, and the second part. *)
LEMMA SliceSuffix ==
    ASSUME NEW x, NEW y, NEW m, IsSeqn(x), IsSeqn(y), m \in Nat, m <= Len(x)
    PROVE  SubSeq(x \o y, m + 1, Len(x \o y)) = SubSeq(x, m + 1, Len(x)) \o y
<1>1. PICK z, p, q : z = x \o y /\ p = Len(x) /\ q = Len(y)
  OBVIOUS
<1>2. /\ IsSeqn(z) /\ Len(z) = p + q /\ p \in Nat /\ q \in Nat
      /\ \A i \in 1..p : z[i] = x[i]
      /\ \A i \in 1..q : z[p + i] = y[i]
  <2>1. Join(z, x, y, p, q)
    BY ONLY <1>1, IsSeqn(x), IsSeqn(y), Joined
  <2> QED BY ONLY <2>1 DEF Join
<1>3. PICK v, w, N : v = SubSeq(x, m + 1, p) /\ w = v \o y /\ N = p + q
  OBVIOUS
<1>4. Part(v, x, m, p)
  <2>1. m <= p /\ p <= Len(x) /\ p \in Nat
    BY <1>1, <1>2
  <2> QED BY ONLY <1>3, <2>1, m \in Nat, IsSeqn(x), SliceIsPart
<1>5. IsSeqn(v) /\ Len(v) = p - m /\ \A i \in 1..(p - m) : v[i] = x[m + i]
  BY ONLY <1>4 DEF Part
<1>6. PICK r : r = p - m /\ r \in Nat /\ p = m + r
  BY <1>1, <1>2
<1>7. /\ IsSeqn(w) /\ Len(w) = r + q
      /\ \A i \in 1..r : w[i] = v[i]
      /\ \A i \in 1..q : w[r + i] = y[i]
  <2>1. r = Len(v)
    BY ONLY <1>5, <1>6
  <2>2. Join(w, v, y, r, q)
    BY ONLY <1>1, <1>3, <1>5, <2>1, IsSeqn(y), Joined
  <2> QED BY ONLY <2>2 DEF Join
<1>8. ASSUME NEW i \in 1..(r + q) PROVE w[i] = z[m + i]
  <2>1. CASE i <= r
    <3>1. i \in 1..r /\ m + i \in 1..p
      BY <1>2, <1>6, <2>1
    <3> QED BY ONLY <1>2, <1>5, <1>6, <1>7, <3>1
  <2>2. CASE i > r
    <3>1. PICK j : j = i - r /\ j \in 1..q /\ i = r + j
      BY <1>2, <1>6, <2>2
    <3>2. m + i = p + j
      BY <1>2, <1>6, <3>1
    <3> QED BY ONLY <1>2, <1>7, <3>1, <3>2
  <2> QED BY <1>2, <1>6, <2>1, <2>2
<1>9. N - m = r + q /\ N \in Nat /\ m <= N /\ N <= Len(z)
  BY <1>2, <1>3, <1>6
<1>10. Part(w, z, m, N)
  BY ONLY <1>7, <1>8, <1>9 DEF Part
<1>11. w = SubSeq(z, m + 1, N)
  BY ONLY <1>2, <1>9, <1>10, m \in Nat, PartIsSlice
<1> QED BY ONLY <1>1, <1>2, <1>3, <1>11

(* Parts of parts, *)
LEMMA SliceSlice ==
    ASSUME NEW d, NEW m, NEW n, NEW k, IsSeqn(d), m \in Nat, n \in Nat, k \in Nat,
           n <= k, m + k <= Len(d)
    PROVE  SubSeq(SubSeq(d, m + 1, Len(d)), n + 1, k) = SubSeq(d, (m + n) + 1, m + k)
<1>0. PICK L : L = Len(d) /\ L \in Nat
  BY SeqnFacts
<1>1. PICK e, u : e = SubSeq(d, m + 1, L) /\ u = SubSeq(e, n + 1, k)
  OBVIOUS
<1>2. m <= L /\ L <= Len(d)
  BY <1>0
<1>3. Part(e, d, m, L)
  BY ONLY <1>0, <1>1, <1>2, m \in Nat, IsSeqn(d), SliceIsPart
<1>4. IsSeqn(e) /\ Len(e) = L - m /\ \A i \in 1..(L - m) : e[i] = d[m + i]
  BY ONLY <1>3 DEF Part
<1>5. k <= Len(e)
  BY <1>0, <1>4
<1>6. Part(u, e, n, k)
  BY ONLY <1>1, <1>4, <1>5, n \in Nat, k \in Nat, n <= k, SliceIsPart
<1>7. IsSeqn(u) /\ Len(u) = k - n /\ \A i \in 1..(k - n) : u[i] = e[n + i]
  BY ONLY <1>6 DEF Part
<1>8. PICK a, b : a = m + n /\ b = m + k
  OBVIOUS
<1>9. a \in Nat /\ b \in Nat /\ a <= b /\ b <= Len(d) /\ b - a = k - n
  BY <1>8
<1>10. \A i \in 1..(k - n) : u[i] = d[a + i]
  <2>1. \A i \in 1..(k - n) : n + i \in 1..(L - m) /\ m + (n + i) = a + i
    BY <1>0, <1>8
  <2> QED BY ONLY <1>4, <1>7, <2>1
<1>11. Part(u, d, a, b)
  BY ONLY <1>7, <1>9, <1>10 DEF Part
<1>12. u = SubSeq(d, a + 1, b)
  BY ONLY <1>9, <1>11, IsSeqn(d), PartIsSlice
<1> QED BY ONLY <1>0, <1>1, <1>8, <1>12

(* parts that meet, *)
LEMMA SliceJoin ==
    ASSUME NEW d, NEW m, NEW n, IsSeqn(d), m \in Nat, n \in Nat, m <= n, n <= Len(d)
    PROVE  SubSeq(d, 0 + 1, m) \o SubSeq(d, m + 1, n) = SubSeq(d, 0 + 1, n)
<1>1. PICK u, v : u = SubSeq(d, 0 + 1, m) /\ v = SubSeq(d, m + 1, n)
  OBVIOUS
<1>0. Len(d) \in Nat /\ m <= Len(d) /\ 0 <= m /\ 0 \in Nat
  BY SeqnFacts
<1>2. Part(u, d, 0, m) /\ Part(v, d, m, n)
  BY <1>0, <1>1, SliceIsPart
<1>3. /\ IsSeqn(u) /\ Len(u) = m /\ \A i \in 1..m : u[i] = d[i]
      /\ IsSeqn(v) /\ Len(v) = n - m /\ \A i \in 1..(n - m) : v[i] = d[m + i]
  <2>1. m - 0 = m /\ \A i \in 1..m : 0 + i = i
    OBVIOUS
  <2> QED BY ONLY <1>2, <2>1 DEF Part
<1>4. PICK x : x = u \o v
  OBVIOUS
<1>5. /\ IsSeqn(x) /\ Len(x) = Len(u) + Len(v)
      /\ \A i \in 1..Len(u) : x[i] = u[i]
      /\ \A i \in 1..Len(v) : x[Len(u) + i] = v[i]
  <2>1. Join(x, u, v, Len(u), Len(v))
    BY ONLY <1>3, <1>4, Joined
  <2> QED BY ONLY <2>1 DEF Join
<1>6. ASSUME NEW i \in 1..n PROVE x[i] = d[0 + i]
  <2>0. 0 + i = i
    OBVIOUS
  <2>1. CASE i <= m
    <3>1. i \in 1..m
      BY <2>1
    <3> QED BY ONLY <1>3, <1>5, <2>0, <3>1
  <2>2. CASE i > m
    <3>1. PICK j : j = i - m /\ j \in 1..(n - m) /\ i = m + j
      BY <2>2
    <3> QED BY ONLY <1>3, <1>5, <2>0, <3>1
  <2> QED BY <2>1, <2>2
<1>7. n - 0 = n /\ Len(x) = n /\ 0 <= n
  BY <1>3, <1>5
<1>8. Part(x, d, 0, n)
  BY ONLY <1>5, <1>6, <1>7 DEF Part
<1>9. x = SubSeq(d, 0 + 1, n)
  BY ONLY <1>0, <1>7, <1>8, IsSeqn(d), n \in Nat, n <= Len(d), PartIsSlice
<1> QED BY ONLY <1>1, <1>4, <1>9

(* and the whole. *)
LEMMA SliceAll ==
    ASSUME NEW d, IsSeqn(d)
    PROVE  SubSeq(d, 0 + 1, Len(d)) = d /\ SubSeq(d, Len(d) + 1, Len(d)) = <<>>
<1>1. PICK L : L = Len(d) /\ L \in Nat
  BY SeqnFacts
<1>2. Part(d, d, 0, L)
  <2>1. L - 0 = L /\ \A i \in 1..L : 0 + i = i
    BY <1>1
  <2> QED BY ONLY <1>1, <2>1, IsSeqn(d) DEF Part
<1>3. 0 \in Nat /\ 0 <= L /\ L <= Len(d)
  BY <1>1
<1>4. d = SubSeq(d, 0 + 1, L)
  BY ONLY <1>1, <1>2, <1>3, IsSeqn(d), PartIsSlice
<1>5. L <= L /\ L - L = 0
  BY <1>1
<1>6. IsSeqn(SubSeq(d, L + 1, L)) /\ Len(SubSeq(d, L + 1, L)) = 0
  <2>1. Part(SubSeq(d, L + 1, L), d, L, L)
    BY ONLY <1>1, <1>3, <1>5, IsSeqn(d), SliceIsPart
  <2> QED BY ONLY <1>5, <2>1 DEF Part
<1>7. SubSeq(d, L + 1, L) = <<>>
  BY ONLY <1>6, SeqnFacts
<1> QED BY ONLY <1>1, <1>4, <1>7

LEMMA JoinNothing ==
    ASSUME NEW d, IsSeqn(d)
    PROVE  d \o <<>> = d /\ <<>> \o d = d
<1>1. PICK S : d \in Seq(S)
  BY DEF IsSeqn
<1> QED BY <1>1

LEMMA JoinThree ==
    ASSUME NEW x, NEW y, NEW z, IsSeqn(x), IsSeqn(y), IsSeqn(z)
    PROVE  (x \o y) \o z = x \o (y \o z)
<1>1. PICK u, v : u = x \o y /\ v = y \o z
  OBVIOUS
<1>2. PICK a, b, c : a = Len(x) /\ b = Len(y) /\ c = Len(z)
  OBVIOUS
<1>3. /\ IsSeqn(u) /\ Len(u) = a + b /\ a \in Nat /\ b \in Nat
      /\ \A i \in 1..a : u[i] = x[i]
      /\ \A i \in 1..b : u[a + i] = y[i]
  <2>1. Join(u, x, y, a, b)
    BY ONLY <1>1, <1>2, IsSeqn(x), IsSeqn(y), Joined
  <2> QED BY ONLY <2>1 DEF Join
<1>4. /\ IsSeqn(v) /\ Len(v) = b + c /\ c \in Nat
      /\ \A i \in 1..b : v[i] = y[i]
      /\ \A i \in 1..c : v[b + i] = z[i]
  <2>1. Join(v, y, z, b, c)
    BY ONLY <1>1, <1>2, IsSeqn(y), IsSeqn(z), Joined
  <2> QED BY ONLY <2>1 DEF Join
<1>5. PICK s, t : s = u \o z /\ t = x \o v
  OBVIOUS
<1>6. /\ IsSeqn(s) /\ Len(s) = (a + b) + c
      /\ \A i \in 1..(a + b) : s[i] = u[i]
      /\ \A i \in 1..c : s[(a + b) + i] = z[i]
  <2>1. Join(s, u, z, a + b, c)
    BY ONLY <1>2, <1>3, <1>5, IsSeqn(z), Joined
  <2> QED BY ONLY <2>1 DEF Join
<1>7. /\ IsSeqn(t) /\ Len(t) = a + (b + c)
      /\ \A i \in 1..a : t[i] = x[i]
      /\ \A i \in 1..(b + c) : t[a + i] = v[i]
  <2>1. Join(t, x, v, a, b + c)
    BY ONLY <1>2, <1>4, <1>5, IsSeqn(x), Joined
  <2> QED BY ONLY <2>1 DEF Join
<1>8. Len(s) = Len(t)
  BY <1>3, <1>4, <1>6, <1>7
<1>9. ASSUME NEW i \in 1..Len(s) PROVE s[i] = t[i]
  <2>1. CASE i <= a
    <3>1. i \in 1..a /\ i \in 1..(a + b)
      BY <1>3, <1>4, <1>6, <2>1
    <3> QED BY ONLY <1>3, <1>6, <1>7, <3>1
  <2>2. CASE a < i /\ i <= a + b
    <3>1. PICK j : j = i - a /\ j \in 1..b /\ i = a + j
      BY <1>3, <1>4, <1>6, <2>2
    <3>2. i \in 1..(a + b) /\ j \in 1..(b + c)
      BY <1>3, <1>4, <3>1
    <3>3. s[i] = u[i] /\ u[i] = y[j]
      BY ONLY <1>3, <1>6, <3>1, <3>2
    <3>4. t[i] = v[j] /\ v[j] = y[j]
      BY ONLY <1>4, <1>7, <3>1, <3>2
    <3> QED BY ONLY <3>3, <3>4
  <2>3. CASE a + b < i
    <3>1. PICK j : j = i - (a + b) /\ j \in 1..c /\ i = (a + b) + j
      BY <1>3, <1>4, <1>6, <2>3
    <3>2. i = a + (b + j) /\ b + j \in 1..(b + c)
      BY <1>3, <1>4, <3>1
    <3> QED BY ONLY <1>4, <1>6, <1>7, <3>1, <3>2
  <2> QED BY <1>3, <1>6, <2>1, <2>2, <2>3
<1>10. s = t
  BY ONLY <1>6, <1>7, <1>8, <1>9, SeqSame
<1> QED BY ONLY <1>1, <1>5, <1>10

-----------------------------------------------------------------------------
(* The hasher that has compressed k blocks of the input x, and has the     *)
(* rest in its buffer.                                                     *)
FullBlocks(x, k) ==
    [j \in 1..k |-> Compression(SubSeq(x, (j - 1) * BlockLen + 1, j * BlockLen),
                                (j * BlockLen) % Word, (j * BlockLen) \div Word, FALSE)]

Hasher(c, x, k) ==
    [state |-> FullBlocks(x, k), keyed |-> c,
     lo |-> (k * BlockLen) % Word, hi |-> (k * BlockLen) \div Word,
     buffer |-> SubSeq(x, k * BlockLen + 1, Len(x))]

(* Between two turns the buffer is empty only if there was no input.       *)
Buffered(x, k) ==
    k \in Nat /\ k * BlockLen <= Len(x) /\ Len(x) <= k * BlockLen + BlockLen
    /\ (k * BlockLen = Len(x) => k = 0)

(* h has read the input x, after it was set up for a key of c bytes.       *)
HasRead(h, c, x) == IsSeqn(x) /\ \E k : Buffered(x, k) /\ h = Hasher(c, x, k)

LEMMA Multiples ==
    ASSUME NEW k, k \in Nat
    PROVE  /\ k * BlockLen \in Nat /\ (k + 1) * BlockLen = k * BlockLen + BlockLen
           /\ ((k + 1) - 1) * BlockLen = k * BlockLen
           /\ \A j \in 1..k : /\ (j - 1) * BlockLen \in Nat /\ j * BlockLen \in Nat
                              /\ (j - 1) * BlockLen <= j * BlockLen /\ j * BlockLen <= k * BlockLen
                              /\ j * BlockLen = (j - 1) * BlockLen + BlockLen
<1>1. PICK b : b = BlockLen /\ b \in Nat /\ b > 0
  BY Constants
<1>2. k * b \in Nat /\ (k + 1) * b = k * b + b /\ (k + 1) - 1 = k
  BY <1>1
<1>3. ASSUME NEW j \in 1..k
      PROVE  /\ (j - 1) * b \in Nat /\ j * b \in Nat
             /\ (j - 1) * b <= j * b /\ j * b <= k * b /\ j * b = (j - 1) * b + b
  <2>1. j - 1 \in Nat /\ j \in Nat /\ k - j \in Nat
    OBVIOUS
  <2>2. (j - 1) * b \in Nat /\ j * b \in Nat /\ (k - j) * b \in Nat
    BY <1>1, <2>1
  <2>3. j * b = (j - 1) * b + b /\ k * b = j * b + (k - j) * b
    BY <1>1, <2>1
  <2> QED BY <1>1, <1>2, <2>2, <2>3
<1> QED BY <1>1, <1>2, <1>3

LEMMA FullBlocksFacts ==
    ASSUME NEW x, NEW k, k \in Nat
    PROVE  /\ IsSeqn(FullBlocks(x, k)) /\ Len(FullBlocks(x, k)) = k
           /\ \A j \in 1..k : FullBlocks(x, k)[j]
                 = Compression(SubSeq(x, (j - 1) * BlockLen + 1, j * BlockLen),
                               (j * BlockLen) % Word, (j * BlockLen) \div Word, FALSE)
<1>1. PICK f : f = FullBlocks(x, k)
  OBVIOUS
<1>2. DOMAIN f = 1..k /\ f = [i \in DOMAIN f |-> f[i]]
  BY <1>1 DEF FullBlocks
<1>3. IsSeqn(f) /\ Len(f) = k
  BY ONLY <1>2, k \in Nat, FunctionIsSeqn
<1>4. \A j \in 1..k : f[j] = Compression(SubSeq(x, (j - 1) * BlockLen + 1, j * BlockLen),
                               (j * BlockLen) % Word, (j * BlockLen) \div Word, FALSE)
  BY <1>1 DEF FullBlocks
<1> QED BY ONLY <1>1, <1>3, <1>4

(* A full buffer is compressed. *)
LEMMA CompressLemma ==
    ASSUME NEW c, NEW x, NEW k, IsSeqn(x), k \in Nat, Len(x) = (k + 1) * BlockLen
    PROVE  Compress(Hasher(c, x, k)) = Hasher(c, x, k + 1)
<1>1. PICK a, b : a = k * BlockLen /\ b = BlockLen
  OBVIOUS
<1>2. a \in Nat /\ b \in Nat /\ (k + 1) * BlockLen = a + b /\ Len(x) = a + b
      /\ ((k + 1) - 1) * BlockLen = a /\ k + 1 \in Nat
  BY <1>1, Constants, Multiples
<1>3. PICK F, G : F = FullBlocks(x, k) /\ G = FullBlocks(x, k + 1)
  OBVIOUS
<1>4. PICK e : e = Compression(SubSeq(x, a + 1, a + b), (a + b) % Word, (a + b) \div Word, FALSE)
  OBVIOUS
<1>5. G = Append(F, e)
  <2>1. IsSeqn(F) /\ Len(F) = k
    BY ONLY <1>3, k \in Nat, FullBlocksFacts
  <2>2. IsSeqn(G) /\ Len(G) = k + 1
    BY ONLY <1>2, <1>3, FullBlocksFacts
  <2>3. PICK H : H = Append(F, e)
    OBVIOUS
  <2>4. IsSeqn(H) /\ Len(H) = k + 1 /\ (\A i \in 1..k : H[i] = F[i]) /\ H[k + 1] = e
    BY ONLY <2>1, <2>3, Appended
  <2>5. G[k + 1] = e
    <3>1. k + 1 \in 1..(k + 1)
      BY k \in Nat
    <3>2. G[k + 1] = Compression(SubSeq(x, ((k + 1) - 1) * BlockLen + 1, (k + 1) * BlockLen),
             ((k + 1) * BlockLen) % Word, ((k + 1) * BlockLen) \div Word, FALSE)
      BY ONLY <1>3, <3>1, Zenon DEF FullBlocks
    <3> QED BY ONLY <1>2, <1>4, <3>2, Zenon
  <2>6. \A i \in 1..k : G[i] = F[i]
    <3>1. \A i \in 1..k : i \in 1..(k + 1)
      BY k \in Nat
    <3> QED BY ONLY <1>3, <3>1, Zenon DEF FullBlocks
  <2>7. \A i \in 1..(k + 1) : G[i] = H[i]
    <3>1. \A i \in 1..(k + 1) : i \in 1..k \/ i = k + 1
      BY k \in Nat
    <3> QED BY ONLY <2>4, <2>5, <2>6, <3>1
  <2> QED BY ONLY <2>2, <2>3, <2>4, <2>7, SeqSame
<1>6. SubSeq(x, (a + b) + 1, Len(x)) = <<>>
  BY ONLY <1>2, IsSeqn(x), SliceAll
<1>7. /\ ((a % Word) + b) % Word = (a + b) % Word
      /\ (a \div Word) + (((a % Word) + b) \div Word) = (a + b) \div Word
  BY ONLY <1>2, CountWords
<1>8. PICK h : h = Hasher(c, x, k)
  OBVIOUS
<1>9. h = [state |-> F, keyed |-> c, lo |-> a % Word, hi |-> a \div Word,
           buffer |-> SubSeq(x, a + 1, a + b)]
  BY ONLY <1>1, <1>2, <1>3, <1>8 DEF Hasher
<1>10. CountAdd(h, b) = [state |-> F, keyed |-> c, lo |-> (a + b) % Word,
                         hi |-> (a + b) \div Word, buffer |-> SubSeq(x, a + 1, a + b)]
  <2>1. PICK l, u, B : l = a % Word /\ u = a \div Word /\ B = SubSeq(x, a + 1, a + b)
    OBVIOUS
  <2>2. h = [state |-> F, keyed |-> c, lo |-> l, hi |-> u, buffer |-> B]
    BY ONLY <1>9, <2>1
  <2>3. PICK p, q : p = (l + b) % Word /\ q = u + (l + b) \div Word
    OBVIOUS
  <2>4. h.lo = l /\ h.hi = u
    BY ONLY <2>2
  <2>5. CountAdd(h, b) = [h EXCEPT !.lo = p, !.hi = q]
    BY ONLY <2>3, <2>4, Zenon DEF CountAdd
  <2>6. CountAdd(h, b) = [state |-> F, keyed |-> c, lo |-> p, hi |-> q, buffer |-> B]
    BY ONLY <2>2, <2>5
  <2> QED BY ONLY <1>7, <2>1, <2>3, <2>6
<1>11. Compress(h) = [state |-> Append(F, e), keyed |-> c, lo |-> (a + b) % Word,
                      hi |-> (a + b) \div Word, buffer |-> <<>>]
  <2>1. PICK l, u, B : l = (a + b) % Word /\ u = (a + b) \div Word /\ B = SubSeq(x, a + 1, a + b)
    OBVIOUS
  <2>2. PICK g : g = CountAdd(h, b)
    OBVIOUS
  <2>3. g = [state |-> F, keyed |-> c, lo |-> l, hi |-> u, buffer |-> B]
    BY ONLY <1>10, <2>1, <2>2
  <2>4. blake2s_compress(g.state, g.buffer, g.lo, g.hi, FALSE) = Append(F, e)
    <3>1. g.state = F /\ g.buffer = B /\ g.lo = l /\ g.hi = u
      BY ONLY <2>3
    <3> QED BY ONLY <1>4, <2>1, <3>1, Zenon DEF blake2s_compress
  <2>5. PICK A : A = Append(F, e)
    OBVIOUS
  <2>6. Compress(h) = [g EXCEPT !.state = A, !.buffer = <<>>]
    BY ONLY <1>1, <2>2, <2>4, <2>5, Zenon DEF Compress
  <2>7. PICK E : E = <<>>
    OBVIOUS
  <2>8. Compress(h) = [state |-> A, keyed |-> c, lo |-> l, hi |-> u, buffer |-> E]
    BY ONLY <2>3, <2>6, <2>7
  <2> QED BY ONLY <2>1, <2>5, <2>7, <2>8
<1>12. Hasher(c, x, k + 1) = [state |-> G, keyed |-> c, lo |-> (a + b) % Word,
                      hi |-> (a + b) \div Word, buffer |-> SubSeq(x, (a + b) + 1, Len(x))]
  BY ONLY <1>2, <1>3 DEF Hasher
<1> QED BY ONLY <1>5, <1>6, <1>8, <1>11, <1>12

(* More data goes to the buffer. *)
Feed(h, d) == [h EXCEPT !.buffer = @ \o d]

LEMMA FeedLemma ==
    ASSUME NEW c, NEW x, NEW d, NEW k, NEW h, IsSeqn(x), IsSeqn(d), k \in Nat,
           k * BlockLen <= Len(x), h = Hasher(c, x, k)
    PROVE  Feed(h, d) = Hasher(c, x \o d, k)
<1>1. PICK F, G : F = FullBlocks(x, k) /\ G = FullBlocks(x \o d, k)
  OBVIOUS
<1>2. Len(x) \in Nat
  BY SeqnFacts
<1>3. F = G
  <2>1. IsSeqn(F) /\ Len(F) = k /\ IsSeqn(G) /\ Len(G) = k
    BY ONLY <1>1, k \in Nat, FullBlocksFacts
  <2>2. ASSUME NEW j \in 1..k PROVE F[j] = G[j]
    <3>1. PICK m, n : m = (j - 1) * BlockLen /\ n = j * BlockLen
      OBVIOUS
    <3>2. m \in Nat /\ n \in Nat /\ m <= n /\ n <= k * BlockLen /\ k * BlockLen \in Nat
      BY ONLY <3>1, k \in Nat, j \in 1..k, Multiples
    <3>3. n <= Len(x)
      BY ONLY <1>2, <3>2, k * BlockLen <= Len(x)
    <3>4. SubSeq(x \o d, m + 1, n) = SubSeq(x, m + 1, n)
      BY ONLY <3>2, <3>3, IsSeqn(x), IsSeqn(d), SlicePrefix
    <3> QED BY ONLY <1>1, <3>1, <3>4, j \in 1..k DEF FullBlocks
  <2> QED BY ONLY <2>1, <2>2, SeqSame
<1>4. PICK a : a = k * BlockLen /\ a \in Nat
  BY Multiples
<1>5. SubSeq(x \o d, a + 1, Len(x \o d)) = SubSeq(x, a + 1, Len(x)) \o d
  BY ONLY <1>4, k * BlockLen <= Len(x), IsSeqn(x), IsSeqn(d), SliceSuffix
<1>6. Hasher(c, x, k) = [state |-> F, keyed |-> c, lo |-> a % Word, hi |-> a \div Word,
                         buffer |-> SubSeq(x, a + 1, Len(x))]
  BY ONLY <1>1, <1>4 DEF Hasher
<1>7. Hasher(c, x \o d, k) = [state |-> F, keyed |-> c, lo |-> a % Word, hi |-> a \div Word,
                         buffer |-> SubSeq(x, a + 1, Len(x)) \o d]
  BY ONLY <1>1, <1>3, <1>4, <1>5 DEF Hasher
<1>8. PICK l, u, B, E : /\ l = a % Word /\ u = a \div Word /\ B = SubSeq(x, a + 1, Len(x))
                        /\ E = B \o d
  OBVIOUS
<1>10. h = [state |-> F, keyed |-> c, lo |-> l, hi |-> u, buffer |-> B]
  BY ONLY <1>6, <1>8, h = Hasher(c, x, k)
<1>11. Feed(h, d) = [h EXCEPT !.buffer = E]
  BY ONLY <1>8, <1>10 DEF Feed
<1>12. [h EXCEPT !.buffer = E] = [state |-> F, keyed |-> c, lo |-> l, hi |-> u, buffer |-> E]
  BY ONLY <1>10
<1> QED BY ONLY <1>7, <1>8, <1>11, <1>12

LEMMA HasherBuffer ==
    ASSUME NEW c, NEW x, NEW k, IsSeqn(x), k \in Nat, k * BlockLen <= Len(x)
    PROVE  IsSeqn(Hasher(c, x, k).buffer) /\ Len(Hasher(c, x, k).buffer) = Len(x) - k * BlockLen
<1>1. PICK a, L : a = k * BlockLen /\ L = Len(x)
  OBVIOUS
<1>2. a \in Nat /\ L \in Nat /\ a <= L /\ L <= Len(x)
  BY <1>1, Multiples, SeqnFacts
<1>3. PICK b : b = SubSeq(x, a + 1, L)
  OBVIOUS
<1>4. Part(b, x, a, L)
  BY ONLY <1>2, <1>3, IsSeqn(x), SliceIsPart
<1>5. IsSeqn(b) /\ Len(b) = L - a
  BY ONLY <1>4 DEF Part
<1>6. Hasher(c, x, k).buffer = b
  BY ONLY <1>1, <1>3 DEF Hasher
<1> QED BY ONLY <1>1, <1>5, <1>6

(* A turn of blake2s_update reads the first n elements of the data. *)
Reads(h, c, x, d, n) ==
    /\ n \in 1..Len(d)
    /\ HasRead(UpdateTurn(h, d)[1], c, x \o SubSeq(d, 0 + 1, n))
    /\ UpdateTurn(h, d)[2] = SubSeq(d, n + 1, Len(d))

(* The hasher once a full buffer is compressed: it has room again.         *)
LEMMA RoomLemma ==
    ASSUME NEW h, NEW c, NEW x, HasRead(h, c, x)
    PROVE  \E k : /\ k \in Nat /\ k * BlockLen <= Len(x) /\ Len(x) < k * BlockLen + BlockLen
                  /\ (IF Len(h.buffer) = BlockLen THEN Compress(h) ELSE h) = Hasher(c, x, k)
<1>1. PICK k : Buffered(x, k) /\ h = Hasher(c, x, k)
  BY DEF HasRead
<1>2. IsSeqn(x) /\ Len(x) \in Nat
  BY SeqnFacts DEF HasRead
<1>3. /\ k \in Nat /\ k * BlockLen <= Len(x) /\ Len(x) <= k * BlockLen + BlockLen
  BY ONLY <1>1 DEF Buffered
<1>4. BlockLen \in Nat /\ BlockLen > 0 /\ k * BlockLen \in Nat
      /\ (k + 1) * BlockLen = k * BlockLen + BlockLen /\ k + 1 \in Nat
  BY ONLY <1>3, Constants, Multiples
<1>5. Len(h.buffer) = Len(x) - k * BlockLen
  BY ONLY <1>1, <1>2, <1>3, HasherBuffer
<1>8. PICK a, L, B, l : a = k * BlockLen /\ L = Len(x) /\ B = BlockLen /\ l = Len(h.buffer)
  OBVIOUS
<1>9. L \in Nat /\ a \in Nat /\ B \in Nat /\ a <= L /\ L <= a + B /\ l = L - a
  BY ONLY <1>2, <1>3, <1>4, <1>5, <1>8
<1>10. (l = B => L = a + B) /\ (l # B => L < a + B)
  BY ONLY <1>9
<1>6. CASE Len(h.buffer) = BlockLen
  <2>1. Len(x) = (k + 1) * BlockLen
    BY ONLY <1>4, <1>6, <1>8, <1>10
  <2>2. Compress(h) = Hasher(c, x, k + 1)
    BY ONLY <1>1, <1>2, <1>3, <2>1, CompressLemma
  <2>3. (k + 1) * BlockLen <= Len(x) /\ Len(x) < (k + 1) * BlockLen + BlockLen
    BY ONLY <1>2, <1>4, <2>1
  <2> QED BY ONLY <1>4, <1>6, <2>2, <2>3, Zenon
<1>7. CASE Len(h.buffer) # BlockLen
  <2>1. Len(x) < k * BlockLen + BlockLen
    BY ONLY <1>7, <1>8, <1>10
  <2> QED BY ONLY <1>1, <1>3, <1>7, <2>1, Zenon
<1> QED BY <1>6, <1>7

LEMMA TurnLemma ==
    ASSUME NEW h, NEW c, NEW x, NEW d, HasRead(h, c, x), IsSeqn(d), d # <<>>
    PROVE  \E n : Reads(h, c, x, d, n)
<1>1. PICK g : g = IF Len(h.buffer) = BlockLen THEN Compress(h) ELSE h
  OBVIOUS
<1>2. PICK k : /\ k \in Nat /\ k * BlockLen <= Len(x) /\ Len(x) < k * BlockLen + BlockLen
               /\ g = Hasher(c, x, k)
  BY ONLY <1>1, HasRead(h, c, x), RoomLemma
<1>3. IsSeqn(x) /\ Len(x) \in Nat /\ Len(d) \in Nat /\ Len(d) > 0
  <2>1. IsSeqn(x)
    BY DEF HasRead
  <2>2. Len(x) \in Nat /\ Len(d) \in Nat /\ Len(d) # 0
    BY <2>1, SeqnFacts
  <2> QED BY <2>1, <2>2
<1>4. PICK room : room = BlockLen - Len(g.buffer)
  OBVIOUS
<1>5. PICK n : n = IF Len(d) < room THEN Len(d) ELSE room
  OBVIOUS
<1>6. PICK a, b : a = k * BlockLen /\ b = BlockLen
  OBVIOUS
<1>7. a \in Nat /\ b \in Nat /\ b > 0
  BY ONLY <1>2, <1>6, Constants, Multiples
<1>8. Len(g.buffer) = Len(x) - a
  BY ONLY <1>2, <1>3, <1>6, HasherBuffer
<1>9. n \in 1..Len(d) /\ Len(x) + n <= a + b /\ a < Len(x) + n
  BY ONLY <1>2, <1>3, <1>4, <1>5, <1>6, <1>7, <1>8
<1>10. PICK e : e = SubSeq(d, 0 + 1, n)
  OBVIOUS
<1>11. IsSeqn(e) /\ Len(e) = n
  <2>1. 0 \in Nat /\ n \in Nat /\ 0 <= n /\ n <= Len(d) /\ n - 0 = n
    BY ONLY <1>3, <1>9
  <2>2. Part(e, d, 0, n)
    BY ONLY <1>10, <2>1, IsSeqn(d), SliceIsPart
  <2> QED BY ONLY <2>1, <2>2 DEF Part
<1>12. Feed(g, e) = Hasher(c, x \o e, k)
  BY ONLY <1>2, <1>3, <1>11, FeedLemma
<1>13. HasRead(Hasher(c, x \o e, k), c, x \o e)
  <2>1. PICK z : z = x \o e
    OBVIOUS
  <2>2. Join(z, x, e, Len(x), Len(e))
    BY ONLY <1>3, <1>11, <2>1, Joined
  <2>3. IsSeqn(z) /\ Len(z) = Len(x) + n
    BY ONLY <1>11, <2>2 DEF Join
  <2>4. Buffered(z, k)
    BY ONLY <1>2, <1>3, <1>6, <1>7, <1>9, <2>3 DEF Buffered
  <2> QED BY ONLY <2>1, <2>3, <2>4 DEF HasRead
<1>14. UpdateTurn(h, d) = <<Feed(g, e), SubSeq(d, n + 1, Len(d))>>
  <2>1. 0 + 1 = 1
    OBVIOUS
  <2>2. e = SubSeq(d, 1, n)
    BY ONLY <1>10, <2>1
  <2> QED BY ONLY <1>1, <1>4, <1>5, <2>2, Zenon DEF UpdateTurn, Feed
<1>15. UpdateTurn(h, d) = <<Hasher(c, x \o e, k), SubSeq(d, n + 1, Len(d))>>
  BY ONLY <1>12, <1>14
<1>16. Reads(h, c, x, d, n)
  <2>1. PICK u, v : u = Hasher(c, x \o e, k) /\ v = SubSeq(d, n + 1, Len(d))
    OBVIOUS
  <2>3. UpdateTurn(h, d) = <<u, v>>
    BY ONLY <1>15, <2>1
  <2>4. PICK t : t = <<u, v>>
    OBVIOUS
  <2>5. t[1] = u /\ t[2] = v
    BY ONLY <2>4
  <2>2. UpdateTurn(h, d)[1] = u /\ UpdateTurn(h, d)[2] = v
    BY ONLY <2>3, <2>4, <2>5, Zenon
  <2> QED BY ONLY <1>9, <1>10, <1>13, <2>1, <2>2 DEF Reads
<1> QED BY <1>16

(* The loop of blake2s_update, turn by turn. *)
UpdateRun(h, d, g) ==
    /\ g[0] = <<h, d>>
    /\ \A k \in 0..(Len(d) - 1) : g[k + 1] = IF g[k][2] = <<>> THEN g[k]
                                             ELSE UpdateTurn(g[k][1], g[k][2])

LEMMA UpdateLoop ==
    ASSUME NEW h, NEW d, Len(d) \in Nat
    PROVE  \E g : UpdateRun(h, d, g) /\ blake2s_update(h, d) = g[Len(d)][1]
<1> DEFINE a == <<h, d>>
           N == Len(d)
           Step(t) == IF t[2] = <<>> THEN t ELSE UpdateTurn(t[1], t[2])
           Is(f, n) == f = [k \in 0..n |-> IF k = 0 THEN a ELSE Step(f[k - 1])]
           S == {n \in Nat : \E f : Is(f, n)}
<1> HIDE DEF a, Step, N
<1>0. N \in Nat
  BY DEF N
<1>1. 0 \in S
  <2>1. PICK f : f = [i \in 0..0 |-> a]
    OBVIOUS
  <2>2. Is(f, 0)
    BY <2>1
  <2> QED BY <2>2
<1>2. ASSUME NEW n \in Nat, n \in S PROVE n + 1 \in S
  <2>1. PICK f : Is(f, n)
    BY <1>2
  <2>2. PICK g : g = [i \in 0..(n + 1) |-> IF i <= n THEN f[i] ELSE Step(f[n])]
    OBVIOUS
  <2>3. ASSUME NEW i \in 0..(n + 1)
        PROVE  g[i] = IF i = 0 THEN a ELSE Step(g[i - 1])
    <3>1. CASE i = 0
      BY <2>1, <2>2, <3>1
    <3>2. CASE i # 0 /\ i <= n
      <4>1. i \in 0..n /\ i - 1 \in 0..(n + 1) /\ i - 1 <= n
        BY <3>2
      <4>2. f[i] = Step(f[i - 1])
        BY <2>1, <3>2, <4>1
      <4>3. g[i] = f[i] /\ g[i - 1] = f[i - 1]
        BY <2>2, <3>2, <4>1
      <4> QED BY <3>2, <4>2, <4>3
    <3>3. CASE i = n + 1
      <4>1. g[i] = Step(f[n]) /\ g[n] = f[n] /\ i - 1 = n /\ i # 0
        BY <2>2, <3>3
      <4> QED BY <4>1
    <3> QED BY <3>1, <3>2, <3>3
  <2>4. Is(g, n + 1)
    BY <2>2, <2>3
  <2> QED BY <2>4
<1>3. N \in S
  <2> HIDE DEF S
  <2> QED BY <1>0, <1>1, <1>2, SetInduction
<1>4. PICK f : f = CHOOSE x : Is(x, N)
  OBVIOUS
<1>5. Is(f, N)
  BY <1>3, <1>4
<1>6. blake2s_update(h, d) = f[N][1]
  BY <1>4, Zenon DEF blake2s_update, a, Step, N
<1>7. f[0] = a
  BY <1>0, <1>5
<1>8. ASSUME NEW i \in 0..(N - 1) PROVE f[i + 1] = Step(f[i])
  <2>1. i + 1 \in 0..N /\ i + 1 # 0 /\ (i + 1) - 1 = i
    BY <1>0
  <2> QED BY <1>5, <2>1
<1>9. UpdateRun(h, d, f)
  BY <1>7, <1>8 DEF a, Step, N, UpdateRun
<1> QED BY <1>6, <1>9 DEF N

(* After a turn either all data is read, or as many elements as turns. *)
Progress(t, c, x, d, k) ==
    \E m : /\ m \in Nat /\ m <= Len(d) /\ (m = Len(d) \/ k <= m)
           /\ HasRead(t[1], c, x \o SubSeq(d, 0 + 1, m)) /\ t[2] = SubSeq(d, m + 1, Len(d))

LEMMA ProgressStep ==
    ASSUME NEW t, NEW u, NEW c, NEW x, NEW d, NEW k, IsSeqn(x), IsSeqn(d), k \in Nat,
           Progress(t, c, x, d, k),
           u = IF t[2] = <<>> THEN t ELSE UpdateTurn(t[1], t[2])
    PROVE  Progress(u, c, x, d, k + 1)
<1>1. PICK m : /\ m \in Nat /\ m <= Len(d) /\ (m = Len(d) \/ k <= m)
               /\ HasRead(t[1], c, x \o SubSeq(d, 0 + 1, m)) /\ t[2] = SubSeq(d, m + 1, Len(d))
  BY DEF Progress
<1>2. PICK L, e : L = Len(d) /\ e = SubSeq(d, m + 1, L)
  OBVIOUS
<1>3. L \in Nat /\ m <= L /\ L <= Len(d)
  BY <1>1, <1>2, SeqnFacts
<1>4. IsSeqn(e) /\ Len(e) = L - m
  <2>1. Part(e, d, m, L)
    BY ONLY <1>1, <1>2, <1>3, IsSeqn(d), SliceIsPart
  <2> QED BY ONLY <2>1 DEF Part
<1>5. CASE t[2] = <<>>
  <2>1. u = t
    BY <1>5
  <2>2. e = <<>>
    BY ONLY <1>1, <1>2, <1>5
  <2>3. Len(e) = 0
    BY ONLY <2>2, NoElements
  <2>4. m = L
    BY ONLY <1>1, <1>3, <1>4, <2>3
  <2> QED BY ONLY <1>1, <1>2, <2>1, <2>4 DEF Progress
<1>6. CASE t[2] # <<>>
  <2>1. u = UpdateTurn(t[1], t[2])
    BY <1>6
  <2>2. PICK p : p = x \o SubSeq(d, 0 + 1, m)
    OBVIOUS
  <2>3. PICK h : h = t[1] /\ HasRead(h, c, p)
    BY ONLY <1>1, <2>2
  <2>4. e # <<>> /\ u = UpdateTurn(h, e)
    BY ONLY <1>1, <1>2, <1>6, <2>1, <2>3
  <2>5. PICK n : Reads(h, c, p, e, n)
    BY ONLY <1>4, <2>3, <2>4, TurnLemma
  <2>6. /\ n \in 1..Len(e) /\ HasRead(u[1], c, p \o SubSeq(e, 0 + 1, n))
        /\ u[2] = SubSeq(e, n + 1, Len(e))
    BY ONLY <2>4, <2>5 DEF Reads
  <2>7. /\ n \in Nat /\ n >= 1 /\ n <= L - m /\ m + n \in Nat /\ m + n <= L
        /\ (m + n = L \/ k + 1 <= m + n)
    BY ONLY <1>1, <1>2, <1>3, <1>4, <2>6, k \in Nat
  <2>8. SubSeq(e, 0 + 1, n) = SubSeq(d, m + 1, m + n)
    <3>1. 0 \in Nat /\ 0 <= n /\ m + n <= Len(d) /\ m + 0 = m
      BY ONLY <1>1, <1>2, <2>7
    <3>2. SubSeq(SubSeq(d, m + 1, Len(d)), 0 + 1, n) = SubSeq(d, (m + 0) + 1, m + n)
      BY ONLY <1>1, <2>7, <3>1, IsSeqn(d), SliceSlice
    <3> QED BY ONLY <1>2, <3>1, <3>2
  <2>9. u[2] = SubSeq(d, (m + n) + 1, Len(d))
    <3>1. PICK r : r = L - m
      OBVIOUS
    <3>2. r \in Nat /\ n <= r /\ m + r = L /\ m + r <= Len(d)
      BY ONLY <1>1, <1>3, <2>7, <3>1
    <3>3. SubSeq(SubSeq(d, m + 1, Len(d)), n + 1, r) = SubSeq(d, (m + n) + 1, m + r)
      BY ONLY <1>1, <2>7, <3>2, IsSeqn(d), SliceSlice
    <3> QED BY ONLY <1>2, <1>4, <2>6, <3>1, <3>2, <3>3
  <2>10. p \o SubSeq(e, 0 + 1, n) = x \o SubSeq(d, 0 + 1, m + n)
    <3>1. PICK v, w : v = SubSeq(d, 0 + 1, m) /\ w = SubSeq(d, m + 1, m + n)
      OBVIOUS
    <3>2. /\ m <= m + n /\ m + n <= Len(d) /\ m <= Len(d) /\ 0 \in Nat /\ 0 <= m
      BY ONLY <1>1, <1>2, <1>3, <2>7
    <3>3. v \o w = SubSeq(d, 0 + 1, m + n)
      BY ONLY <1>1, <2>7, <3>1, <3>2, IsSeqn(d), SliceJoin
    <3>4. Part(v, d, 0, m) /\ Part(w, d, m, m + n)
      BY ONLY <1>1, <2>7, <3>1, <3>2, IsSeqn(d), SliceIsPart
    <3>5. IsSeqn(v) /\ IsSeqn(w)
      BY ONLY <3>4 DEF Part
    <3>6. (x \o v) \o w = x \o (v \o w)
      BY ONLY <3>5, IsSeqn(x), JoinThree
    <3> QED BY ONLY <2>2, <2>8, <3>1, <3>3, <3>6
  <2>11. PICK q : q = m + n
    OBVIOUS
  <2>12. /\ q \in Nat /\ q <= Len(d) /\ (q = Len(d) \/ k + 1 <= q)
         /\ HasRead(u[1], c, x \o SubSeq(d, 0 + 1, q)) /\ u[2] = SubSeq(d, q + 1, Len(d))
    BY ONLY <1>2, <2>6, <2>7, <2>9, <2>10, <2>11
  <2> QED BY ONLY <2>12 DEF Progress
<1> QED BY <1>5, <1>6

(* blake2s_update reads the data. *)
LEMMA UpdateLemma ==
    ASSUME NEW h, NEW c, NEW x, NEW d, HasRead(h, c, x), IsSeqn(d)
    PROVE  HasRead(blake2s_update(h, d), c, x \o d)
<1>1. IsSeqn(x)
  BY DEF HasRead
<1>2. PICK N : N = Len(d) /\ N \in Nat
  BY SeqnFacts
<1>3. PICK g : UpdateRun(h, d, g) /\ blake2s_update(h, d) = g[N][1]
  BY ONLY <1>2, UpdateLoop
<1>4. /\ g[0] = <<h, d>>
      /\ \A k \in 0..(N - 1) : g[k + 1] = IF g[k][2] = <<>> THEN g[k]
                                          ELSE UpdateTurn(g[k][1], g[k][2])
  BY ONLY <1>2, <1>3 DEF UpdateRun
<1> DEFINE S == {k \in Nat : k <= N => Progress(g[k], c, x, d, k)}
<1>5. 0 \in S
  <2>1. SubSeq(d, 0 + 1, 0) = <<>> /\ SubSeq(d, 0 + 1, Len(d)) = d
    <3>1. 0 \in Nat /\ 0 <= 0 /\ 0 <= Len(d) /\ 0 - 0 = 0
      BY ONLY <1>2
    <3>2. PICK v : v = SubSeq(d, 0 + 1, 0)
      OBVIOUS
    <3>3. Part(v, d, 0, 0)
      BY ONLY <3>1, <3>2, IsSeqn(d), SliceIsPart
    <3>4. IsSeqn(v) /\ Len(v) = 0
      BY ONLY <3>1, <3>3 DEF Part
    <3>5. v = <<>>
      BY ONLY <3>4, SeqnFacts
    <3> QED BY ONLY <3>2, <3>5, IsSeqn(d), SliceAll
  <2>2. x \o <<>> = x
    BY ONLY <1>1, JoinNothing
  <2>3. PICK t : t = g[0] /\ t[1] = h /\ t[2] = d
    <3>1. PICK t : t = <<h, d>>
      OBVIOUS
    <3> QED BY ONLY <1>4, <3>1
  <2>4. 0 \in Nat /\ 0 <= Len(d) /\ 0 <= 0
    BY ONLY <1>2
  <2>5. HasRead(t[1], c, x \o SubSeq(d, 0 + 1, 0)) /\ t[2] = SubSeq(d, 0 + 1, Len(d))
    BY ONLY <2>1, <2>2, <2>3, HasRead(h, c, x)
  <2>6. Progress(t, c, x, d, 0)
    BY ONLY <2>4, <2>5 DEF Progress
  <2> QED BY ONLY <2>3, <2>6
<1>6. ASSUME NEW k \in Nat, k \in S PROVE k + 1 \in S
  <2> SUFFICES ASSUME k + 1 <= N PROVE Progress(g[k + 1], c, x, d, k + 1)
    OBVIOUS
  <2>1. k <= N /\ k \in 0..(N - 1)
    BY <1>2
  <2>2. Progress(g[k], c, x, d, k)
    BY <1>6, <2>1
  <2>3. PICK t, u : t = g[k] /\ u = g[k + 1]
    OBVIOUS
  <2>4. u = IF t[2] = <<>> THEN t ELSE UpdateTurn(t[1], t[2])
    BY ONLY <1>4, <2>1, <2>3, Zenon
  <2>5. Progress(u, c, x, d, k + 1)
    BY ONLY <1>1, <2>2, <2>3, <2>4, IsSeqn(d), k \in Nat, ProgressStep
  <2> QED BY ONLY <2>3, <2>5
<1>7. N \in S
  <2> HIDE DEF S
  <2> QED BY ONLY <1>2, <1>5, <1>6, SetInduction
<1>8. Progress(g[N], c, x, d, N)
  BY <1>2, <1>7
<1>9. PICK m : /\ m \in Nat /\ m <= Len(d) /\ (m = Len(d) \/ N <= m)
               /\ HasRead(g[N][1], c, x \o SubSeq(d, 0 + 1, m))
  BY ONLY <1>8 DEF Progress
<1>10. m = Len(d)
  BY ONLY <1>2, <1>9
<1>11. SubSeq(d, 0 + 1, Len(d)) = d
  BY ONLY IsSeqn(d), SliceAll
<1> QED BY ONLY <1>3, <1>9, <1>10, <1>11

-----------------------------------------------------------------------------
(* Padding. *)
LEMMA PaddedFacts ==
    ASSUME NEW s, IsSeqn(s), Len(s) <= BlockLen
    PROVE  /\ IsSeqn(Padded(s)) /\ Len(Padded(s)) = BlockLen
           /\ \A i \in 1..Len(s) : Padded(s)[i] = s[i]
           /\ Len(s) = BlockLen => Padded(s) = s
<1>1. PICK n, b, z : n = Len(s) /\ b = BlockLen /\ z = Zeros(b - n)
  OBVIOUS
<1>2. n \in Nat /\ b \in Nat /\ b - n \in Nat
  BY <1>1, Constants, SeqnFacts
<1>3. IsSeqn(z) /\ Len(z) = b - n
  <2>1. DOMAIN z = 1..(b - n) /\ z = [i \in DOMAIN z |-> z[i]]
    BY ONLY <1>1 DEF Zeros
  <2> QED BY ONLY <1>2, <2>1, FunctionIsSeqn
<1>4. PICK p : p = s \o z /\ p = Padded(s)
  BY <1>1 DEF Padded
<1>5. Join(p, s, z, n, b - n)
  BY ONLY <1>1, <1>3, <1>4, IsSeqn(s), Joined
<1>6. IsSeqn(p) /\ Len(p) = b /\ \A i \in 1..n : p[i] = s[i]
  BY ONLY <1>2, <1>5 DEF Join
<1>7. n = b => p = s
  <2>1. ASSUME n = b PROVE p = s
    <3>1. Len(z) = 0
      BY ONLY <1>2, <1>3, <2>1
    <3>2. z = <<>>
      BY ONLY <1>3, <3>1, SeqnFacts
    <3> QED BY ONLY <1>4, <3>2, IsSeqn(s), JoinNothing
  <2> QED BY <2>1
<1> QED BY ONLY <1>1, <1>4, <1>6, <1>7

(* The input of a hash, its blocks, and the hash, as in Reference.         *)
KeyBlock(key) == IF key = <<>> THEN <<>> ELSE Padded(key)

Blocks(x) == IF x = <<>> THEN 1 ELSE (Len(x) + BlockLen - 1) \div BlockLen

Upto(x, n, k) == IF k < n THEN k * BlockLen ELSE Len(x)

DigestBlock(x, n, k) ==
    Compression(Padded(SubSeq(x, (k - 1) * BlockLen + 1, Upto(x, n, k))),
                Upto(x, n, k) % Word, Upto(x, n, k) \div Word, k = n)

DigestState(x, n) == [k \in 1..n |-> DigestBlock(x, n, k)]

Digest(c, x) == [keyed |-> c, state |-> DigestState(x, Blocks(x))]

LEMMA ReferenceIsDigest ==
    ASSUME NEW key, NEW data
    PROVE  Reference(key, data) = Digest(Len(key), KeyBlock(key) \o data)
BY Zenon DEF Reference, Digest, DigestState, DigestBlock, Blocks, Upto, KeyBlock

LEMMA BlocksLemma ==
    ASSUME NEW x, NEW k, IsSeqn(x), Buffered(x, k)
    PROVE  Blocks(x) = k + 1
<1>1. PICK L, a, b : L = Len(x) /\ a = k * BlockLen /\ b = BlockLen
  OBVIOUS
<1>2. /\ k \in Nat /\ a <= L /\ L <= a + b /\ (a = L => k = 0)
  BY ONLY <1>1, Buffered(x, k) DEF Buffered
<1>3. L \in Nat /\ a \in Nat /\ b \in Nat /\ b > 0 /\ b * (k + 1) = a + b /\ k + 1 \in Nat
  <2>1. a \in Nat /\ (k + 1) * BlockLen = a + b
    BY ONLY <1>1, <1>2, Multiples
  <2>2. b \in Nat /\ b > 0 /\ L \in Nat
    BY ONLY <1>1, IsSeqn(x), SeqnFacts, Constants
  <2>3. b * (k + 1) = (k + 1) * b /\ k + 1 \in Nat
    BY ONLY <1>2, <2>2
  <2> QED BY ONLY <1>1, <2>1, <2>2, <2>3
<1>4. x = <<>> <=> L = 0
  BY ONLY <1>1, IsSeqn(x), SeqnFacts
<1>5. CASE x = <<>>
  <2>1. a = L
    BY ONLY <1>2, <1>3, <1>4, <1>5
  <2>2. k + 1 = 1
    BY ONLY <1>2, <2>1
  <2> QED BY ONLY <1>5, <2>2 DEF Blocks
<1>6. CASE x # <<>>
  <2>1. a < L
    <3>1. a = L => L = 0
      <4>1. k = 0 => a = 0
        BY ONLY <1>1, <1>3
      <4> QED BY ONLY <1>2, <4>1
    <3> QED BY ONLY <1>2, <1>3, <1>4, <1>6, <3>1
  <2>2. PICK r : r = L - a - 1
    OBVIOUS
  <2>3. r \in 0..(b - 1) /\ L + b - 1 = b * (k + 1) + r /\ L + b - 1 \in Nat
    BY ONLY <1>2, <1>3, <2>1, <2>2
  <2>4. (L + b - 1) \div b = k + 1
    BY ONLY <1>3, <2>3, DivUnique
  <2> QED BY ONLY <1>1, <1>6, <2>4 DEF Blocks
<1> QED BY <1>5, <1>6

(* A hasher that has not compressed any block. *)
LEMMA FreshHasher ==
    ASSUME NEW c
    PROVE  HasRead([state |-> <<>>, keyed |-> c, lo |-> 0, hi |-> 0, buffer |-> <<>>], c, <<>>)
<1>1. IsSeqn(<<>>) /\ Len(<<>>) = 0
  BY NoElements
<1>2. 0 * BlockLen = 0 /\ 0 % Word = 0 /\ 0 \div Word = 0 /\ 0 \in Nat
  BY Constants
<1>3. FullBlocks(<<>>, 0) = <<>>
  BY ONLY <1>2, FullBlocksFacts, SeqnFacts
<1>4. SubSeq(<<>>, 0 + 1, Len(<<>>)) = <<>>
  BY ONLY <1>1, SliceAll
<1>5. PICK E : E = <<>>
  OBVIOUS
<1>6. Hasher(c, E, 0) = [state |-> E, keyed |-> c, lo |-> 0, hi |-> 0, buffer |-> E]
  BY ONLY <1>2, <1>3, <1>4, <1>5 DEF Hasher
<1>7. Buffered(E, 0)
  BY ONLY <1>1, <1>2, <1>5, Constants DEF Buffered
<1>8. HasRead(Hasher(c, E, 0), c, E)
  BY ONLY <1>1, <1>5, <1>7 DEF HasRead
<1> QED BY ONLY <1>5, <1>6, <1>8

LEMMA InitLemma ==
    ASSUME NEW key, IsSeqn(key), Len(key) <= BlockLen
    PROVE  HasRead(blake2s_init(key), Len(key), KeyBlock(key))
<1>1. PICK h : h = [state |-> <<>>, keyed |-> Len(key), lo |-> 0, hi |-> 0, buffer |-> <<>>]
  OBVIOUS
<1>2. HasRead(h, Len(key), <<>>)
  BY ONLY <1>1, FreshHasher
<1>3. CASE key = <<>>
  <2>1. blake2s_init(key) = h
    BY ONLY <1>1, <1>3, Zenon DEF blake2s_init
  <2> QED BY ONLY <1>2, <1>3, <2>1 DEF KeyBlock
<1>4. CASE key # <<>>
  <2>1. PICK p : p = Padded(key) /\ IsSeqn(p)
    BY PaddedFacts
  <2>2. blake2s_init(key) = blake2s_update(h, p)
    BY ONLY <1>1, <1>4, <2>1, Zenon DEF blake2s_init
  <2>3. HasRead(blake2s_update(h, p), Len(key), <<>> \o p)
    BY ONLY <1>2, <2>1, UpdateLemma
  <2>4. <<>> \o p = p /\ p = KeyBlock(key)
    BY ONLY <1>4, <2>1, JoinNothing DEF KeyBlock
  <2> QED BY ONLY <2>2, <2>3, <2>4
<1> QED BY <1>3, <1>4

(* blake2s_finish gives the hash of what was read. *)
LEMMA FinishLemma ==
    ASSUME NEW h, NEW c, NEW x, HasRead(h, c, x)
    PROVE  blake2s_finish(h) = Digest(c, x)
<1>0. IsSeqn(x) /\ Len(x) \in Nat
  BY SeqnFacts DEF HasRead
<1>1. PICK k : Buffered(x, k) /\ h = Hasher(c, x, k)
  BY DEF HasRead
<1>2. PICK L, a, F, B : /\ L = Len(x) /\ a = k * BlockLen /\ F = FullBlocks(x, k)
                        /\ B = SubSeq(x, a + 1, L)
  OBVIOUS
<1>3. k \in Nat /\ a \in Nat /\ L \in Nat /\ a <= L /\ L <= a + BlockLen
  <2>1. k \in Nat /\ a <= L /\ L <= a + BlockLen
    BY ONLY <1>1, <1>2 DEF Buffered
  <2> QED BY ONLY <1>0, <1>2, <2>1, Multiples
<1>4. h = [state |-> F, keyed |-> c, lo |-> a % Word, hi |-> a \div Word, buffer |-> B]
  BY ONLY <1>1, <1>2 DEF Hasher
<1>5. PICK l : l = Len(B) /\ l \in Nat /\ a + l = L
  <2>1. L <= Len(x)
    BY ONLY <1>2, <1>3
  <2>2. Part(B, x, a, L)
    BY ONLY <1>0, <1>2, <1>3, <2>1, SliceIsPart
  <2>3. Len(B) = L - a
    BY ONLY <2>2 DEF Part
  <2> QED BY ONLY <1>3, <2>3
<1>6. /\ ((a % Word) + l) % Word = L % Word
      /\ (a \div Word) + (((a % Word) + l) \div Word) = L \div Word
  BY ONLY <1>3, <1>5, CountWords
<1>7. PICK e : e = Compression(Padded(B), L % Word, L \div Word, TRUE)
  OBVIOUS
<1>8. blake2s_finish(h) = [keyed |-> c, state |-> Append(F, e)]
  <2>1. PICK u, v : u = a % Word /\ v = a \div Word
    OBVIOUS
  <2>2. PICK p, q : p = (u + l) % Word /\ q = v + (u + l) \div Word
    OBVIOUS
  <2>3. h = [state |-> F, keyed |-> c, lo |-> u, hi |-> v, buffer |-> B]
    BY ONLY <1>4, <2>1
  <2>4. h.lo = u /\ h.hi = v /\ h.buffer = B /\ h.keyed = c
    BY ONLY <2>3
  <2>5. PICK g : g = CountAdd(h, l)
    OBVIOUS
  <2>6. g = [h EXCEPT !.lo = p, !.hi = q]
    BY ONLY <2>2, <2>4, <2>5, Zenon DEF CountAdd
  <2>7. g.state = F /\ g.lo = p /\ g.hi = q
    BY ONLY <2>3, <2>6
  <2>8. p = L % Word /\ q = L \div Word
    BY ONLY <1>6, <2>1, <2>2
  <2> QED BY ONLY <1>5, <1>7, <2>4, <2>5, <2>7, <2>8, Zenon DEF blake2s_finish, blake2s_compress
<1>9. Blocks(x) = k + 1
  BY ONLY <1>0, <1>1, BlocksLemma
<1>10. Append(F, e) = DigestState(x, k + 1)
  <2>1. PICK D, G, n : D = DigestState(x, n) /\ n = k + 1 /\ G = Append(F, e)
    OBVIOUS
  <2>2. n \in Nat /\ k = n - 1 /\ n - 1 = k
    BY ONLY <1>3, <2>1
  <2>3. IsSeqn(D) /\ Len(D) = n
    <3>1. DOMAIN D = 1..n /\ D = [i \in DOMAIN D |-> D[i]]
      BY ONLY <2>1 DEF DigestState
    <3> QED BY ONLY <2>2, <3>1, FunctionIsSeqn
  <2>4. /\ IsSeqn(F) /\ Len(F) = k
        /\ \A j \in 1..k : F[j]
                 = Compression(SubSeq(x, (j - 1) * BlockLen + 1, j * BlockLen),
                               (j * BlockLen) % Word, (j * BlockLen) \div Word, FALSE)
    BY ONLY <1>2, <1>3, FullBlocksFacts
  <2>5. IsSeqn(G) /\ Len(G) = k + 1 /\ (\A i \in 1..k : G[i] = F[i]) /\ G[k + 1] = e
    BY ONLY <2>1, <2>4, Appended
  <2>6. ASSUME NEW i \in 1..n PROVE G[i] = D[i]
    <3>1. D[i] = DigestBlock(x, n, i)
      BY ONLY <2>1, i \in 1..n DEF DigestState
    <3>2. CASE i = n
      <4>1. Upto(x, n, i) = L
        <5>1. ~(i < n)
          BY ONLY <2>2, <3>2
        <5> QED BY ONLY <1>2, <5>1 DEF Upto
      <4>2. (i - 1) * BlockLen = a
        BY ONLY <1>2, <2>2, <3>2
      <4>3. DigestBlock(x, n, i) = Compression(Padded(B), L % Word, L \div Word, i = n)
        BY ONLY <1>2, <4>1, <4>2, Zenon DEF DigestBlock
      <4>4. (i = n) = TRUE
        BY ONLY <3>2
      <4> QED BY ONLY <1>7, <2>1, <2>5, <3>1, <3>2, <4>3, <4>4
    <3>3. CASE i # n
      <4>1. i \in 1..k /\ i < n
        BY ONLY <2>2, <3>3, i \in 1..n
      <4>2. PICK m, j, s : m = (i - 1) * BlockLen /\ j = i * BlockLen /\ s = SubSeq(x, m + 1, j)
        OBVIOUS
      <4>3. Upto(x, n, i) = j
        BY ONLY <4>1, <4>2 DEF Upto
      <4>4. m \in Nat /\ j \in Nat /\ m <= j /\ j <= a /\ j = m + BlockLen
        BY ONLY <1>2, <1>3, <4>1, <4>2, Multiples
      <4>5. IsSeqn(s) /\ Len(s) = j - m
        <5>1. j <= Len(x)
          BY ONLY <1>2, <1>3, <4>4
        <5>2. Part(s, x, m, j)
          BY ONLY <1>0, <4>2, <4>4, <5>1, SliceIsPart
        <5> QED BY ONLY <5>2 DEF Part
      <4>6. Padded(s) = s
        <5>1. Len(s) = BlockLen /\ Len(s) <= BlockLen
          BY ONLY <4>4, <4>5, Constants
        <5> QED BY ONLY <4>5, <5>1, PaddedFacts
      <4>7. (i = n) = FALSE
        BY ONLY <3>3
      <4>8. DigestBlock(x, n, i) = Compression(Padded(s), j % Word, j \div Word, i = n)
        BY ONLY <4>2, <4>3, Zenon DEF DigestBlock
      <4>9. F[i] = Compression(s, j % Word, j \div Word, FALSE)
        BY ONLY <2>4, <4>1, <4>2
      <4> QED BY ONLY <2>5, <3>1, <4>1, <4>6, <4>7, <4>8, <4>9
    <3> QED BY <3>2, <3>3
  <2>7. Len(G) = Len(D) /\ \A i \in 1..Len(G) : G[i] = D[i]
    BY ONLY <2>1, <2>3, <2>5, <2>6
  <2>8. G = D
    BY ONLY <2>3, <2>5, <2>7, SeqSame
  <2> QED BY ONLY <2>1, <2>8
<1> QED BY ONLY <1>8, <1>9, <1>10 DEF Digest

(* blake2s_hash is BLAKE2s. *)
LEMMA BlakeSLemma ==
    ASSUME NEW key, NEW data, IsSeqn(key), IsSeqn(data), Len(key) <= BlockLen
    PROVE  blake2s_hash(key, data) = Reference(key, data)
<1>1. HasRead(blake2s_init(key), Len(key), KeyBlock(key))
  BY InitLemma
<1>2. HasRead(blake2s_update(blake2s_init(key), data), Len(key), KeyBlock(key) \o data)
  BY ONLY <1>1, IsSeqn(data), UpdateLemma
<1>3. blake2s_hash(key, data) = Digest(Len(key), KeyBlock(key) \o data)
  BY ONLY <1>2, FinishLemma DEF blake2s_hash
<1> QED BY ONLY <1>3, ReferenceIsDigest

-----------------------------------------------------------------------------
(* blake2b_hash, turn by turn. *)
NextB(h, block, n, final) ==
    LET g == CountAdd(h, n)
    IN  [g EXCEPT !.state = blake2s_compress(g.state, block, g.lo, g.hi, final)]

StartB == [state |-> <<>>, lo |-> 0, hi |-> 0]

FirstB(key, data) ==
    IF key # <<>> THEN NextB(StartB, Padded(key), BlockLen, data = <<>>)
    ELSE IF data = <<>> THEN NextB(StartB, Padded(<<>>), 0, TRUE)
    ELSE StartB

UptoB(data, k) == IF k * BlockLen < Len(data) THEN k * BlockLen ELSE Len(data)

BlocksB(data) ==
    CHOOSE n \in 0..Len(data) :
       UptoB(data, n) = Len(data) /\ (n = 0 \/ UptoB(data, n - 1) < Len(data))

ChunkB(data, k) == SubSeq(data, UptoB(data, k - 1) + 1, UptoB(data, k))

TurnB(t, data, k) ==
    NextB(t, Padded(ChunkB(data, k)), Len(ChunkB(data, k)), UptoB(data, k) = Len(data))

RunB(key, data, g) ==
    /\ g[0] = FirstB(key, data)
    /\ \A k \in 1..BlocksB(data) : g[k] = TurnB(g[k - 1], data, k)

LEMMA LoopB ==
    ASSUME NEW key, NEW data, BlocksB(data) \in Nat
    PROVE  \E g : /\ RunB(key, data, g)
                  /\ blake2b_hash(key, data) = [keyed |-> Len(key), state |-> g[BlocksB(data)].state]
<1> DEFINE a == FirstB(key, data)
           N == BlocksB(data)
           Step(t, k) == TurnB(t, data, k)
           Is(f, n) == f = [k \in 0..n |-> IF k = 0 THEN a ELSE Step(f[k - 1], k)]
           S == {n \in Nat : \E f : Is(f, n)}
<1> HIDE DEF a, Step, N
<1>0. N \in Nat
  BY DEF N
<1>1. 0 \in S
  <2>1. PICK f : f = [i \in 0..0 |-> a]
    OBVIOUS
  <2>2. Is(f, 0)
    BY <2>1
  <2> QED BY <2>2
<1>2. ASSUME NEW n \in Nat, n \in S PROVE n + 1 \in S
  <2>1. PICK f : Is(f, n)
    BY <1>2
  <2>2. PICK g : g = [i \in 0..(n + 1) |-> IF i <= n THEN f[i] ELSE Step(f[n], n + 1)]
    OBVIOUS
  <2>3. ASSUME NEW i \in 0..(n + 1)
        PROVE  g[i] = IF i = 0 THEN a ELSE Step(g[i - 1], i)
    <3>1. CASE i = 0
      BY <2>1, <2>2, <3>1
    <3>2. CASE i # 0 /\ i <= n
      <4>1. i \in 0..n /\ i - 1 \in 0..(n + 1) /\ i - 1 <= n
        BY <3>2
      <4>2. f[i] = Step(f[i - 1], i)
        BY <2>1, <3>2, <4>1
      <4>3. g[i] = f[i] /\ g[i - 1] = f[i - 1]
        BY <2>2, <3>2, <4>1
      <4> QED BY <3>2, <4>2, <4>3
    <3>3. CASE i = n + 1
      <4>1. g[i] = Step(f[n], i) /\ g[n] = f[n] /\ i - 1 = n /\ i # 0
        BY <2>2, <3>3
      <4> QED BY <4>1
    <3> QED BY <3>1, <3>2, <3>3
  <2>4. Is(g, n + 1)
    BY <2>2, <2>3
  <2> QED BY <2>4
<1>3. N \in S
  <2> HIDE DEF S
  <2> QED BY <1>0, <1>1, <1>2, SetInduction
<1>4. PICK f : f = CHOOSE x : Is(x, N)
  OBVIOUS
<1>5. Is(f, N)
  BY <1>3, <1>4
<1>6. blake2b_hash(key, data) = [keyed |-> Len(key), state |-> f[N].state]
  BY <1>4, Zenon DEF blake2b_hash, a, Step, N, TurnB, FirstB, BlocksB, UptoB, ChunkB, NextB, StartB
<1>7. f[0] = a
  BY <1>0, <1>5
<1>8. ASSUME NEW i \in 1..N PROVE f[i] = Step(f[i - 1], i)
  <2>1. i \in 0..N /\ i # 0
    BY <1>0
  <2> QED BY <1>5, <2>1
<1>9. RunB(key, data, f)
  BY <1>7, <1>8 DEF a, Step, N, RunB
<1> QED BY <1>6, <1>9 DEF N

(* The blocks of the data: the last ends with it.                          *)
Cut(D, n) ==
    /\ n \in Nat /\ (D = 0 => n = 0)
    /\ D > 0 => n > 0 /\ (n - 1) * BlockLen < D /\ D <= n * BlockLen

LEMMA CutLemma ==
    ASSUME NEW data, IsSeqn(data)
    PROVE  Cut(Len(data), BlocksB(data))
<1>1. PICK D, b : D = Len(data) /\ b = BlockLen
  OBVIOUS
<1>2. D \in Nat /\ b \in Nat /\ b > 0
  BY <1>1, Constants, SeqnFacts
<1> DEFINE P(n) == UptoB(data, n) = Len(data) /\ (n = 0 \/ UptoB(data, n - 1) < Len(data))
<1>3. \E n \in 0..Len(data) : P(n)
  <2>1. CASE D = 0
    <3>0. Len(data) = 0 /\ UptoB(data, 0) = 0
      <4>1. Len(data) = 0 /\ 0 * BlockLen = 0
        BY ONLY <1>1, <1>2, <2>1
      <4> QED BY ONLY <4>1 DEF UptoB
    <3>1. P(0) /\ 0 \in 0..Len(data)
      BY ONLY <3>0
    <3> QED BY ONLY <3>1
  <2>2. CASE D > 0
    <3>1. PICK n, r : n = (D + b - 1) \div b /\ r = (D + b - 1) % b
      OBVIOUS
    <3>2. n \in Nat /\ r \in 0..(b - 1) /\ D + b - 1 = b * n + r
      BY ONLY <1>2, <3>1
    <3>3. PICK m : m = n * b
      OBVIOUS
    <3>4. m \in Nat /\ b * n = m /\ (n - 1) * b = m - b /\ (n = 0 => m = 0)
      BY ONLY <1>2, <3>2, <3>3
    <3>5. m - b < D /\ D <= m
      BY ONLY <1>2, <2>2, <3>2, <3>4
    <3>6. n # 0
      BY ONLY <1>2, <2>2, <3>4, <3>5
    <3>7. n - 1 <= (n - 1) * b
      BY ONLY <1>2, <3>2, <3>6
    <3>8. n \in 0..D
      BY ONLY <1>2, <3>2, <3>4, <3>5, <3>7
    <3>9. UptoB(data, n) = D
      <4>1. ~(n * BlockLen < Len(data))
        BY ONLY <1>1, <1>2, <3>3, <3>4, <3>5
      <4> QED BY ONLY <1>1, <4>1 DEF UptoB
    <3>10. UptoB(data, n - 1) < D
      <4>1. (n - 1) * BlockLen < Len(data)
        BY ONLY <1>1, <3>4, <3>5
      <4> QED BY ONLY <1>1, <4>1 DEF UptoB
    <3> QED BY ONLY <1>1, <3>8, <3>9, <3>10
  <2> QED BY <1>2, <2>1, <2>2
<1>4. PICK n : n = BlocksB(data) /\ n \in 0..D /\ P(n)
  <2>1. BlocksB(data) = CHOOSE n \in 0..Len(data) : P(n)
    BY Zenon DEF BlocksB
  <2> HIDE DEF P
  <2> QED BY ONLY <1>1, <1>3, <2>1
<1>5. n \in Nat
  BY ONLY <1>2, <1>4
<1>6. PICK m : m = n * b /\ m \in Nat /\ (n - 1) * b = m - b
  BY ONLY <1>2, <1>5
<1>7. UptoB(data, n) = IF m < D THEN m ELSE D
  BY ONLY <1>1, <1>6, Zenon DEF UptoB
<1>8. UptoB(data, n - 1) = IF m - b < D THEN m - b ELSE D
  BY ONLY <1>1, <1>6, Zenon DEF UptoB
<1>9. D <= m
  BY ONLY <1>1, <1>2, <1>4, <1>6, <1>7
<1>10. n = 0 => D = 0
  <2>1. n = 0 => m = 0
    BY ONLY <1>2, <1>6
  <2> QED BY ONLY <1>2, <1>9, <2>1
<1>11. n # 0 => m - b < D
  BY ONLY <1>1, <1>2, <1>4, <1>6, <1>8
<1>12. D = 0 => n = 0
  <2> SUFFICES ASSUME D = 0, n # 0 PROVE FALSE
    OBVIOUS
  <2>1. m >= b
    BY ONLY <1>2, <1>5, <1>6, n # 0
  <2> QED BY ONLY <1>2, <1>6, <1>11, <2>1, D = 0, n # 0
<1>13. Cut(D, n)
  BY ONLY <1>1, <1>2, <1>5, <1>6, <1>9, <1>10, <1>11, <1>12 DEF Cut
<1> QED BY ONLY <1>1, <1>4, <1>13

(* A part of the second part. *)
LEMMA SliceSecond ==
    ASSUME NEW x, NEW d, NEW p, NEW q, IsSeqn(x), IsSeqn(d), p \in Nat, q \in Nat, p <= q,
           q <= Len(d)
    PROVE  SubSeq(x \o d, (Len(x) + p) + 1, Len(x) + q) = SubSeq(d, p + 1, q)
<1>1. PICK z, l, D : z = x \o d /\ l = Len(x) /\ D = Len(d)
  OBVIOUS
<1>2. Join(z, x, d, l, D)
  BY ONLY <1>1, IsSeqn(x), IsSeqn(d), Joined
<1>3. IsSeqn(z) /\ Len(z) = l + D /\ l \in Nat /\ D \in Nat /\ \A i \in 1..D : z[l + i] = d[i]
  BY ONLY <1>2 DEF Join
<1>4. PICK u : u = SubSeq(d, p + 1, q)
  OBVIOUS
<1>5. Part(u, d, p, q)
  BY ONLY <1>4, IsSeqn(d), p \in Nat, q \in Nat, p <= q, q <= Len(d), SliceIsPart
<1>6. IsSeqn(u) /\ Len(u) = q - p /\ \A i \in 1..(q - p) : u[i] = d[p + i]
  BY ONLY <1>5 DEF Part
<1>7. PICK m, n : m = l + p /\ n = l + q
  OBVIOUS
<1>8. m \in Nat /\ n \in Nat /\ m <= n /\ n <= Len(z) /\ n - m = q - p
  BY ONLY <1>1, <1>3, <1>7, p \in Nat, q \in Nat, p <= q, q <= Len(d)
<1>9. \A i \in 1..(q - p) : u[i] = z[m + i]
  <2>1. \A i \in 1..(q - p) : p + i \in 1..D /\ l + (p + i) = m + i
    BY ONLY <1>1, <1>3, <1>7, p \in Nat, q \in Nat, q <= Len(d)
  <2> QED BY ONLY <1>3, <1>6, <2>1
<1>10. Part(u, z, m, n)
  BY ONLY <1>6, <1>8, <1>9 DEF Part
<1>11. u = SubSeq(z, m + 1, n)
  BY ONLY <1>3, <1>8, <1>10, PartIsSlice
<1> QED BY ONLY <1>1, <1>4, <1>7, <1>11

(* One more compression. *)
LEMMA NextBLemma ==
    ASSUME NEW s, NEW c, NEW block, NEW n, NEW final, c \in Nat, n \in Nat
    PROVE  NextB([state |-> s, lo |-> c % Word, hi |-> c \div Word], block, n, final)
           = [state |-> Append(s, Compression(block, (c + n) % Word, (c + n) \div Word, final)),
              lo |-> (c + n) % Word, hi |-> (c + n) \div Word]
<1>1. PICK l, u : l = c % Word /\ u = c \div Word
  OBVIOUS
<1>2. PICK p, q : p = (l + n) % Word /\ q = u + (l + n) \div Word
  OBVIOUS
<1>3. p = (c + n) % Word /\ q = (c + n) \div Word
  BY ONLY <1>1, <1>2, c \in Nat, n \in Nat, CountWords
<1>4. PICK h : h = [state |-> s, lo |-> l, hi |-> u]
  OBVIOUS
<1>5. h.lo = l /\ h.hi = u
  BY ONLY <1>4
<1>6. PICK g : g = CountAdd(h, n)
  OBVIOUS
<1>7. g = [h EXCEPT !.lo = p, !.hi = q]
  BY ONLY <1>2, <1>5, <1>6, Zenon DEF CountAdd
<1>8. g = [state |-> s, lo |-> p, hi |-> q]
  BY ONLY <1>4, <1>7
<1>9. g.state = s /\ g.lo = p /\ g.hi = q
  BY ONLY <1>8
<1>10. PICK A : A = Append(s, Compression(block, p, q, final))
  OBVIOUS
<1>11. NextB(h, block, n, final) = [g EXCEPT !.state = A]
  BY ONLY <1>6, <1>9, <1>10, Zenon DEF NextB, blake2s_compress
<1>12. NextB(h, block, n, final) = [state |-> A, lo |-> p, hi |-> q]
  BY ONLY <1>8, <1>11
<1> QED BY ONLY <1>1, <1>3, <1>4, <1>10, <1>12

(* t has compressed the first k of n blocks of x, which have c bytes.      *)
DoneB(t, x, n, k, c) ==
    \E s : /\ IsSeqn(s) /\ Len(s) = k /\ \A i \in 1..k : s[i] = DigestBlock(x, n, i)
           /\ t = [state |-> s, lo |-> c % Word, hi |-> c \div Word]

LEMMA DoneBStep ==
    ASSUME NEW t, NEW x, NEW n, NEW k, NEW c, NEW block, NEW m, NEW final,
           DoneB(t, x, n, k, c), k \in Nat, c \in Nat, m \in Nat,
           DigestBlock(x, n, k + 1)
              = Compression(block, (c + m) % Word, (c + m) \div Word, final)
    PROVE  DoneB(NextB(t, block, m, final), x, n, k + 1, c + m)
<1>1. PICK s : /\ IsSeqn(s) /\ Len(s) = k /\ \A i \in 1..k : s[i] = DigestBlock(x, n, i)
               /\ t = [state |-> s, lo |-> c % Word, hi |-> c \div Word]
  BY DEF DoneB
<1>2. PICK e, A : e = DigestBlock(x, n, k + 1) /\ A = Append(s, e)
  OBVIOUS
<1>3. NextB(t, block, m, final)
      = [state |-> A, lo |-> (c + m) % Word, hi |-> (c + m) \div Word]
  <2>1. IsSeqn(s) /\ t = [state |-> s, lo |-> c % Word, hi |-> c \div Word]
    BY ONLY <1>1
  <2>2. PICK B : B = Append(s, Compression(block, (c + m) % Word, (c + m) \div Word, final))
    OBVIOUS
  <2>3. A = B
    BY ONLY <1>2, <2>2, Zenon,
            DigestBlock(x, n, k + 1)
               = Compression(block, (c + m) % Word, (c + m) \div Word, final)
  <2>4. NextB(t, block, m, final)
        = [state |-> Append(s, Compression(block, (c + m) % Word, (c + m) \div Word, final)),
           lo |-> (c + m) % Word, hi |-> (c + m) \div Word]
    <3>1. NextB([state |-> s, lo |-> c % Word, hi |-> c \div Word], block, m, final)
          = [state |-> Append(s, Compression(block, (c + m) % Word, (c + m) \div Word, final)),
             lo |-> (c + m) % Word, hi |-> (c + m) \div Word]
      BY ONLY c \in Nat, m \in Nat, NextBLemma
    <3> QED BY ONLY <2>1, <3>1, Zenon
  <2> QED BY ONLY <2>2, <2>3, <2>4, Zenon
<1>4. IsSeqn(A) /\ Len(A) = k + 1 /\ (\A i \in 1..k : A[i] = s[i]) /\ A[k + 1] = e
  BY ONLY <1>1, <1>2, Appended
<1>5. \A i \in 1..(k + 1) : A[i] = DigestBlock(x, n, i)
  <2>1. \A i \in 1..(k + 1) : i \in 1..k \/ i = k + 1
    BY ONLY k \in Nat
  <2> QED BY ONLY <1>1, <1>2, <1>4, <2>1
<1> QED BY ONLY <1>3, <1>4, <1>5 DEF DoneB

(* All blocks compressed: the hash. *)
LEMMA DoneBAll ==
    ASSUME NEW t, NEW x, NEW c, NEW d, Blocks(x) \in Nat, DoneB(t, x, Blocks(x), Blocks(x), c)
    PROVE  [keyed |-> d, state |-> t.state] = Digest(d, x)
<1>0. PICK n : n = Blocks(x) /\ n \in Nat
  OBVIOUS
<1>1. PICK s : /\ IsSeqn(s) /\ Len(s) = n /\ \A i \in 1..n : s[i] = DigestBlock(x, n, i)
               /\ t = [state |-> s, lo |-> c % Word, hi |-> c \div Word]
  BY <1>0 DEF DoneB
<1>2. t.state = s
  <2>1. PICK p, q : p = c % Word /\ q = c \div Word
    OBVIOUS
  <2>2. t = [state |-> s, lo |-> p, hi |-> q]
    BY ONLY <1>1, <2>1
  <2> QED BY ONLY <2>2
<1>3. PICK D : D = DigestState(x, n)
  OBVIOUS
<1>4. IsSeqn(D) /\ Len(D) = n
  <2>1. DOMAIN D = 1..n /\ D = [i \in DOMAIN D |-> D[i]]
    BY ONLY <1>3 DEF DigestState
  <2> QED BY ONLY <1>0, <2>1, FunctionIsSeqn
<1>5. \A i \in 1..n : D[i] = DigestBlock(x, n, i)
  BY ONLY <1>3 DEF DigestState
<1>6. s = D
  <2>1. Len(s) = Len(D) /\ \A i \in 1..Len(s) : s[i] = D[i]
    BY ONLY <1>1, <1>4, <1>5
  <2> QED BY ONLY <1>1, <1>4, <2>1, SeqSame
<1> QED BY ONLY <1>0, <1>2, <1>3, <1>6 DEF Digest

(* Where the k-th of the n blocks of the data begins and ends.             *)
LEMMA BlockBounds ==
    ASSUME NEW data, NEW n, NEW k, IsSeqn(data), Cut(Len(data), n), k \in 1..n
    PROVE  /\ Len(data) > 0
           /\ UptoB(data, k - 1) = (k - 1) * BlockLen
           /\ UptoB(data, k) = IF k = n THEN Len(data) ELSE k * BlockLen
           /\ UptoB(data, k) = Len(data) <=> k = n
           /\ UptoB(data, k - 1) \in Nat /\ UptoB(data, k) \in Nat
           /\ UptoB(data, k - 1) <= UptoB(data, k) /\ UptoB(data, k) <= Len(data)
<1>1. PICK D, b : D = Len(data) /\ b = BlockLen
  OBVIOUS
<1>2. D \in Nat /\ b \in Nat /\ b > 0
  BY <1>1, Constants, SeqnFacts
<1>3. /\ n \in Nat /\ (D = 0 => n = 0)
      /\ D > 0 => n > 0 /\ (n - 1) * b < D /\ D <= n * b
  BY ONLY <1>1, Cut(Len(data), n) DEF Cut
<1>4. k \in Nat /\ k > 0 /\ k <= n /\ D > 0
  BY ONLY <1>2, <1>3, k \in 1..n
<1>5. PICK u, v : u = (k - 1) * b /\ v = k * b
  OBVIOUS
<1>6. u \in Nat /\ v \in Nat /\ v = u + b
  BY ONLY <1>2, <1>4, <1>5
<1>7. PICK y, w : y = (n - 1) * b /\ w = n * b
  OBVIOUS
<1>8. y \in Nat /\ w \in Nat /\ w = y + b /\ y < D /\ D <= w
  BY ONLY <1>2, <1>3, <1>4, <1>7
<1>9. (k = n => u = y /\ v = w) /\ (k # n => v <= y)
  <2>1. k = n => u = y /\ v = w
    BY ONLY <1>5, <1>7
  <2>2. ASSUME k # n PROVE v <= y
    <3>1. n - 1 - k \in Nat
      BY ONLY <1>3, <1>4, <2>2
    <3>2. (n - 1 - k) * b \in Nat /\ (n - 1) * b = k * b + (n - 1 - k) * b
      BY ONLY <1>2, <1>3, <1>4, <3>1
    <3> QED BY ONLY <1>5, <1>6, <1>7, <1>8, <3>2
  <2> QED BY <2>1, <2>2
<1>10. u < D /\ (k # n => v < D) /\ (k = n => ~(v < D))
  BY ONLY <1>2, <1>6, <1>8, <1>9
<1>11. UptoB(data, k - 1) = u
  BY ONLY <1>1, <1>5, <1>10, Zenon DEF UptoB
<1>12. UptoB(data, k) = IF v < D THEN v ELSE D
  BY ONLY <1>1, <1>5, Zenon DEF UptoB
<1>13. UptoB(data, k) = IF k = n THEN D ELSE v
  BY ONLY <1>10, <1>12
<1>14. /\ UptoB(data, k) = D <=> k = n
       /\ u <= UptoB(data, k) /\ UptoB(data, k) <= D /\ UptoB(data, k) \in Nat
  BY ONLY <1>2, <1>6, <1>10, <1>13
<1> QED BY ONLY <1>1, <1>4, <1>5, <1>6, <1>11, <1>13, <1>14

(* The k-th turn compresses block f + k of the input, where f is the       *)
(* number of blocks of the key.                                            *)
LEMMA TurnBLemma ==
    ASSUME NEW t, NEW K, NEW data, NEW n, NEW f, NEW k, NEW j,
           IsSeqn(K), IsSeqn(data), Cut(Len(data), n), k \in 1..n, f \in Nat, j = f + k,
           Len(K) = f * BlockLen,
           DoneB(t, K \o data, f + n, j - 1, Len(K) + UptoB(data, k - 1))
    PROVE  DoneB(TurnB(t, data, k), K \o data, f + n, j, Len(K) + UptoB(data, k))
<1>1. PICK x, N, l, D, b : x = K \o data /\ N = f + n /\ l = Len(K) /\ D = Len(data) /\ b = BlockLen
  OBVIOUS
<1>2. PICK p, q : p = UptoB(data, k - 1) /\ q = UptoB(data, k)
  OBVIOUS
<1>3. /\ p = (k - 1) * b /\ q = (IF k = n THEN D ELSE k * b) /\ (q = D <=> k = n)
      /\ p \in Nat /\ q \in Nat /\ p <= q /\ q <= D
  BY ONLY <1>1, <1>2, IsSeqn(data), Cut(Len(data), n), k \in 1..n, BlockBounds
<1>4. b \in Nat /\ b > 0 /\ l \in Nat /\ D \in Nat /\ n \in Nat
  <2>1. n \in Nat
    BY ONLY Cut(Len(data), n) DEF Cut
  <2> QED BY ONLY <1>1, <2>1, IsSeqn(K), IsSeqn(data), SeqnFacts, Constants
<1>5. k \in Nat /\ k > 0 /\ k <= n /\ j \in Nat /\ j - 1 \in Nat /\ (j - 1) + 1 = j
  BY ONLY <1>4, k \in 1..n, f \in Nat, j = f + k
<1>6. PICK m, s : m = q - p /\ s = SubSeq(data, p + 1, q)
  OBVIOUS
<1>7. IsSeqn(s) /\ Len(s) = m /\ m \in Nat
  <2>1. q <= Len(data)
    BY ONLY <1>1, <1>3
  <2>2. Part(s, data, p, q)
    BY ONLY <1>3, <1>6, <2>1, IsSeqn(data), SliceIsPart
  <2>3. IsSeqn(s) /\ Len(s) = q - p
    BY ONLY <2>2 DEF Part
  <2> QED BY ONLY <1>3, <1>6, <2>3
<1>8. TurnB(t, data, k) = NextB(t, Padded(s), m, q = D)
  <2>1. ChunkB(data, k) = s
    BY ONLY <1>2, <1>6, Zenon DEF ChunkB
  <2> QED BY ONLY <1>1, <1>2, <1>7, <2>1, Zenon DEF TurnB
<1>9. Len(x) = l + D
  <2>1. Join(x, K, data, l, D)
    BY ONLY <1>1, IsSeqn(K), IsSeqn(data), Joined
  <2> QED BY ONLY <2>1 DEF Join
<1>10. (j - 1) * b = l + p
  <2>1. (j - 1) * b = f * b + (k - 1) * b
    <3>1. j - 1 = f + (k - 1)
      BY ONLY <1>5, f \in Nat, j = f + k
    <3>2. PICK i : i = k - 1 /\ i \in Nat
      BY ONLY <1>5
    <3>3. (f + i) * b = f * b + i * b
      BY ONLY <1>4, <3>2, f \in Nat
    <3> QED BY ONLY <3>1, <3>2, <3>3
  <2> QED BY ONLY <1>1, <1>3, <2>1, Len(K) = f * BlockLen
<1>11. Upto(x, N, j) = l + q
  <2>1. CASE k = n
    <3>1. ~(j < N)
      BY ONLY <1>1, <1>4, <1>5, <2>1, f \in Nat, j = f + k
    <3>2. Upto(x, N, j) = Len(x)
      BY ONLY <3>1 DEF Upto
    <3> QED BY ONLY <1>3, <1>9, <2>1, <3>2
  <2>2. CASE k # n
    <3>1. j < N
      BY ONLY <1>1, <1>4, <1>5, <2>2, f \in Nat, j = f + k
    <3>2. Upto(x, N, j) = j * b
      BY ONLY <1>1, <3>1 DEF Upto
    <3>3. j * b = f * b + k * b
      BY ONLY <1>4, <1>5, f \in Nat, j = f + k
    <3> QED BY ONLY <1>1, <1>3, <2>2, <3>2, <3>3, Len(K) = f * BlockLen
  <2> QED BY <2>1, <2>2
<1>12. SubSeq(x, (l + p) + 1, l + q) = s
  <2>1. q <= Len(data)
    BY ONLY <1>1, <1>3
  <2>2. p \in Nat /\ q \in Nat /\ p <= q
    BY ONLY <1>3
  <2>3. SubSeq(K \o data, (Len(K) + p) + 1, Len(K) + q) = SubSeq(data, p + 1, q)
    BY ONLY <2>1, <2>2, IsSeqn(K), IsSeqn(data), SliceSecond
  <2> QED BY ONLY <1>1, <1>6, <2>3
<1>13. (j = N) = (q = D)
  <2>1. j = N <=> k = n
    BY ONLY <1>1, <1>4, <1>5, f \in Nat, j = f + k
  <2> QED BY ONLY <1>3, <2>1
<1>14. PICK c : c = l + p /\ c \in Nat /\ c + m = l + q
  <2>1. p \in Nat /\ q \in Nat /\ p <= q /\ l \in Nat /\ m = q - p
    BY ONLY <1>3, <1>4, <1>6
  <2>2. l + p \in Nat /\ (l + p) + m = l + q
    BY ONLY <2>1
  <2> QED BY ONLY <2>2
<1>15. DigestBlock(x, N, j) = Compression(Padded(s), (c + m) % Word, (c + m) \div Word, q = D)
  BY ONLY <1>1, <1>10, <1>11, <1>12, <1>13, <1>14, Zenon DEF DigestBlock
<1>16. DoneB(t, x, N, j - 1, c)
  BY ONLY <1>1, <1>2, <1>14, DoneB(t, K \o data, f + n, j - 1, Len(K) + UptoB(data, k - 1))
<1>17. PICK i, final : i = j - 1 /\ final = (q = D)
  OBVIOUS
<1>18. DoneB(NextB(t, Padded(s), m, final), x, N, i + 1, c + m)
  <2>1. DigestBlock(x, N, i + 1) = Compression(Padded(s), (c + m) % Word, (c + m) \div Word, final)
    BY ONLY <1>5, <1>15, <1>17
  <2> QED BY ONLY <1>5, <1>7, <1>14, <1>16, <1>17, <2>1, DoneBStep
<1> QED BY ONLY <1>1, <1>2, <1>5, <1>8, <1>14, <1>17, <1>18

LEMMA NothingDoneB ==
    ASSUME NEW x, NEW n
    PROVE  DoneB(StartB, x, n, 0, 0)
<1>1. 0 % Word = 0 /\ 0 \div Word = 0
  BY Constants
<1>2. PICK s : s = <<>> /\ IsSeqn(s) /\ Len(s) = 0
  BY NoElements
<1>3. StartB = [state |-> s, lo |-> 0 % Word, hi |-> 0 \div Word]
  BY ONLY <1>1, <1>2 DEF StartB
<1>4. \A i \in 1..0 : s[i] = DigestBlock(x, n, i)
  OBVIOUS
<1> QED BY ONLY <1>2, <1>3, <1>4 DEF DoneB

(* The block of the key, which is the last one if there is no data.        *)
LEMMA KeyDoneB ==
    ASSUME NEW key, NEW data, NEW n, IsSeqn(key), Len(key) <= BlockLen, key # <<>>,
           IsSeqn(data), Cut(Len(data), n)
    PROVE  DoneB(FirstB(key, data), Padded(key) \o data, 1 + n, 1, BlockLen)
<1>1. PICK K, x, N, D, b : /\ K = Padded(key) /\ x = K \o data /\ N = 1 + n /\ D = Len(data)
                           /\ b = BlockLen
  OBVIOUS
<1>2. IsSeqn(K) /\ Len(K) = b
  BY ONLY <1>1, IsSeqn(key), Len(key) <= BlockLen, PaddedFacts
<1>3. b \in Nat /\ b > 0 /\ D \in Nat
  BY ONLY <1>1, IsSeqn(data), SeqnFacts, Constants
<1>4. n \in Nat /\ (D = 0 <=> n = 0)
  BY ONLY <1>1, <1>3, Cut(Len(data), n) DEF Cut
<1>5. Len(x) = b + D
  <2>1. Join(x, K, data, b, D)
    BY ONLY <1>1, <1>2, IsSeqn(data), Joined
  <2> QED BY ONLY <2>1 DEF Join
<1>6. Upto(x, N, 1) = b
  <2>1. CASE n = 0
    <3>1. ~(1 < N)
      BY ONLY <1>1, <2>1
    <3>2. Upto(x, N, 1) = Len(x)
      BY ONLY <3>1 DEF Upto
    <3> QED BY ONLY <1>3, <1>4, <1>5, <2>1, <3>2
  <2>2. CASE n # 0
    <3>1. 1 < N
      BY ONLY <1>1, <1>4, <2>2
    <3>2. Upto(x, N, 1) = 1 * b
      BY ONLY <1>1, <3>1 DEF Upto
    <3> QED BY ONLY <1>3, <3>2
  <2> QED BY <2>1, <2>2
<1>7. SubSeq(x, 0 + 1, b) = K
  <2>1. 0 \in Nat /\ 0 <= b /\ b <= Len(K)
    BY ONLY <1>2, <1>3
  <2>2. SubSeq(x, 0 + 1, b) = SubSeq(K, 0 + 1, b)
    BY ONLY <1>1, <1>2, <1>3, <2>1, IsSeqn(data), SlicePrefix
  <2>3. SubSeq(K, 0 + 1, Len(K)) = K
    BY ONLY <1>2, SliceAll
  <2> QED BY ONLY <1>2, <2>2, <2>3
<1>8. Padded(K) = K
  <2>1. Len(K) <= BlockLen /\ Len(K) = BlockLen
    BY ONLY <1>1, <1>2, <1>3
  <2> QED BY ONLY <1>2, <2>1, PaddedFacts
<1>9. (1 = N) = (data = <<>>)
  <2>1. data = <<>> <=> D = 0
    BY ONLY <1>1, IsSeqn(data), SeqnFacts
  <2>2. 1 = N <=> n = 0
    BY ONLY <1>1, <1>4
  <2> QED BY ONLY <1>4, <2>1, <2>2
<1>10. PICK final : final = (data = <<>>)
  OBVIOUS
<1>11. (1 - 1) * BlockLen = 0 /\ 0 + b = b /\ 0 + 1 = 1 /\ 0 \in Nat
  BY ONLY <1>1, <1>3
<1>12. DigestBlock(x, N, 1) = Compression(K, b % Word, b \div Word, final)
  BY ONLY <1>6, <1>7, <1>8, <1>9, <1>10, <1>11, Zenon DEF DigestBlock
<1>13. DigestBlock(x, N, 0 + 1) = Compression(K, (0 + b) % Word, (0 + b) \div Word, final)
  BY ONLY <1>11, <1>12
<1>14. DoneB(NextB(StartB, K, b, final), x, N, 0 + 1, 0 + b)
  BY ONLY <1>3, <1>11, <1>13, NothingDoneB, DoneBStep
<1>15. FirstB(key, data) = NextB(StartB, K, b, final)
  BY ONLY <1>1, <1>10, key # <<>>, Zenon DEF FirstB
<1> QED BY ONLY <1>1, <1>11, <1>14, <1>15

(* Neither key nor data: one block of zeros. *)
LEMMA EmptyDoneB ==
    DoneB(FirstB(<<>>, <<>>), <<>>, 1, 1, 0)
<1>1. PICK e : e = <<>> /\ IsSeqn(e) /\ Len(e) = 0
  BY NoElements
<1>2. (1 - 1) * BlockLen = 0 /\ 0 + 0 = 0 /\ 0 + 1 = 1 /\ 0 \in Nat
  BY Constants
<1>3. Upto(e, 1, 1) = 0
  <2>1. ~(1 < 1)
    OBVIOUS
  <2> QED BY ONLY <1>1, <2>1 DEF Upto
<1>4. SubSeq(e, 0 + 1, 0) = e
  BY ONLY <1>1, SliceAll
<1>5. PICK final : final = TRUE /\ final = (1 = 1)
  OBVIOUS
<1>6. DigestBlock(e, 1, 1) = Compression(Padded(e), 0 % Word, 0 \div Word, final)
  BY ONLY <1>2, <1>3, <1>4, <1>5, Zenon DEF DigestBlock
<1>7. DigestBlock(e, 1, 0 + 1) = Compression(Padded(e), (0 + 0) % Word, (0 + 0) \div Word, final)
  BY ONLY <1>2, <1>6
<1>8. DoneB(NextB(StartB, Padded(e), 0, final), e, 1, 0 + 1, 0 + 0)
  BY ONLY <1>2, <1>7, NothingDoneB, DoneBStep
<1>9. FirstB(e, e) = NextB(StartB, Padded(e), 0, final)
  BY ONLY <1>1, <1>5, Zenon DEF FirstB
<1> QED BY ONLY <1>1, <1>2, <1>8, <1>9

(* All turns. *)
LEMMA TurnsB ==
    ASSUME NEW key, NEW data, NEW g, NEW K, NEW n, NEW f, IsSeqn(K), IsSeqn(data),
           n = BlocksB(data), Cut(Len(data), n), RunB(key, data, g), f \in Nat,
           Len(K) = f * BlockLen, DoneB(g[0], K \o data, f + n, f, Len(K))
    PROVE  DoneB(g[n], K \o data, f + n, f + n, Len(K) + UptoB(data, n))
<1>1. n \in Nat
  BY ONLY Cut(Len(data), n) DEF Cut
<1>2. UptoB(data, 0) = 0 /\ Len(K) + 0 = Len(K) /\ f + 0 = f
  <2>1. Len(data) \in Nat /\ Len(K) \in Nat
    BY ONLY IsSeqn(K), IsSeqn(data), SeqnFacts
  <2>2. 0 * BlockLen = 0
    BY Constants
  <2>3. UptoB(data, 0) = IF 0 < Len(data) THEN 0 ELSE Len(data)
    BY ONLY <2>2 DEF UptoB
  <2> QED BY ONLY <2>1, <2>3, f \in Nat
<1> DEFINE P(k) == DoneB(g[k], K \o data, f + n, f + k, Len(K) + UptoB(data, k))
           S == {k \in Nat : k <= n => P(k)}
<1>3. 0 \in S
  <2>1. P(0)
    BY ONLY <1>2, DoneB(g[0], K \o data, f + n, f, Len(K))
  <2> HIDE DEF P
  <2> QED BY ONLY <2>1
<1>4. ASSUME NEW k \in Nat, k \in S PROVE k + 1 \in S
  <2>1. ASSUME k + 1 <= n PROVE P(k + 1)
    <3>1. k <= n /\ k + 1 \in 1..n
      BY ONLY <1>1, <2>1, k \in Nat
    <3>2. P(k)
      <4> HIDE DEF P
      <4> QED BY ONLY <3>1, k \in S
    <3>3. PICK i, j : i = k + 1 /\ j = f + i
      OBVIOUS
    <3>4. i - 1 = k /\ j - 1 = f + k
      BY ONLY <3>3, k \in Nat, f \in Nat
    <3>5. PICK t : t = g[k]
      OBVIOUS
    <3>6. DoneB(t, K \o data, f + n, j - 1, Len(K) + UptoB(data, i - 1))
      BY ONLY <3>2, <3>4, <3>5
    <3>7. i \in 1..n
      BY ONLY <3>1, <3>3
    <3>8. DoneB(TurnB(t, data, i), K \o data, f + n, j, Len(K) + UptoB(data, i))
      BY ONLY <3>3, <3>6, <3>7, IsSeqn(K), IsSeqn(data), Cut(Len(data), n), f \in Nat,
              Len(K) = f * BlockLen, TurnBLemma
    <3>9. g[i] = TurnB(g[i - 1], data, i)
      BY ONLY <3>7, n = BlocksB(data), RunB(key, data, g) DEF RunB
    <3>10. g[i] = TurnB(t, data, i)
      BY ONLY <3>4, <3>5, <3>9
    <3> QED BY ONLY <3>3, <3>8, <3>10
  <2> HIDE DEF P
  <2> QED BY ONLY <2>1, k \in Nat
<1>5. n \in S
  <2> HIDE DEF S
  <2> QED BY ONLY <1>1, <1>3, <1>4, SetInduction
<1>6. P(n)
  <2> HIDE DEF P
  <2> QED BY ONLY <1>1, <1>5
<1> QED BY ONLY <1>6

(* The blocks of the key and of the data. *)
LEMMA BlocksOfBoth ==
    ASSUME NEW K, NEW data, NEW n, NEW f, IsSeqn(K), IsSeqn(data), Cut(Len(data), n),
           f \in Nat, Len(K) = f * BlockLen, f + n > 0
    PROVE  Blocks(K \o data) = f + n /\ f + n \in Nat
<1>1. PICK x, l, D, b : x = K \o data /\ l = Len(K) /\ D = Len(data) /\ b = BlockLen
  OBVIOUS
<1>2. IsSeqn(x) /\ Len(x) = l + D
  <2>1. Join(x, K, data, l, D)
    BY ONLY <1>1, IsSeqn(K), IsSeqn(data), Joined
  <2> QED BY ONLY <2>1 DEF Join
<1>3. b \in Nat /\ b > 0 /\ l \in Nat /\ D \in Nat
  BY ONLY <1>1, IsSeqn(K), IsSeqn(data), SeqnFacts, Constants
<1>4. /\ n \in Nat /\ (D = 0 => n = 0)
      /\ D > 0 => n > 0 /\ (n - 1) * b < D /\ D <= n * b
  BY ONLY <1>1, Cut(Len(data), n) DEF Cut
<1>5. PICK k : k = (f + n) - 1
  OBVIOUS
<1>6. k \in Nat /\ k + 1 = f + n /\ f + n \in Nat
  BY ONLY <1>4, <1>5, f \in Nat, f + n > 0
<1>7. PICK a, c, d : a = k * b /\ c = n * b /\ d = f * b
  OBVIOUS
<1>8. a \in Nat /\ c \in Nat /\ d \in Nat /\ a + b = d + c /\ (n - 1) * b = c - b
  <2>1. (k + 1) * b = a + b
    BY ONLY <1>3, <1>6, <1>7
  <2>2. (f + n) * b = d + c
    BY ONLY <1>3, <1>4, <1>7, f \in Nat
  <2>3. (n - 1) * b = c - b
    BY ONLY <1>3, <1>4, <1>7
  <2>4. a \in Nat /\ c \in Nat /\ d \in Nat
    BY ONLY <1>3, <1>4, <1>6, <1>7, f \in Nat
  <2> QED BY ONLY <1>6, <2>1, <2>2, <2>3, <2>4
<1>9. l = d
  BY ONLY <1>1, <1>7, Len(K) = f * BlockLen
<1>10. n = 0 => c = 0
  BY ONLY <1>3, <1>7
<1>11. /\ a <= l + D /\ l + D <= a + b
       /\ a = l + D => k = 0
  <2>1. CASE D = 0
    <3>1. n = 0 /\ c = 0
      BY ONLY <1>4, <1>10, <2>1
    <3> QED BY ONLY <1>3, <1>8, <1>9, <2>1, <3>1
  <2>2. CASE D > 0
    <3>1. c - b < D /\ D <= c
      BY ONLY <1>4, <1>7, <1>8, <2>2
    <3> QED BY ONLY <1>3, <1>8, <1>9, <3>1
  <2> QED BY ONLY <1>3, <2>1, <2>2
<1>12. Buffered(x, k)
  BY ONLY <1>1, <1>2, <1>6, <1>7, <1>11 DEF Buffered
<1> QED BY ONLY <1>1, <1>2, <1>6, <1>12, BlocksLemma

(* blake2b_hash gives what blake2s_hash gives. *)
LEMMA BlakeBLemma ==
    ASSUME NEW key, NEW data, IsSeqn(key), IsSeqn(data), Len(key) <= BlockLen
    PROVE  blake2b_hash(key, data) = Reference(key, data)
<1>1. PICK n : n = BlocksB(data) /\ Cut(Len(data), n)
  BY ONLY IsSeqn(data), CutLemma
<1>2. n \in Nat
  BY ONLY <1>1 DEF Cut
<1>3. PICK g : /\ RunB(key, data, g)
               /\ blake2b_hash(key, data) = [keyed |-> Len(key), state |-> g[n].state]
  BY ONLY <1>1, <1>2, LoopB
<1>4. g[0] = FirstB(key, data)
  BY ONLY <1>3 DEF RunB
<1>5. ASSUME NEW K, NEW f, K = KeyBlock(key), IsSeqn(K), f \in Nat, Len(K) = f * BlockLen,
             f + n > 0, DoneB(g[0], K \o data, f + n, f, Len(K))
      PROVE  blake2b_hash(key, data) = Reference(key, data)
  <2>1. DoneB(g[n], K \o data, f + n, f + n, Len(K) + UptoB(data, n))
    BY ONLY <1>1, <1>3, <1>5, IsSeqn(data), TurnsB
  <2>2. Blocks(K \o data) = f + n /\ f + n \in Nat
    BY ONLY <1>1, <1>5, IsSeqn(data), BlocksOfBoth
  <2>3. PICK x, c, t : x = K \o data /\ c = Len(K) + UptoB(data, n) /\ t = g[n]
    OBVIOUS
  <2>4. DoneB(t, x, Blocks(x), Blocks(x), c) /\ Blocks(x) \in Nat
    BY ONLY <2>1, <2>2, <2>3
  <2>5. PICK d : d = Len(key)
    OBVIOUS
  <2>6. [keyed |-> d, state |-> t.state] = Digest(d, x)
    BY ONLY <2>4, DoneBAll
  <2>7. Reference(key, data) = Digest(d, x)
    BY ONLY <1>5, <2>3, <2>5, ReferenceIsDigest
  <2> QED BY ONLY <1>3, <2>3, <2>5, <2>6, <2>7
<1>6. CASE key # <<>>
  <2>1. PICK K : K = Padded(key)
    OBVIOUS
  <2>2. IsSeqn(K) /\ Len(K) = BlockLen
    BY ONLY <2>1, IsSeqn(key), Len(key) <= BlockLen, PaddedFacts
  <2>3. K = KeyBlock(key)
    BY ONLY <1>6, <2>1 DEF KeyBlock
  <2>4. DoneB(FirstB(key, data), Padded(key) \o data, 1 + n, 1, BlockLen)
    BY ONLY <1>1, <1>6, IsSeqn(key), IsSeqn(data), Len(key) <= BlockLen, KeyDoneB
  <2>5. DoneB(g[0], K \o data, 1 + n, 1, Len(K))
    BY ONLY <1>4, <2>1, <2>2, <2>4
  <2>6. 1 \in Nat /\ 1 + n > 0
    BY ONLY <1>2
  <2>7. Len(K) = 1 * BlockLen
    BY ONLY <2>2, Constants
  <2> QED BY ONLY <1>5, <2>2, <2>3, <2>5, <2>6, <2>7
<1>7. CASE key = <<>> /\ data # <<>>
  <2>1. PICK K : K = <<>> /\ IsSeqn(K) /\ Len(K) = 0
    BY ONLY NoElements
  <2>2. K = KeyBlock(key)
    BY ONLY <1>7, <2>1 DEF KeyBlock
  <2>3. g[0] = StartB
    BY ONLY <1>4, <1>7 DEF FirstB
  <2>4. DoneB(StartB, K \o data, 0 + n, 0, 0)
    BY ONLY NothingDoneB
  <2>5. DoneB(g[0], K \o data, 0 + n, 0, Len(K))
    BY ONLY <2>1, <2>3, <2>4
  <2>6. 0 \in Nat /\ 0 + n > 0
    <3>1. Len(data) # 0 /\ Len(data) \in Nat
      BY ONLY <1>7, IsSeqn(data), SeqnFacts
    <3>2. n > 0
      BY ONLY <1>1, <3>1 DEF Cut
    <3> QED BY ONLY <1>2, <3>2
  <2>7. Len(K) = 0 * BlockLen
    BY ONLY <2>1, Constants
  <2> QED BY ONLY <1>5, <2>1, <2>2, <2>5, <2>6, <2>7
<1>8. CASE key = <<>> /\ data = <<>>
  <2>1. PICK e, t, d : e = <<>> /\ t = g[0] /\ d = Len(key)
    OBVIOUS
  <2>2. IsSeqn(e) /\ Len(e) = 0 /\ e \o e = e
    BY ONLY <2>1, NoElements, JoinNothing
  <2>3. n = 0
    <3>1. Len(data) = 0
      BY ONLY <1>8, NoElements
    <3> QED BY ONLY <1>1, <3>1 DEF Cut
  <2>4. DoneB(t, e, 1, 1, 0)
    BY ONLY <1>4, <1>8, <2>1, EmptyDoneB
  <2>5. Blocks(e) = 1 /\ 1 \in Nat
    BY ONLY <2>1 DEF Blocks
  <2>6. [keyed |-> d, state |-> t.state] = Digest(d, e)
    BY ONLY <2>4, <2>5, DoneBAll
  <2>7. KeyBlock(key) \o data = e
    <3>1. KeyBlock(key) = e
      BY ONLY <1>8, <2>1 DEF KeyBlock
    <3> QED BY ONLY <1>8, <2>1, <2>2, <3>1
  <2>8. Reference(key, data) = Digest(d, e)
    BY ONLY <2>1, <2>7, ReferenceIsDigest
  <2> QED BY ONLY <1>3, <2>1, <2>3, <2>6, <2>8
<1> QED BY <1>6, <1>7, <1>8

-----------------------------------------------------------------------------
(* The bytes that are mixed in. *)
LEMMA BytesFacts ==
    ASSUME NEW a, NEW n, n \in Nat
    PROVE  /\ IsSeqn(Bytes(a, n)) /\ Len(Bytes(a, n)) = n
           /\ \A i \in 1..n : Bytes(a, n)[i] = Byte(a + i)
<1>1. PICK f : f = Bytes(a, n)
  OBVIOUS
<1>2. DOMAIN f = 1..n /\ f = [i \in DOMAIN f |-> f[i]] /\ \A i \in 1..n : f[i] = Byte(a + i)
  BY ONLY <1>1 DEF Bytes
<1>3. IsSeqn(f) /\ Len(f) = n
  BY ONLY <1>2, n \in Nat, FunctionIsSeqn
<1> QED BY ONLY <1>1, <1>2, <1>3

LEMMA BytesJoin ==
    ASSUME NEW a, NEW m, NEW n, a \in Nat, m \in Nat, n \in Nat
    PROVE  Bytes(a, m) \o Bytes(a + m, n) = Bytes(a, m + n)
<1>1. PICK x, y, z, w, s, e : /\ x = Bytes(a, m) /\ y = Bytes(e, n) /\ z = x \o y /\ w = Bytes(a, s)
                              /\ s = m + n /\ e = a + m
  OBVIOUS
<1>2. s \in Nat /\ e \in Nat
  BY ONLY <1>1, a \in Nat, m \in Nat, n \in Nat
<1>3. IsSeqn(x) /\ Len(x) = m /\ \A i \in 1..m : x[i] = Byte(a + i)
  BY ONLY <1>1, m \in Nat, BytesFacts
<1>4. IsSeqn(y) /\ Len(y) = n /\ \A i \in 1..n : y[i] = Byte(e + i)
  BY ONLY <1>1, n \in Nat, BytesFacts
<1>5. IsSeqn(w) /\ Len(w) = s /\ \A i \in 1..s : w[i] = Byte(a + i)
  BY ONLY <1>1, <1>2, BytesFacts
<1>6. Join(z, x, y, m, n)
  BY ONLY <1>1, <1>3, <1>4, Joined
<1>7. /\ IsSeqn(z) /\ Len(z) = m + n
      /\ \A i \in 1..m : z[i] = x[i]
      /\ \A i \in 1..n : z[m + i] = y[i]
  BY ONLY <1>6 DEF Join
<1>8. ASSUME NEW i \in 1..s PROVE z[i] = w[i]
  <2>1. CASE i <= m
    <3>1. i \in 1..m
      BY ONLY <2>1, <1>2, i \in 1..s
    <3> QED BY ONLY <1>3, <1>5, <1>7, <3>1, i \in 1..s
  <2>2. CASE i > m
    <3>1. PICK j : j = i - m /\ j \in 1..n /\ i = m + j
      BY ONLY <1>1, <1>2, <2>2, i \in 1..s, m \in Nat, n \in Nat
    <3>2. e + j = a + i
      BY ONLY <1>1, <3>1, a \in Nat, m \in Nat, n \in Nat
    <3> QED BY ONLY <1>4, <1>5, <1>7, <3>1, <3>2, i \in 1..s
  <2> QED BY ONLY <2>1, <2>2, <1>2, i \in 1..s, m \in Nat
<1>9. Len(z) = Len(w) /\ \A i \in 1..Len(z) : z[i] = w[i]
  BY ONLY <1>1, <1>5, <1>7, <1>8
<1>10. z = w
  BY ONLY <1>5, <1>7, <1>9, SeqSame
<1> QED BY ONLY <1>1, <1>10

LEMMA KeyFacts ==
    ASSUME NEW t
    PROVE  /\ IsSeqn(KeyOf(t)) /\ Len(KeyOf(t)) = KeyLen /\ KeyOf(t) # <<>>
           /\ KeyOf(t)[1] = <<"key", t, 1>>
<1>1. PICK f, n : f = KeyOf(t) /\ n = KeyLen /\ n \in Nat /\ n > 0
  BY Constants
<1>2. DOMAIN f = 1..n /\ f = [i \in DOMAIN f |-> f[i]] /\ \A i \in 1..n : f[i] = <<"key", t, i>>
  BY ONLY <1>1 DEF KeyOf
<1>3. IsSeqn(f) /\ Len(f) = n
  BY ONLY <1>1, <1>2, FunctionIsSeqn
<1>4. f # <<>>
  BY ONLY <1>1, <1>3, SeqnFacts
<1>5. 1 \in 1..n
  BY ONLY <1>1
<1> QED BY ONLY <1>1, <1>2, <1>3, <1>4, <1>5

(* The key that the pool is set up with. *)
PoolKey(s) == IF s = <<>> THEN <<>> ELSE KeyOf(Last(s))

LEMMA PoolKeyFacts ==
    ASSUME NEW s
    PROVE  IsSeqn(PoolKey(s)) /\ Len(PoolKey(s)) \in Nat /\ Len(PoolKey(s)) <= BlockLen
<1>1. CASE s = <<>>
  <2>1. PoolKey(s) = <<>>
    BY ONLY <1>1 DEF PoolKey
  <2> QED BY ONLY <2>1, NoElements, Constants
<1>2. CASE s # <<>>
  <2>1. PoolKey(s) = KeyOf(Last(s))
    BY ONLY <1>2 DEF PoolKey
  <2> QED BY ONLY <2>1, KeyFacts, Constants
<1> QED BY <1>1, <1>2

LEMMA KeyBlockFacts ==
    ASSUME NEW key, IsSeqn(key), Len(key) <= BlockLen
    PROVE  IsSeqn(KeyBlock(key))
<1>1. CASE key = <<>>
  BY ONLY <1>1, NoElements DEF KeyBlock
<1>2. CASE key # <<>>
  <2>1. KeyBlock(key) = Padded(key)
    BY ONLY <1>2 DEF KeyBlock
  <2> QED BY ONLY <2>1, IsSeqn(key), Len(key) <= BlockLen, PaddedFacts
<1> QED BY <1>1, <1>2

-----------------------------------------------------------------------------
(* The two kinds of getrandom.                                             *)
Reseeds(len, seed) ==
    /\ seed = blake2s_finish(entropy_pool)
    /\ rng' = [state |-> NextState(seed), inited |-> TRUE,
               entropy_estimate |-> global_entropy_estimate % Estimate63]
    /\ entropy_pool' = Rekey(seed)
    /\ drawn' = drawn \o chacha20_keystream(Half("hi", seed, 0), len)
    /\ seeds' = Append(seeds, seed)
    /\ mixedAt' = mixed /\ creditAt' = global_entropy_estimate

GoesOn(len) ==
    /\ rng' = [rng EXCEPT !.state = NextState(rng.state)]
    /\ entropy_pool' = entropy_pool
    /\ drawn' = drawn \o chacha20_keystream(Half("hi", rng.state, 0), len)
    /\ seeds' = seeds /\ mixedAt' = mixedAt /\ creditAt' = creditAt

LEMMA Draw ==
    ASSUME NEW len, getrandom(len)
    PROVE  /\ creditDrawn' = global_entropy_estimate
           /\ global_entropy_estimate' = global_entropy_estimate
           /\ mixed' = mixed /\ hashes' = hashes
           /\ (ShouldReinit /\ \E seed : Reseeds(len, seed)) \/ (~ShouldReinit /\ GoesOn(len))
<1>1. /\ creditDrawn' = global_entropy_estimate
      /\ global_entropy_estimate' = global_entropy_estimate
      /\ mixed' = mixed /\ hashes' = hashes
  BY DEF getrandom
<1>2. PICK ensured, state : ensured = ensure_hart_local_rng /\ state = ensured.rng.state
  OBVIOUS
<1>3. /\ rng' = [ensured.rng EXCEPT !.state = NextState(state)]
      /\ entropy_pool' = ensured.pool
      /\ drawn' = drawn \o chacha20_keystream(Half("hi", state, 0), len)
      /\ IF ShouldReinit
         THEN /\ seeds' = Append(seeds, state)
              /\ mixedAt' = mixed /\ creditAt' = global_entropy_estimate
         ELSE UNCHANGED <<seeds, mixedAt, creditAt>>
  BY ONLY <1>2, getrandom(len), Zenon DEF getrandom
<1>4. CASE ShouldReinit
  <2>1. PICK seed, e, p : /\ seed = blake2s_finish(entropy_pool)
                          /\ e = global_entropy_estimate % Estimate63 /\ p = Rekey(seed)
    OBVIOUS
  <2>2. PICK r : r = [state |-> seed, inited |-> TRUE, entropy_estimate |-> e]
    OBVIOUS
  <2>3. ensured = [rng |-> r, pool |-> p]
    BY ONLY <1>2, <1>4, <2>1, <2>2, Zenon DEF ensure_hart_local_rng
  <2>4. ensured.rng = r /\ ensured.pool = p
    BY ONLY <2>3
  <2>5. state = seed
    BY ONLY <1>2, <2>2, <2>4
  <2>6. PICK n : n = NextState(seed)
    OBVIOUS
  <2>7. [r EXCEPT !.state = n] = [state |-> n, inited |-> TRUE, entropy_estimate |-> e]
    <3>1. PICK y : y = TRUE
      OBVIOUS
    <3>2. r = [state |-> seed, inited |-> y, entropy_estimate |-> e]
      BY ONLY <2>2, <3>1
    <3>3. [r EXCEPT !.state = n] = [state |-> n, inited |-> y, entropy_estimate |-> e]
      BY ONLY <3>2
    <3> QED BY ONLY <3>1, <3>3
  <2>8. rng' = [state |-> NextState(seed), inited |-> TRUE,
               entropy_estimate |-> global_entropy_estimate % Estimate63]
    BY ONLY <1>3, <2>1, <2>4, <2>5, <2>6, <2>7
  <2>9. entropy_pool' = Rekey(seed)
    BY ONLY <1>3, <2>1, <2>4
  <2>10. /\ drawn' = drawn \o chacha20_keystream(Half("hi", seed, 0), len)
         /\ seeds' = Append(seeds, seed)
         /\ mixedAt' = mixed /\ creditAt' = global_entropy_estimate
    BY ONLY <1>3, <1>4, <2>5
  <2> QED BY ONLY <1>1, <1>4, <2>1, <2>8, <2>9, <2>10 DEF Reseeds
<1>5. CASE ~ShouldReinit
  <2>1. ensured = [rng |-> rng, pool |-> entropy_pool]
    BY ONLY <1>2, <1>5, Zenon DEF ensure_hart_local_rng
  <2>2. ensured.rng = rng /\ ensured.pool = entropy_pool
    BY ONLY <2>1
  <2>3. seeds' = seeds /\ mixedAt' = mixedAt /\ creditAt' = creditAt
    BY ONLY <1>3, <1>5
  <2>4. GoesOn(len)
    BY ONLY <1>2, <1>3, <2>2, <2>3 DEF GoesOn
  <2> QED BY ONLY <1>1, <1>5, <2>4
<1> QED BY <1>4, <1>5

-----------------------------------------------------------------------------
(* The pool is a hasher that was set up with the last seed as the key and  *)
(* has read the bytes since.                                               *)
PoolInv ==
    /\ mixed \in Nat /\ mixedAt \in Nat /\ mixedAt <= mixed /\ IsSeqn(seeds)
    /\ HasRead(entropy_pool, Len(PoolKey(seeds)),
               KeyBlock(PoolKey(seeds)) \o Bytes(mixedAt, mixed - mixedAt))

HashesInv == \A h \in hashes : h.s = Reference(h.key, h.data) /\ h.b = h.s

LEMMA PoolInit == Init => PoolInv /\ HashesInv
<1> SUFFICES ASSUME Init PROVE PoolInv /\ HashesInv
  OBVIOUS
<1>1. PICK e : e = <<>>
  OBVIOUS
<1>2. IsSeqn(e) /\ Len(e) = 0 /\ Len(e) <= BlockLen
  BY ONLY <1>1, NoElements, Constants
<1>3. HasRead(blake2s_init(e), Len(e), KeyBlock(e))
  BY ONLY <1>2, InitLemma
<1>4. IsSeqn(Bytes(0, 2))
  <2>1. 2 \in Nat
    OBVIOUS
  <2> QED BY ONLY <2>1, BytesFacts
<1>5. HasRead(blake2s_update(blake2s_init(e), Bytes(0, 2)), Len(e), KeyBlock(e) \o Bytes(0, 2))
  BY ONLY <1>3, <1>4, UpdateLemma
<1>6. /\ entropy_pool = blake2s_update(blake2s_init(e), Bytes(0, 2))
      /\ mixed = 2 /\ mixedAt = 0 /\ seeds = e /\ hashes = {}
  BY ONLY <1>1, Init DEF Init
<1>7. PoolKey(seeds) = e /\ mixed - mixedAt = 2
  BY ONLY <1>1, <1>6 DEF PoolKey
<1>8. PoolInv
  <2>1. mixed \in Nat /\ mixedAt \in Nat /\ mixedAt <= mixed
    BY ONLY <1>6
  <2>2. HasRead(entropy_pool, Len(PoolKey(seeds)),
                KeyBlock(PoolKey(seeds)) \o Bytes(mixedAt, mixed - mixedAt))
    BY ONLY <1>5, <1>6, <1>7
  <2> QED BY ONLY <1>2, <1>6, <2>1, <2>2 DEF PoolInv
<1>9. HashesInv
  BY ONLY <1>6 DEF HashesInv
<1> QED BY <1>8, <1>9

(* A mix reads more, *)
LEMMA MixPool ==
    ASSUME NEW len, len \in Nat, PoolInv, entropy_pool_mix(len)
    PROVE  PoolInv'
<1>1. /\ entropy_pool' = blake2s_update(entropy_pool, Bytes(mixed, len))
      /\ mixed' = mixed + len /\ seeds' = seeds /\ mixedAt' = mixedAt
  BY ONLY entropy_pool_mix(len) DEF entropy_pool_mix
<1>2. /\ mixed \in Nat /\ mixedAt \in Nat /\ mixedAt <= mixed /\ IsSeqn(seeds)
      /\ HasRead(entropy_pool, Len(PoolKey(seeds)),
                 KeyBlock(PoolKey(seeds)) \o Bytes(mixedAt, mixed - mixedAt))
  BY ONLY PoolInv DEF PoolInv
<1>3. PICK K, c, B : K = PoolKey(seeds) /\ c = Len(K) /\ B = KeyBlock(K)
  OBVIOUS
<1>4. IsSeqn(B)
  <2>1. IsSeqn(K) /\ Len(K) <= BlockLen
    BY ONLY <1>3, PoolKeyFacts
  <2> QED BY ONLY <1>3, <2>1, KeyBlockFacts
<1>5. PICK a, m, n : a = mixedAt /\ m = mixed - mixedAt /\ n = len
  OBVIOUS
<1>6. a \in Nat /\ m \in Nat /\ n \in Nat /\ a + m = mixed /\ mixed' - mixedAt' = m + n
  BY ONLY <1>1, <1>2, <1>5, len \in Nat
<1>7. IsSeqn(Bytes(a, m)) /\ IsSeqn(Bytes(mixed, n))
  BY ONLY <1>6, BytesFacts
<1>8. HasRead(blake2s_update(entropy_pool, Bytes(mixed, n)), c,
              (B \o Bytes(a, m)) \o Bytes(mixed, n))
  BY ONLY <1>2, <1>3, <1>5, <1>7, UpdateLemma
<1>9. (B \o Bytes(a, m)) \o Bytes(mixed, n) = B \o Bytes(a, m + n)
  <2>1. (B \o Bytes(a, m)) \o Bytes(mixed, n) = B \o (Bytes(a, m) \o Bytes(mixed, n))
    BY ONLY <1>4, <1>7, JoinThree
  <2>2. Bytes(a, m) \o Bytes(a + m, n) = Bytes(a, m + n)
    BY ONLY <1>6, BytesJoin
  <2> QED BY ONLY <1>6, <2>1, <2>2
<1>10. HasRead(entropy_pool', Len(PoolKey(seeds')),
               KeyBlock(PoolKey(seeds')) \o Bytes(mixedAt', mixed' - mixedAt'))
  BY ONLY <1>1, <1>3, <1>5, <1>6, <1>8, <1>9
<1>11. mixed' \in Nat /\ mixedAt' \in Nat /\ mixedAt' <= mixed' /\ IsSeqn(seeds')
  BY ONLY <1>1, <1>2, len \in Nat
<1> QED BY ONLY <1>10, <1>11 DEF PoolInv

(* and a seed starts it over. *)
LEMMA ReseedPool ==
    ASSUME NEW len, NEW seed, PoolInv, Reseeds(len, seed), mixed' = mixed
    PROVE  PoolInv'
<1>1. entropy_pool' = Rekey(seed) /\ seeds' = Append(seeds, seed) /\ mixedAt' = mixed
  BY ONLY Reseeds(len, seed) DEF Reseeds
<1>2. mixed \in Nat /\ IsSeqn(seeds)
  BY ONLY PoolInv DEF PoolInv
<1>3. PICK t : t = Append(seeds, seed)
  OBVIOUS
<1>4. IsSeqn(t) /\ t # <<>> /\ Last(t) = seed
  <2>1. IsSeqn(t) /\ Len(t) = Len(seeds) + 1 /\ Len(seeds) \in Nat /\ t[Len(seeds) + 1] = seed
    BY ONLY <1>2, <1>3, Appended
  <2>2. Len(t) # 0 /\ t[Len(t)] = seed
    BY ONLY <2>1
  <2> QED BY ONLY <2>1, <2>2, SeqnFacts DEF Last
<1>5. PICK K : K = KeyOf(seed)
  OBVIOUS
<1>6. PoolKey(t) = K
  BY ONLY <1>4, <1>5 DEF PoolKey
<1>7. IsSeqn(K) /\ Len(K) <= BlockLen
  BY ONLY <1>5, KeyFacts, Constants
<1>8. HasRead(blake2s_init(K), Len(K), KeyBlock(K))
  BY ONLY <1>7, InitLemma
<1>9. Bytes(mixed, 0) = <<>>
  <2>1. PICK z : z = Bytes(mixed, 0)
    OBVIOUS
  <2>2. 0 \in Nat
    OBVIOUS
  <2>3. IsSeqn(z) /\ Len(z) = 0
    BY ONLY <2>1, <2>2, BytesFacts
  <2> QED BY ONLY <2>1, <2>3, SeqnFacts
<1>10. KeyBlock(K) \o <<>> = KeyBlock(K)
  BY ONLY <1>7, KeyBlockFacts, JoinNothing
<1>11. mixed' - mixedAt' = 0 /\ mixedAt' = mixed
  BY ONLY <1>1, <1>2, mixed' = mixed
<1>12. entropy_pool' = blake2s_init(K)
  BY ONLY <1>1, <1>5 DEF Rekey
<1>13. PoolKey(seeds') = K
  BY ONLY <1>1, <1>3, <1>6
<1>14. KeyBlock(K) \o Bytes(mixedAt', mixed' - mixedAt') = KeyBlock(K)
  BY ONLY <1>9, <1>10, <1>11
<1>15. HasRead(entropy_pool', Len(PoolKey(seeds')),
               KeyBlock(PoolKey(seeds')) \o Bytes(mixedAt', mixed' - mixedAt'))
  BY ONLY <1>8, <1>12, <1>13, <1>14
<1>16. mixed' \in Nat /\ mixedAt' \in Nat /\ mixedAt' <= mixed' /\ IsSeqn(seeds')
  BY ONLY <1>1, <1>2, <1>3, <1>4, mixed' = mixed
<1> QED BY ONLY <1>15, <1>16 DEF PoolInv

(* The self-tests. *)
LEMMA TestHashes ==
    ASSUME SelfTests
    PROVE  HashesInv'
<1>1. PICK A, B : A = {<<>>, Bytes(0, KeyLen)} /\ B = {Bytes(0, n) : n \in 0..MaxBytes}
  OBVIOUS
<1>2. hashes' = {[key |-> key, data |-> data, s |-> blake2s_hash(key, data),
                  b |-> blake2b_hash(key, data)] : key \in A, data \in B}
  BY ONLY <1>1, SelfTests DEF SelfTests
<1>3. ASSUME NEW h \in hashes' PROVE h.s = Reference(h.key, h.data) /\ h.b = h.s
  <2>1. PICK key \in A, data \in B :
           h = [key |-> key, data |-> data, s |-> blake2s_hash(key, data),
                b |-> blake2b_hash(key, data)]
    BY ONLY <1>2, <1>3
  <2>2. IsSeqn(key) /\ Len(key) <= BlockLen
    <3>1. key = <<>> \/ key = Bytes(0, KeyLen)
      BY ONLY <1>1, <2>1
    <3>2. IsSeqn(Bytes(0, KeyLen)) /\ Len(Bytes(0, KeyLen)) = KeyLen
      BY ONLY Constants, BytesFacts
    <3>3. Len(Bytes(0, KeyLen)) <= BlockLen /\ 0 <= BlockLen
      BY ONLY <3>2, Constants
    <3> QED BY ONLY <3>1, <3>2, <3>3, NoElements
  <2>3. IsSeqn(data)
    <3>1. PICK n \in 0..MaxBytes : data = Bytes(0, n)
      BY ONLY <1>1, <2>1
    <3>2. n \in Nat
      BY ONLY <3>1, Constants
    <3> QED BY ONLY <3>1, <3>2, BytesFacts
  <2>4. PICK s, b : s = blake2s_hash(key, data) /\ b = blake2b_hash(key, data)
    OBVIOUS
  <2>5. s = Reference(key, data) /\ b = Reference(key, data)
    BY ONLY <2>2, <2>3, <2>4, BlakeSLemma, BlakeBLemma
  <2>6. h = [key |-> key, data |-> data, s |-> s, b |-> b]
    BY ONLY <2>1, <2>4
  <2>7. h.key = key /\ h.data = data /\ h.s = s /\ h.b = b
    BY ONLY <2>6
  <2> QED BY ONLY <2>5, <2>7
<1> QED BY ONLY <1>3 DEF HashesInv

LEMMA PoolStep == PoolInv /\ HashesInv /\ [Next]_vars => PoolInv' /\ HashesInv'
<1> SUFFICES ASSUME PoolInv, HashesInv, [Next]_vars PROVE PoolInv' /\ HashesInv'
  OBVIOUS
<1>0. ASSUME entropy_pool' = entropy_pool, seeds' = seeds, mixed' = mixed, mixedAt' = mixedAt
      PROVE  PoolInv'
  BY ONLY <1>0, PoolInv DEF PoolInv
<1>00. ASSUME hashes' = hashes PROVE HashesInv'
  BY ONLY <1>00, HashesInv DEF HashesInv
<1>1. ASSUME NEW bits \in Credits, entropy_pool_credit(bits) PROVE PoolInv' /\ HashesInv'
  <2>1. /\ entropy_pool' = entropy_pool /\ seeds' = seeds /\ mixed' = mixed /\ mixedAt' = mixedAt
        /\ hashes' = hashes
    BY ONLY <1>1 DEF entropy_pool_credit
  <2> QED BY ONLY <1>0, <1>00, <2>1
<1>2. ASSUME NEW len \in MixLens, entropy_pool_mix(len) PROVE PoolInv' /\ HashesInv'
  <2>1. hashes' = hashes
    BY ONLY <1>2 DEF entropy_pool_mix
  <2>2. len \in Nat
    BY ONLY Constants, len \in MixLens
  <2>3. PoolInv'
    BY ONLY <1>2, <2>2, PoolInv, MixPool
  <2> QED BY ONLY <1>00, <2>1, <2>3
<1>3. ASSUME NEW len \in Lens, getrandom(len) PROVE PoolInv' /\ HashesInv'
  <2>1. /\ mixed' = mixed /\ hashes' = hashes
        /\ (\E seed : Reseeds(len, seed)) \/ GoesOn(len)
    BY ONLY <1>3, Draw
  <2>2. CASE \E seed : Reseeds(len, seed)
    <3>1. PICK seed : Reseeds(len, seed)
      BY ONLY <2>2
    <3>2. PoolInv'
      BY ONLY <2>1, <3>1, PoolInv, ReseedPool
    <3> QED BY ONLY <1>00, <2>1, <3>2
  <2>3. CASE GoesOn(len)
    <3>1. entropy_pool' = entropy_pool /\ seeds' = seeds /\ mixedAt' = mixedAt
      BY ONLY <2>3 DEF GoesOn
    <3> QED BY ONLY <1>0, <1>00, <2>1, <3>1
  <2> QED BY ONLY <2>1, <2>2, <2>3
<1>4. ASSUME SelfTests PROVE PoolInv' /\ HashesInv'
  <2>1. entropy_pool' = entropy_pool /\ seeds' = seeds /\ mixed' = mixed /\ mixedAt' = mixedAt
    BY ONLY <1>4 DEF SelfTests
  <2>2. HashesInv'
    BY ONLY <1>4, TestHashes
  <2> QED BY ONLY <1>0, <2>1, <2>2
<1>5. ASSUME UNCHANGED vars PROVE PoolInv' /\ HashesInv'
  <2>1. /\ entropy_pool' = entropy_pool /\ seeds' = seeds /\ mixed' = mixed /\ mixedAt' = mixedAt
        /\ hashes' = hashes
    BY ONLY <1>5 DEF vars
  <2> QED BY ONLY <1>0, <1>00, <2>1
<1> QED BY <1>1, <1>2, <1>3, <1>4, <1>5 DEF Next

LEMMA PoolHash ==
    ASSUME PoolInv
    PROVE  blake2s_finish(entropy_pool)
           = Reference(PoolKey(seeds), Bytes(mixedAt, mixed - mixedAt))
<1>1. PICK K, d : K = PoolKey(seeds) /\ d = Bytes(mixedAt, mixed - mixedAt)
  OBVIOUS
<1>2. HasRead(entropy_pool, Len(K), KeyBlock(K) \o d)
  BY ONLY <1>1, PoolInv DEF PoolInv
<1>3. blake2s_finish(entropy_pool) = Digest(Len(K), KeyBlock(K) \o d)
  BY ONLY <1>2, FinishLemma
<1> QED BY ONLY <1>1, <1>3, ReferenceIsDigest

(* However the input is divided among the calls and whenever the generator *)
(* is seeded, blake2s_update, blake2s_finish, blake2s_hash and             *)
(* blake2b_hash give the hash that RFC 7693 defines.                       *)
THEOREM HashesTheorem == Spec => []HashesAreRight
<1>1. Init => PoolInv /\ HashesInv
  BY PoolInit
<1>2. PoolInv /\ HashesInv /\ [Next]_vars => PoolInv' /\ HashesInv'
  BY PoolStep
<1>3. PoolInv /\ HashesInv => HashesAreRight
  <2> SUFFICES ASSUME PoolInv, HashesInv PROVE HashesAreRight
    OBVIOUS
  <2>1. blake2s_finish(entropy_pool)
        = Reference(PoolKey(seeds), Bytes(mixedAt, mixed - mixedAt))
    BY ONLY PoolInv, PoolHash
  <2>2. \A h \in hashes : h.s = Reference(h.key, h.data) /\ h.b = h.s
    BY ONLY HashesInv DEF HashesInv
  <2> QED BY ONLY <2>1, <2>2, Zenon DEF HashesAreRight, PoolKey
<1> QED BY <1>1, <1>2, <1>3, PTL DEF Spec

-----------------------------------------------------------------------------
(* The generator and the credits: the estimate that the generator keeps is *)
(* the credit at the last seed, cut to 63 bits.                            *)
RngForm(r) == \E s, o, e : r = [state |-> s, inited |-> o, entropy_estimate |-> e]

CreditInv ==
    /\ RngForm(rng)
    /\ rng.inited <=> seeds # <<>>
    /\ rng.entropy_estimate = creditAt % Estimate63
    /\ global_entropy_estimate \in Nat /\ creditAt \in Nat /\ creditDrawn \in Nat
    /\ seeds # <<>> => /\ creditDrawn - creditAt <= Threshold
                       /\ creditDrawn > 0 => creditAt > 0

LEMMA CreditInit == Init => CreditInv
<1> SUFFICES ASSUME Init PROVE CreditInv
  OBVIOUS
<1>1. /\ rng = [state |-> NULL, inited |-> FALSE, entropy_estimate |-> 0] /\ seeds = <<>>
      /\ global_entropy_estimate = 0 /\ creditAt = 0 /\ creditDrawn = 0
  BY ONLY Init DEF Init
<1>2. RngForm(rng) /\ ~rng.inited /\ rng.entropy_estimate = 0
  BY ONLY <1>1 DEF RngForm
<1>3. 0 % Estimate63 = 0
  BY ONLY Constants
<1> QED BY ONLY <1>1, <1>2, <1>3 DEF CreditInv

LEMMA GoOn ==
    ASSUME NEW len, RngForm(rng), GoesOn(len)
    PROVE  /\ RngForm(rng') /\ rng'.inited = rng.inited
           /\ rng'.entropy_estimate = rng.entropy_estimate
           /\ rng'.state = NextState(rng.state)
<1>1. PICK s, o, e : rng = [state |-> s, inited |-> o, entropy_estimate |-> e]
  BY DEF RngForm
<1>2. PICK n : n = NextState(rng.state)
  OBVIOUS
<1>3. rng' = [rng EXCEPT !.state = n]
  BY ONLY <1>2, GoesOn(len) DEF GoesOn
<1>4. rng' = [state |-> n, inited |-> o, entropy_estimate |-> e]
  BY ONLY <1>1, <1>3
<1>5. RngForm(rng')
  BY ONLY <1>4 DEF RngForm
<1>6. rng'.state = n /\ rng'.inited = o /\ rng'.entropy_estimate = e
  BY ONLY <1>4
<1>7. rng.inited = o /\ rng.entropy_estimate = e
  BY ONLY <1>1
<1> QED BY ONLY <1>2, <1>5, <1>6, <1>7

LEMMA Reseed ==
    ASSUME NEW len, NEW seed, Reseeds(len, seed)
    PROVE  /\ RngForm(rng') /\ rng'.inited
           /\ rng'.entropy_estimate = global_entropy_estimate % Estimate63
           /\ rng'.state = NextState(seed)
<1>1. PICK n, e, o : /\ n = NextState(seed) /\ e = global_entropy_estimate % Estimate63
                     /\ o = TRUE
  OBVIOUS
<1>2. rng' = [state |-> n, inited |-> o, entropy_estimate |-> e]
  BY ONLY <1>1, Reseeds(len, seed) DEF Reseeds
<1>3. RngForm(rng')
  BY ONLY <1>2 DEF RngForm
<1>4. rng'.state = n /\ rng'.inited = o /\ rng'.entropy_estimate = e
  BY ONLY <1>2
<1> QED BY ONLY <1>1, <1>3, <1>4

LEMMA DrawCredit ==
    ASSUME NEW len, CreditInv, PoolInv, getrandom(len)
    PROVE  CreditInv'
<1>1. /\ RngForm(rng) /\ (rng.inited <=> seeds # <<>>)
      /\ rng.entropy_estimate = creditAt % Estimate63
      /\ global_entropy_estimate \in Nat /\ creditAt \in Nat
  BY ONLY CreditInv DEF CreditInv
<1>2. /\ creditDrawn' = global_entropy_estimate
      /\ global_entropy_estimate' = global_entropy_estimate
      /\ (ShouldReinit /\ \E seed : Reseeds(len, seed)) \/ (~ShouldReinit /\ GoesOn(len))
  BY ONLY getrandom(len), Draw
<1>3. CASE \E seed : Reseeds(len, seed)
  <2>1. PICK seed : Reseeds(len, seed)
    BY ONLY <1>3
  <2>2. /\ RngForm(rng') /\ rng'.inited
        /\ rng'.entropy_estimate = global_entropy_estimate % Estimate63
    BY ONLY <2>1, Reseed
  <2>3. seeds' = Append(seeds, seed) /\ creditAt' = global_entropy_estimate
    BY ONLY <2>1 DEF Reseeds
  <2>4. seeds' # <<>>
    <3>1. IsSeqn(seeds)
      BY ONLY PoolInv DEF PoolInv
    <3>2. PICK t : t = Append(seeds, seed)
      OBVIOUS
    <3>3. IsSeqn(t) /\ Len(t) = Len(seeds) + 1 /\ Len(seeds) \in Nat
      BY ONLY <3>1, <3>2, Appended
    <3>4. Len(t) # 0
      BY ONLY <3>3
    <3> QED BY ONLY <2>3, <3>2, <3>3, <3>4, SeqnFacts
  <2>5. creditDrawn' - creditAt' <= Threshold /\ (creditDrawn' > 0 => creditAt' > 0)
    BY ONLY <1>1, <1>2, <2>3, Constants
  <2>6. rng'.inited <=> seeds' # <<>>
    BY ONLY <2>2, <2>4
  <2> QED BY ONLY <1>1, <1>2, <2>2, <2>3, <2>5, <2>6 DEF CreditInv
<1>4. CASE ~ShouldReinit /\ GoesOn(len)
  <2>1. /\ RngForm(rng') /\ rng'.inited = rng.inited
        /\ rng'.entropy_estimate = rng.entropy_estimate
    BY ONLY <1>1, <1>4, GoOn
  <2>2. seeds' = seeds /\ creditAt' = creditAt
    BY ONLY <1>4 DEF GoesOn
  <2>3. PICK e, g, c : e = rng.entropy_estimate /\ g = global_entropy_estimate /\ c = creditAt
    OBVIOUS
  <2>4. ~(e = 0 /\ g # 0) /\ ~(g - e > Threshold)
    BY ONLY <1>4, <2>3 DEF ShouldReinit
  <2>5. e \in Nat /\ e <= c /\ g \in Nat /\ c \in Nat
    <3>1. Estimate63 \in Nat /\ Estimate63 > 0
      BY ONLY Constants
    <3>2. c % Estimate63 \in Nat /\ c % Estimate63 <= c
      <4>1. PICK E, q, r : E = Estimate63 /\ q = c \div E /\ r = c % E
        OBVIOUS
      <4>2. c \in Nat
        BY ONLY <1>1, <2>3
      <4>3. q \in Nat /\ r \in Nat /\ c = E * q + r
        BY ONLY <3>1, <4>1, <4>2
      <4>4. E * q \in Nat
        BY ONLY <3>1, <4>1, <4>3
      <4> QED BY ONLY <4>1, <4>2, <4>3, <4>4
    <3> QED BY ONLY <1>1, <2>3, <3>2
  <2>6. g - c <= Threshold /\ (g > 0 => c > 0)
    BY ONLY <2>4, <2>5, Constants
  <2>7. creditDrawn' - creditAt' <= Threshold /\ (creditDrawn' > 0 => creditAt' > 0)
    BY ONLY <1>2, <2>2, <2>3, <2>6
  <2>8. /\ rng'.inited <=> seeds' # <<>>
        /\ rng'.entropy_estimate = creditAt' % Estimate63
    BY ONLY <1>1, <2>1, <2>2
  <2> QED BY ONLY <1>1, <1>2, <2>1, <2>2, <2>7, <2>8 DEF CreditInv
<1> QED BY ONLY <1>2, <1>3, <1>4

LEMMA CreditStep == CreditInv /\ PoolInv /\ [Next]_vars => CreditInv'
<1> SUFFICES ASSUME CreditInv, PoolInv, [Next]_vars PROVE CreditInv'
  OBVIOUS
<1>0. ASSUME rng' = rng, seeds' = seeds, creditAt' = creditAt, creditDrawn' = creditDrawn,
             global_entropy_estimate' \in Nat
      PROVE  CreditInv'
  BY ONLY <1>0, CreditInv DEF CreditInv
<1>00. global_entropy_estimate \in Nat
  BY ONLY CreditInv DEF CreditInv
<1>1. ASSUME NEW bits \in Credits, entropy_pool_credit(bits) PROVE CreditInv'
  <2>1. /\ rng' = rng /\ seeds' = seeds /\ creditAt' = creditAt /\ creditDrawn' = creditDrawn
        /\ global_entropy_estimate' = global_entropy_estimate + bits
    BY ONLY <1>1 DEF entropy_pool_credit
  <2>2. bits \in Nat
    BY ONLY bits \in Credits, Constants
  <2>3. global_entropy_estimate' \in Nat
    BY ONLY <1>00, <2>1, <2>2
  <2> QED BY ONLY <1>0, <2>1, <2>3
<1>2. ASSUME NEW len \in MixLens, entropy_pool_mix(len) PROVE CreditInv'
  <2>1. /\ rng' = rng /\ seeds' = seeds /\ creditAt' = creditAt /\ creditDrawn' = creditDrawn
        /\ global_entropy_estimate' = global_entropy_estimate
    BY ONLY <1>2 DEF entropy_pool_mix
  <2> QED BY ONLY <1>0, <1>00, <2>1
<1>3. ASSUME NEW len \in Lens, getrandom(len) PROVE CreditInv'
  BY ONLY <1>3, CreditInv, PoolInv, DrawCredit
<1>4. ASSUME SelfTests PROVE CreditInv'
  <2>1. /\ rng' = rng /\ seeds' = seeds /\ creditAt' = creditAt /\ creditDrawn' = creditDrawn
        /\ global_entropy_estimate' = global_entropy_estimate
    BY ONLY <1>4 DEF SelfTests
  <2> QED BY ONLY <1>0, <1>00, <2>1
<1>5. ASSUME UNCHANGED vars PROVE CreditInv'
  <2>1. /\ rng' = rng /\ seeds' = seeds /\ creditAt' = creditAt /\ creditDrawn' = creditDrawn
        /\ global_entropy_estimate' = global_entropy_estimate
    BY ONLY <1>5 DEF vars
  <2> QED BY ONLY <1>0, <1>00, <2>1
<1> QED BY <1>1, <1>2, <1>3, <1>4, <1>5 DEF Next

-----------------------------------------------------------------------------
(* Every seed is the hash of the bytes from u[i - 1] to u[i], under the    *)
(* seed before it.                                                         *)
PrevKey(s, i) == IF i = 1 THEN <<>> ELSE KeyOf(s[i - 1])

Made(s, u, i) ==
    u[i - 1] <= u[i] /\ s[i] = Reference(PrevKey(s, i), Bytes(u[i - 1], u[i] - u[i - 1]))

SeedChain(s, u, m) ==
    /\ u[0] = 0 /\ u[Len(s)] = m /\ \A i \in 0..Len(s) : u[i] \in Nat
    /\ \A i \in 1..Len(s) : Made(s, u, i)

SeedsInv == \E u : SeedChain(seeds, u, mixedAt)

LEMMA SeedsInit == Init => SeedsInv
<1> SUFFICES ASSUME Init PROVE SeedsInv
  OBVIOUS
<1>1. seeds = <<>> /\ mixedAt = 0
  BY ONLY Init DEF Init
<1>2. PICK u : u = [i \in {0} |-> 0]
  OBVIOUS
<1>3. u[0] = 0
  BY ONLY <1>2
<1>4. Len(seeds) = 0
  BY ONLY <1>1, NoElements
<1>5. /\ u[Len(seeds)] = mixedAt /\ \A i \in 0..Len(seeds) : u[i] \in Nat
  BY ONLY <1>1, <1>3, <1>4
<1>6. \A i \in 1..Len(seeds) : Made(seeds, u, i)
  BY ONLY <1>4
<1> QED BY ONLY <1>3, <1>5, <1>6 DEF SeedsInv, SeedChain

(* One more seed. *)
LEMMA ChainGrows ==
    ASSUME NEW s, NEW u, NEW m, NEW n, NEW e, IsSeqn(s), SeedChain(s, u, m), m \in Nat,
           n \in Nat, m <= n, e = Reference(PoolKey(s), Bytes(m, n - m))
    PROVE  \E v : SeedChain(Append(s, e), v, n)
<1>1. PICK t, L : t = Append(s, e) /\ L = Len(s)
  OBVIOUS
<1>2. /\ IsSeqn(t) /\ Len(t) = L + 1 /\ L \in Nat
      /\ \A i \in 1..L : t[i] = s[i]
      /\ t[L + 1] = e
  BY ONLY <1>1, IsSeqn(s), Appended
<1>3. /\ u[0] = 0 /\ u[L] = m /\ \A i \in 0..L : u[i] \in Nat
      /\ \A i \in 1..L : Made(s, u, i)
  BY ONLY <1>1, SeedChain(s, u, m) DEF SeedChain
<1>4. PICK v : v = [i \in 0..(L + 1) |-> IF i <= L THEN u[i] ELSE n]
  OBVIOUS
<1>5. (\A i \in 0..L : v[i] = u[i]) /\ v[L + 1] = n
  <2>1. \A i \in 0..L : i \in 0..(L + 1) /\ i <= L
    BY ONLY <1>2
  <2>2. L + 1 \in 0..(L + 1) /\ ~(L + 1 <= L)
    BY ONLY <1>2
  <2> QED BY ONLY <1>4, <2>1, <2>2
<1>6. v[0] = 0
  BY ONLY <1>2, <1>3, <1>5
<1>7. \A i \in 0..(L + 1) : v[i] \in Nat
  <2>1. \A i \in 0..(L + 1) : i \in 0..L \/ i = L + 1
    BY ONLY <1>2
  <2> QED BY ONLY <1>3, <1>5, <2>1, n \in Nat
<1>8. ASSUME NEW i \in 1..L PROVE Made(t, v, i)
  <2>1. i \in 0..L /\ i - 1 \in 0..L /\ (i = 1 \/ i - 1 \in 1..L)
    BY ONLY <1>2, i \in 1..L
  <2>2. v[i] = u[i] /\ v[i - 1] = u[i - 1] /\ t[i] = s[i]
    BY ONLY <1>2, <1>5, <2>1, i \in 1..L
  <2>3. PrevKey(t, i) = PrevKey(s, i)
    <3>1. CASE i = 1
      BY ONLY <3>1 DEF PrevKey
    <3>2. CASE i # 1
      <4>1. t[i - 1] = s[i - 1]
        BY ONLY <1>2, <2>1, <3>2
      <4> QED BY ONLY <3>2, <4>1 DEF PrevKey
    <3> QED BY <3>1, <3>2
  <2>4. Made(s, u, i)
    BY ONLY <1>3, i \in 1..L
  <2> QED BY ONLY <2>2, <2>3, <2>4 DEF Made
<1>9. Made(t, v, L + 1)
  <2>1. PICK j : j = L + 1
    OBVIOUS
  <2>2. j - 1 = L /\ L \in 0..L
    BY ONLY <1>2, <2>1
  <2>3. v[j - 1] = m /\ v[j] = n /\ t[j] = e
    BY ONLY <1>2, <1>3, <1>5, <2>1, <2>2
  <2>4. PrevKey(t, j) = PoolKey(s)
    <3>1. CASE L = 0
      <4>1. s = <<>> /\ j = 1
        BY ONLY <1>1, <1>2, <2>1, <3>1, IsSeqn(s), SeqnFacts
      <4> QED BY ONLY <4>1 DEF PrevKey, PoolKey
    <3>2. CASE L # 0
      <4>1. s # <<>>
        BY ONLY <1>1, <3>2, IsSeqn(s), SeqnFacts
      <4>2. L \in 1..L /\ j # 1
        BY ONLY <1>2, <2>1, <3>2
      <4>3. t[j - 1] = s[Len(s)]
        BY ONLY <1>1, <1>2, <2>2, <4>2
      <4>4. PoolKey(s) = KeyOf(s[Len(s)])
        BY ONLY <4>1 DEF PoolKey, Last
      <4>5. PrevKey(t, j) = KeyOf(t[j - 1])
        BY ONLY <4>2 DEF PrevKey
      <4> QED BY ONLY <4>3, <4>4, <4>5
    <3> QED BY <3>1, <3>2
  <2>5. Made(t, v, j)
    BY ONLY <2>3, <2>4, m <= n, e = Reference(PoolKey(s), Bytes(m, n - m)) DEF Made
  <2> QED BY ONLY <2>1, <2>5
<1>10. \A i \in 1..Len(t) : Made(t, v, i)
  <2>1. \A i \in 1..Len(t) : i \in 1..L \/ i = L + 1
    BY ONLY <1>2
  <2> QED BY ONLY <1>8, <1>9, <2>1
<1>11. SeedChain(t, v, n)
  BY ONLY <1>2, <1>5, <1>6, <1>7, <1>10 DEF SeedChain
<1> QED BY ONLY <1>1, <1>11

LEMMA ReseedSeeds ==
    ASSUME NEW len, NEW seed, SeedsInv, PoolInv, Reseeds(len, seed)
    PROVE  SeedsInv' /\ seed = Reference(PoolKey(seeds), Bytes(mixedAt, mixed - mixedAt))
<1>1. PICK u : SeedChain(seeds, u, mixedAt)
  BY ONLY SeedsInv DEF SeedsInv
<1>2. mixed \in Nat /\ mixedAt \in Nat /\ mixedAt <= mixed /\ IsSeqn(seeds)
  BY ONLY PoolInv DEF PoolInv
<1>3. seed = blake2s_finish(entropy_pool) /\ seeds' = Append(seeds, seed) /\ mixedAt' = mixed
  BY ONLY Reseeds(len, seed) DEF Reseeds
<1>4. seed = Reference(PoolKey(seeds), Bytes(mixedAt, mixed - mixedAt))
  BY ONLY <1>3, PoolInv, PoolHash
<1>5. PICK v : SeedChain(Append(seeds, seed), v, mixed)
  BY ONLY <1>1, <1>2, <1>4, ChainGrows
<1>6. SeedChain(seeds', v, mixedAt')
  BY ONLY <1>3, <1>5
<1> QED BY ONLY <1>4, <1>6 DEF SeedsInv

LEMMA SeedsStep == SeedsInv /\ PoolInv /\ [Next]_vars => SeedsInv'
<1> SUFFICES ASSUME SeedsInv, PoolInv, [Next]_vars PROVE SeedsInv'
  OBVIOUS
<1>0. ASSUME seeds' = seeds, mixedAt' = mixedAt PROVE SeedsInv'
  BY ONLY <1>0, SeedsInv DEF SeedsInv
<1>1. ASSUME NEW bits \in Credits, entropy_pool_credit(bits) PROVE SeedsInv'
  <2>1. seeds' = seeds /\ mixedAt' = mixedAt
    BY ONLY <1>1 DEF entropy_pool_credit
  <2> QED BY ONLY <1>0, <2>1
<1>2. ASSUME NEW len \in MixLens, entropy_pool_mix(len) PROVE SeedsInv'
  <2>1. seeds' = seeds /\ mixedAt' = mixedAt
    BY ONLY <1>2 DEF entropy_pool_mix
  <2> QED BY ONLY <1>0, <2>1
<1>3. ASSUME NEW len \in Lens, getrandom(len) PROVE SeedsInv'
  <2>1. (\E seed : Reseeds(len, seed)) \/ GoesOn(len)
    BY ONLY <1>3, Draw
  <2>2. CASE \E seed : Reseeds(len, seed)
    BY ONLY <2>2, SeedsInv, PoolInv, ReseedSeeds
  <2>3. CASE GoesOn(len)
    <3>1. seeds' = seeds /\ mixedAt' = mixedAt
      BY ONLY <2>3 DEF GoesOn
    <3> QED BY ONLY <1>0, <3>1
  <2> QED BY ONLY <2>1, <2>2, <2>3
<1>4. ASSUME SelfTests PROVE SeedsInv'
  <2>1. seeds' = seeds /\ mixedAt' = mixedAt
    BY ONLY <1>4 DEF SelfTests
  <2> QED BY ONLY <1>0, <2>1
<1>5. ASSUME UNCHANGED vars PROVE SeedsInv'
  <2>1. seeds' = seeds /\ mixedAt' = mixedAt
    BY ONLY <1>5 DEF vars
  <2> QED BY ONLY <1>0, <2>1
<1> QED BY <1>1, <1>2, <1>3, <1>4, <1>5 DEF Next

-----------------------------------------------------------------------------
(* What a hash was made from can be found in it. *)
Contents(t) == UNION {Range(c.block) : c \in Range(t.state)}

(* The block that has the p-th element, and where it is in the block.      *)
LEMMA BlockOf ==
    ASSUME NEW L, NEW N, NEW p, L \in Nat, L > 0, N = (L + BlockLen - 1) \div BlockLen,
           p \in 1..L
    PROVE  \E k, m, U : /\ k \in 1..N /\ m = (k - 1) * BlockLen
                        /\ U = (IF k < N THEN k * BlockLen ELSE L)
                        /\ m \in Nat /\ U \in Nat /\ m < p /\ p <= U /\ U <= L
                        /\ U - m <= BlockLen
<1>1. PICK b : b = BlockLen /\ b \in Nat /\ b > 0
  BY Constants
<1>2. PICK j, r : j = (p - 1) \div b /\ r = (p - 1) % b
  OBVIOUS
<1>3. j \in Nat /\ r \in 0..(b - 1) /\ p - 1 = b * j + r
  <2>1. PICK y : y = p - 1 /\ y \in Nat
    BY ONLY p \in 1..L, L \in Nat
  <2>2. j = y \div b /\ r = y % b
    BY ONLY <1>2, <2>1
  <2>3. j \in Nat /\ r \in 0..(b - 1) /\ y = b * j + r
    BY ONLY <1>1, <2>1, <2>2
  <2> QED BY ONLY <2>1, <2>3
<1>4. PICK q : q = (L + b - 1) % b
  OBVIOUS
<1>5. N \in Nat /\ q \in 0..(b - 1) /\ L + b - 1 = b * N + q
  BY ONLY <1>1, <1>4, L \in Nat, N = (L + BlockLen - 1) \div BlockLen
<1>6. PICK c, d : c = b * j /\ d = b * N
  OBVIOUS
<1>7. c \in Nat /\ d \in Nat
  BY ONLY <1>1, <1>3, <1>5, <1>6
<1>8. c < p /\ p <= c + b /\ L <= d /\ d < L + b /\ c < d /\ p <= L
  BY ONLY <1>1, <1>3, <1>5, <1>6, <1>7, p \in 1..L, L \in Nat
<1>9. j < N
  <2> SUFFICES ASSUME ~(j < N) PROVE FALSE
    OBVIOUS
  <2>1. j - N \in Nat
    BY ONLY <1>3, <1>5, ~(j < N)
  <2>2. b * (j - N) \in Nat /\ b * (j - N) = b * j - b * N
    BY ONLY <1>1, <1>3, <1>5, <2>1
  <2> QED BY ONLY <1>6, <1>7, <1>8, <2>2
<1>10. PICK k : k = j + 1
  OBVIOUS
<1>11. k \in 1..N /\ k - 1 = j /\ k \in Nat
  BY ONLY <1>3, <1>5, <1>9, <1>10
<1>12. (k - 1) * b = c /\ k * b = c + b
  <2>1. j * b = b * j /\ (j + 1) * b = b * j + b
    BY ONLY <1>1, <1>3
  <2> QED BY ONLY <1>6, <1>10, <1>11, <2>1
<1>13. k < N => c + b <= L
  <2> SUFFICES ASSUME k < N PROVE c + b <= L
    OBVIOUS
  <2>1. N - k - 1 \in Nat
    BY ONLY <1>5, <1>11, k < N
  <2>2. b * (N - k - 1) \in Nat /\ b * (N - k - 1) = b * N - b * k - b
    BY ONLY <1>1, <1>5, <1>11, <2>1
  <2>3. b * k = k * b
    BY ONLY <1>1, <1>11
  <2>4. d - (c + b) - b >= 0
    BY ONLY <1>6, <1>12, <2>2, <2>3
  <2> QED BY ONLY <1>1, <1>7, <1>8, <2>4, L \in Nat
<1>14. k >= N => L <= c + b
  <2> SUFFICES ASSUME k >= N PROVE L <= c + b
    OBVIOUS
  <2>1. k = N
    BY ONLY <1>5, <1>11, k >= N
  <2>2. d = c + b
    <3>1. b * k = k * b
      BY ONLY <1>1, <1>11
    <3> QED BY ONLY <1>6, <1>12, <2>1, <3>1
  <2> QED BY ONLY <1>8, <2>2
<1>15. PICK U : U = IF k < N THEN k * b ELSE L
  OBVIOUS
<1>16. U \in Nat /\ p <= U /\ U <= L /\ U - c <= b
  <2>1. CASE k < N
    <3>1. U = c + b
      BY ONLY <1>12, <1>15, <2>1
    <3> QED BY ONLY <1>1, <1>7, <1>8, <1>13, <2>1, <3>1
  <2>2. CASE k >= N
    <3>1. U = L
      BY ONLY <1>5, <1>11, <1>15, <2>2
    <3> QED BY ONLY <1>1, <1>7, <1>8, <1>14, <2>2, <3>1, L \in Nat
  <2> QED BY ONLY <1>5, <1>11, <2>1, <2>2
<1> QED BY ONLY <1>1, <1>7, <1>8, <1>11, <1>12, <1>15, <1>16

(* e is element i of the k-th block of t. *)
Place(t, k, i, e) ==
    k \in DOMAIN t.state /\ i \in DOMAIN t.state[k].block /\ t.state[k].block[i] = e

(* Where the p-th element of the input is in the hash. *)
Located(t, x, p) ==
    \E k, i : /\ Place(t, k, i, x[p])
              /\ k \in Nat /\ k > 0 /\ i \in Nat /\ i > 0 /\ (k - 1) * BlockLen + i = p

LEMMA InputPlace ==
    ASSUME NEW c, NEW x, NEW p, IsSeqn(x), p \in 1..Len(x)
    PROVE  Located(Digest(c, x), x, p)
<1>1. PICK L, N : L = Len(x) /\ N = Blocks(x)
  OBVIOUS
<1>2. L \in Nat /\ L > 0 /\ p \in 1..L /\ x # <<>>
  <2>1. Len(x) \in Nat /\ (x = <<>> <=> Len(x) = 0)
    BY ONLY IsSeqn(x), SeqnFacts
  <2> QED BY ONLY <1>1, <2>1, p \in 1..Len(x)
<1>3. N = (L + BlockLen - 1) \div BlockLen
  BY ONLY <1>1, <1>2 DEF Blocks
<1>4. PICK k, m, U : /\ k \in 1..N /\ m = (k - 1) * BlockLen
                     /\ U = (IF k < N THEN k * BlockLen ELSE L)
                     /\ m \in Nat /\ U \in Nat /\ m < p /\ p <= U /\ U <= L
                     /\ U - m <= BlockLen
  BY ONLY <1>2, <1>3, BlockOf
<1>5. Upto(x, N, k) = U
  BY ONLY <1>1, <1>4 DEF Upto
<1>6. PICK s, P : s = SubSeq(x, m + 1, U) /\ P = Padded(s)
  OBVIOUS
<1>7. m \in Nat /\ U \in Nat /\ m <= U /\ U <= Len(x) /\ U - m <= BlockLen
  BY ONLY <1>1, <1>2, <1>4
<1>8. Part(s, x, m, U)
  BY ONLY <1>6, <1>7, IsSeqn(x), SliceIsPart
<1>9. IsSeqn(s) /\ Len(s) = U - m /\ \A i \in 1..(U - m) : s[i] = x[m + i]
  BY ONLY <1>8 DEF Part
<1>10. PICK i : i = p - m
  OBVIOUS
<1>11. i \in 1..(U - m) /\ m + i = p
  BY ONLY <1>2, <1>4, <1>10
<1>12. IsSeqn(P) /\ Len(P) = BlockLen /\ \A j \in 1..Len(s) : P[j] = s[j]
  <2>1. Len(s) <= BlockLen
    BY ONLY <1>7, <1>9
  <2> QED BY ONLY <1>6, <1>9, <2>1, PaddedFacts
<1>13. P[i] = x[p]
  BY ONLY <1>9, <1>11, <1>12
<1>14. i \in DOMAIN P
  <2>1. DOMAIN P = 1..BlockLen
    BY ONLY <1>12, SeqnFacts
  <2>2. i \in 1..BlockLen
    BY ONLY <1>7, <1>11, Constants
  <2> QED BY ONLY <2>1, <2>2
<1>15. PICK e : e = DigestBlock(x, N, k)
  OBVIOUS
<1>16. e = Compression(P, U % Word, U \div Word, k = N)
  BY ONLY <1>4, <1>5, <1>6, <1>15, Zenon DEF DigestBlock
<1>17. e.block = P
  <2>1. PICK lo, hi, f : lo = U % Word /\ hi = U \div Word /\ f = (k = N)
    OBVIOUS
  <2>2. e = [block |-> P, lo |-> lo, hi |-> hi, final |-> f]
    BY ONLY <1>16, <2>1 DEF Compression
  <2> QED BY ONLY <2>2
<1>18. PICK S : S = DigestState(x, N)
  OBVIOUS
<1>19. k \in DOMAIN S /\ S[k] = e
  BY ONLY <1>4, <1>15, <1>18 DEF DigestState
<1>20. PICK t : t = Digest(c, x)
  OBVIOUS
<1>21. t = [keyed |-> c, state |-> S]
  BY ONLY <1>1, <1>18, <1>20 DEF Digest
<1>22. t.state = S
  BY ONLY <1>21
<1>23. Place(t, k, i, x[p])
  BY ONLY <1>13, <1>14, <1>17, <1>19, <1>22 DEF Place
<1>24. k \in Nat /\ k > 0 /\ i \in Nat /\ i > 0
  <2>1. N \in Nat
    BY ONLY <1>2, <1>3, Constants
  <2> QED BY ONLY <1>4, <1>11, <2>1
<1>25. (k - 1) * BlockLen + i = p
  BY ONLY <1>4, <1>11
<1> QED BY ONLY <1>20, <1>23, <1>24, <1>25 DEF Located

LEMMA InputIsContained ==
    ASSUME NEW c, NEW x, NEW p, IsSeqn(x), p \in 1..Len(x)
    PROVE  x[p] \in Contents(Digest(c, x))
<1>1. PICK t, e : t = Digest(c, x) /\ e = x[p]
  OBVIOUS
<1>2. PICK k, i : Place(t, k, i, e)
  <2>1. Located(t, x, p)
    BY ONLY <1>1, IsSeqn(x), p \in 1..Len(x), InputPlace
  <2> QED BY ONLY <1>1, <2>1 DEF Located
<1>3. PICK S, b : S = t.state /\ b = S[k]
  OBVIOUS
<1>4. k \in DOMAIN S /\ i \in DOMAIN b.block /\ b.block[i] = e
  BY ONLY <1>2, <1>3 DEF Place
<1>5. b \in Range(S) /\ e \in Range(b.block)
  BY ONLY <1>3, <1>4 DEF Range
<1>6. e \in Contents(t)
  BY ONLY <1>3, <1>5 DEF Contents
<1> QED BY ONLY <1>1, <1>6

(* The key, and the data. *)
LEMMA KeyIsContained ==
    ASSUME NEW t, NEW data, IsSeqn(data)
    PROVE  <<"key", t, 1>> \in Contents(Reference(KeyOf(t), data))
<1>1. PICK K, P, x : K = KeyOf(t) /\ P = Padded(K) /\ x = P \o data
  OBVIOUS
<1>2. IsSeqn(K) /\ Len(K) = KeyLen /\ K # <<>> /\ K[1] = <<"key", t, 1>>
  BY ONLY <1>1, KeyFacts
<1>3. IsSeqn(P) /\ Len(P) = BlockLen /\ \A i \in 1..Len(K) : P[i] = K[i]
  <2>1. Len(K) <= BlockLen
    BY ONLY <1>2, Constants
  <2> QED BY ONLY <1>1, <1>2, <2>1, PaddedFacts
<1>4. PICK b, D : b = Len(P) /\ D = Len(data)
  OBVIOUS
<1>5. Join(x, P, data, b, D)
  BY ONLY <1>1, <1>3, <1>4, IsSeqn(data), Joined
<1>6. IsSeqn(x) /\ Len(x) = b + D /\ b \in Nat /\ D \in Nat /\ \A i \in 1..b : x[i] = P[i]
  BY ONLY <1>5 DEF Join
<1>7. 1 \in 1..Len(K) /\ 1 \in 1..b /\ 1 \in 1..Len(x)
  BY ONLY <1>2, <1>3, <1>4, <1>6, Constants
<1>8. x[1] = <<"key", t, 1>>
  BY ONLY <1>2, <1>3, <1>6, <1>7
<1>9. KeyBlock(K) = P
  BY ONLY <1>1, <1>2 DEF KeyBlock
<1>10. Reference(K, data) = Digest(Len(K), x)
  BY ONLY <1>1, <1>9, ReferenceIsDigest
<1>11. PICK c : c = Len(K)
  OBVIOUS
<1>12. x[1] \in Contents(Digest(c, x))
  BY ONLY <1>6, <1>7, InputIsContained
<1> QED BY ONLY <1>1, <1>8, <1>10, <1>11, <1>12

LEMMA DataIsContained ==
    ASSUME NEW key, NEW a, NEW n, NEW j, IsSeqn(key), Len(key) <= BlockLen, a \in Nat, n \in Nat,
           j \in 1..n
    PROVE  Byte(a + j) \in Contents(Reference(key, Bytes(a, n)))
<1>1. PICK K, d, x, l : K = KeyBlock(key) /\ d = Bytes(a, n) /\ x = K \o d /\ l = Len(K)
  OBVIOUS
<1>2. IsSeqn(K)
  BY ONLY <1>1, IsSeqn(key), Len(key) <= BlockLen, KeyBlockFacts
<1>3. IsSeqn(d) /\ Len(d) = n /\ \A i \in 1..n : d[i] = Byte(a + i)
  BY ONLY <1>1, n \in Nat, BytesFacts
<1>4. Join(x, K, d, l, n)
  BY ONLY <1>1, <1>2, <1>3, Joined
<1>5. IsSeqn(x) /\ Len(x) = l + n /\ l \in Nat /\ \A i \in 1..n : x[l + i] = d[i]
  BY ONLY <1>4 DEF Join
<1>6. PICK p : p = l + j
  OBVIOUS
<1>7. p \in 1..Len(x)
  BY ONLY <1>5, <1>6, n \in Nat, j \in 1..n
<1>8. x[p] = Byte(a + j)
  BY ONLY <1>3, <1>5, <1>6, j \in 1..n
<1>9. PICK c : c = Len(key)
  OBVIOUS
<1>10. Reference(key, d) = Digest(c, x)
  BY ONLY <1>1, <1>9, ReferenceIsDigest
<1>11. x[p] \in Contents(Digest(c, x))
  BY ONLY <1>5, <1>7, InputIsContained
<1> QED BY ONLY <1>1, <1>8, <1>10, <1>11

-----------------------------------------------------------------------------
(* BytesIn, step by step. *)
TermsIn(ts) == {b[2] : b \in {x \in UNION {Contents(t) : t \in ts} : x[1] = "key"}}

BytesOf(ts) == {b[2] : b \in {x \in UNION {Contents(t) : t \in ts} : x[1] = "byte"}}

Further(c) == c \cup TermsIn(c)

ChainRun(term, N, g) ==
    g[0] = {term} /\ \A k \in 0..(N - 1) : g[k + 1] = Further(g[k])

LEMMA ChainLoop ==
    ASSUME NEW term, NEW N, N = Len(seeds), N \in Nat
    PROVE  \E g : ChainRun(term, N, g) /\ BytesIn(term) = BytesOf(g[N])
<1> DEFINE a == {term}
           Is(f, n) == f = [k \in 0..n |-> IF k = 0 THEN a ELSE Further(f[k - 1])]
           S == {n \in Nat : \E f : Is(f, n)}
<1> HIDE DEF a
<1>1. 0 \in S
  <2>1. PICK f : f = [i \in 0..0 |-> a]
    OBVIOUS
  <2>2. Is(f, 0)
    BY <2>1
  <2> QED BY <2>2
<1>2. ASSUME NEW n \in Nat, n \in S PROVE n + 1 \in S
  <2>1. PICK f : Is(f, n)
    BY <1>2
  <2>2. PICK g : g = [i \in 0..(n + 1) |-> IF i <= n THEN f[i] ELSE Further(f[n])]
    OBVIOUS
  <2>3. ASSUME NEW i \in 0..(n + 1)
        PROVE  g[i] = IF i = 0 THEN a ELSE Further(g[i - 1])
    <3>1. CASE i = 0
      BY <2>1, <2>2, <3>1
    <3>2. CASE i # 0 /\ i <= n
      <4>1. i \in 0..n /\ i - 1 \in 0..(n + 1) /\ i - 1 <= n
        BY <3>2
      <4>2. f[i] = Further(f[i - 1])
        BY <2>1, <3>2, <4>1
      <4>3. g[i] = f[i] /\ g[i - 1] = f[i - 1]
        BY <2>2, <3>2, <4>1
      <4> QED BY <3>2, <4>2, <4>3
    <3>3. CASE i = n + 1
      <4>1. g[i] = Further(f[n]) /\ g[n] = f[n] /\ i - 1 = n /\ i # 0
        BY <2>2, <3>3
      <4> QED BY <4>1
    <3> QED BY <3>1, <3>2, <3>3
  <2>4. Is(g, n + 1)
    BY <2>2, <2>3
  <2> QED BY <2>4
<1>3. N \in S
  <2> HIDE DEF S
  <2> QED BY <1>1, <1>2, SetInduction
<1>4. PICK f : f = CHOOSE x : Is(x, N)
  OBVIOUS
<1>5. Is(f, N)
  BY <1>3, <1>4
<1>6. BytesIn(term) = BytesOf(f[N])
  BY <1>4, Zenon DEF BytesIn, a, BytesOf, Further, TermsIn, Contents
<1>7. f[0] = a
  BY <1>5
<1>8. ASSUME NEW i \in 0..(N - 1) PROVE f[i + 1] = Further(f[i])
  <2>1. i + 1 \in 0..N /\ i + 1 # 0 /\ (i + 1) - 1 = i
    OBVIOUS
  <2> QED BY <1>5, <2>1
<1>9. ChainRun(term, N, f)
  BY <1>7, <1>8 DEF a, ChainRun
<1> QED BY <1>6, <1>9

(* Every seed is reached from the last. *)
LEMMA SeedsAreReached ==
    ASSUME NEW s, NEW u, NEW m, NEW g, NEW N, IsSeqn(s), SeedChain(s, u, m), N = Len(s), N > 0,
           ChainRun(s[N], N, g)
    PROVE  \A j \in 1..N : s[j] \in g[N]
<1>0. N \in Nat
  BY ONLY IsSeqn(s), N = Len(s), SeqnFacts
<1>00. g[0] = {s[N]} /\ \A k \in 0..(N - 1) : g[k + 1] = Further(g[k])
  BY ONLY ChainRun(s[N], N, g) DEF ChainRun
<1> DEFINE P(k) == \A j \in 1..N : j >= N - k => s[j] \in g[k]
           S == {k \in Nat : k <= N => P(k)}
<1>1. 0 \in S
  <2>1. ASSUME NEW j \in 1..N, j >= N - 0 PROVE s[j] \in g[0]
    <3>1. j = N
      BY ONLY <1>0, <2>1
    <3> QED BY ONLY <1>00, <3>1
  <2> QED BY ONLY <2>1
<1>2. ASSUME NEW k \in Nat, k \in S PROVE k + 1 \in S
  <2> SUFFICES ASSUME k + 1 <= N PROVE P(k + 1)
    <3> HIDE DEF P
    <3> QED OBVIOUS
  <2> SUFFICES ASSUME NEW j \in 1..N, j >= N - (k + 1) PROVE s[j] \in g[k + 1]
    OBVIOUS
  <2>1. k <= N /\ k \in 0..(N - 1)
    BY ONLY <1>0, k + 1 <= N, k \in Nat
  <2>2. P(k)
    BY ONLY <2>1, k \in S
  <2>3. g[k + 1] = Further(g[k])
    BY ONLY <1>00, <2>1
  <2>4. PICK G : G = g[k]
    OBVIOUS
  <2>5. CASE j >= N - k
    <3>1. s[j] \in G
      BY ONLY <2>2, <2>4, <2>5, j \in 1..N
    <3> QED BY ONLY <2>3, <2>4, <3>1 DEF Further
  <2>6. CASE ~(j >= N - k)
    <3>1. PICK i : i = j + 1 /\ i \in 1..N /\ i >= N - k /\ i - 1 = j /\ i # 1
      <4>1. j + 1 \in 1..N /\ j + 1 >= N - k /\ (j + 1) - 1 = j /\ j + 1 # 1
        BY ONLY <1>0, <2>6, j \in 1..N, j >= N - (k + 1), k \in Nat, k + 1 <= N
      <4> QED BY ONLY <4>1
    <3>2. PICK t : t = s[i] /\ t \in G
      BY ONLY <2>2, <2>4, <3>1
    <3>3. Made(s, u, i)
      BY ONLY <3>1, SeedChain(s, u, m), N = Len(s) DEF SeedChain
    <3>4. PICK a, c : a = u[i - 1] /\ c = u[i] - u[i - 1]
      OBVIOUS
    <3>5. t = Reference(PrevKey(s, i), Bytes(a, c)) /\ u[i - 1] <= u[i]
      BY ONLY <3>2, <3>3, <3>4 DEF Made
    <3>6. PrevKey(s, i) = KeyOf(s[j])
      BY ONLY <3>1 DEF PrevKey
    <3>7. c \in Nat
      <4>1. i \in 0..Len(s) /\ i - 1 \in 0..Len(s)
        BY ONLY <1>0, <3>1, N = Len(s)
      <4>2. u[i] \in Nat /\ u[i - 1] \in Nat
        BY ONLY <4>1, SeedChain(s, u, m) DEF SeedChain
      <4> QED BY ONLY <3>4, <3>5, <4>2
    <3>8. IsSeqn(Bytes(a, c))
      BY ONLY <3>7, BytesFacts
    <3>9. PICK r, e : r = s[j] /\ e = <<"key", r, 1>>
      OBVIOUS
    <3>10. e \in Contents(t)
      BY ONLY <3>5, <3>6, <3>8, <3>9, KeyIsContained
    <3>11. e[1] = "key" /\ e[2] = r
      BY ONLY <3>9
    <3>12. e \in {x \in UNION {Contents(y) : y \in G} : x[1] = "key"}
      BY ONLY <3>2, <3>10, <3>11
    <3>13. r \in TermsIn(G)
      BY ONLY <3>11, <3>12 DEF TermsIn
    <3> QED BY ONLY <2>3, <2>4, <3>9, <3>13 DEF Further
  <2> QED BY ONLY <2>5, <2>6
<1>3. N \in S
  <2> HIDE DEF S
  <2> QED BY ONLY <1>0, <1>1, <1>2, SetInduction
<1>4. P(N)
  BY ONLY <1>0, <1>3
<1>5. \A j \in 1..N : j >= N - N
  BY ONLY <1>0
<1> QED BY ONLY <1>4, <1>5

(* Every byte went into one of the seeds. *)
LEMMA ByteOfSeed ==
    ASSUME NEW s, NEW u, NEW m, NEW n, NEW N, SeedChain(s, u, m), N = Len(s), N \in Nat,
           n \in Nat, n > 0, n <= m
    PROVE  \E j \in 1..N : u[j - 1] < n /\ n <= u[j]
<1>1. u[0] = 0 /\ u[N] = m /\ \A i \in 0..N : u[i] \in Nat
  BY ONLY SeedChain(s, u, m), N = Len(s) DEF SeedChain
<1> DEFINE Q(j) == u[j - 1] < n /\ n <= u[j]
           P(k) == n <= u[k] => \E j \in 1..k : Q(j)
           S == {k \in Nat : k <= N => P(k)}
<1>2. 0 \in S
  <2>1. ~(n <= u[0])
    BY ONLY <1>1, n \in Nat, n > 0
  <2> HIDE DEF Q
  <2> QED BY ONLY <2>1
<1>3. ASSUME NEW k \in Nat, k \in S PROVE k + 1 \in S
  <2> SUFFICES ASSUME k + 1 <= N PROVE P(k + 1)
    <3> HIDE DEF P
    <3> QED OBVIOUS
  <2> SUFFICES ASSUME n <= u[k + 1] PROVE \E j \in 1..(k + 1) : Q(j)
    OBVIOUS
  <2>1. k <= N /\ k \in 0..N
    BY ONLY k \in Nat, N \in Nat, k + 1 <= N
  <2>2. P(k)
    <3> HIDE DEF Q
    <3> QED BY ONLY <2>1, k \in S
  <2>3. CASE n <= u[k]
    <3>1. PICK j \in 1..k : Q(j)
      BY ONLY <2>2, <2>3
    <3>2. j \in 1..(k + 1)
      BY ONLY <3>1, k \in Nat
    <3> HIDE DEF Q
    <3> QED BY ONLY <3>1, <3>2
  <2>4. CASE ~(n <= u[k])
    <3>1. u[k] \in Nat
      BY ONLY <1>1, <2>1
    <3>2. u[k] < n
      BY ONLY <2>4, <3>1, n \in Nat
    <3>3. (k + 1) - 1 = k /\ k + 1 \in 1..(k + 1)
      BY ONLY k \in Nat
    <3>4. Q(k + 1)
      BY ONLY <3>2, <3>3, n <= u[k + 1]
    <3> HIDE DEF Q
    <3> QED BY ONLY <3>3, <3>4
  <2> QED BY ONLY <2>3, <2>4
<1>4. N \in S
  <2> HIDE DEF S
  <2> QED BY ONLY <1>2, <1>3, N \in Nat, SetInduction
<1>5. P(N)
  <2> HIDE DEF Q
  <2> QED BY ONLY <1>4, N \in Nat
<1> QED BY ONLY <1>1, <1>5, n <= m

LEMMA AllBytesAreIn ==
    ASSUME SeedsInv, PoolInv, seeds # <<>>
    PROVE  1..mixedAt \subseteq BytesIn(Last(seeds))
<1>1. PICK u : SeedChain(seeds, u, mixedAt)
  BY ONLY SeedsInv DEF SeedsInv
<1>2. IsSeqn(seeds) /\ mixedAt \in Nat
  BY ONLY PoolInv DEF PoolInv
<1>3. PICK N : N = Len(seeds) /\ N \in Nat /\ N > 0
  <2>1. Len(seeds) \in Nat /\ Len(seeds) # 0
    BY ONLY <1>2, seeds # <<>>, SeqnFacts
  <2> QED BY ONLY <2>1
<1>4. PICK term : term = seeds[N] /\ term = Last(seeds)
  BY ONLY <1>3 DEF Last
<1>5. PICK g : ChainRun(term, N, g) /\ BytesIn(term) = BytesOf(g[N])
  BY ONLY <1>3, ChainLoop
<1>6. \A j \in 1..N : seeds[j] \in g[N]
  <2>1. PICK s : s = seeds
    OBVIOUS
  <2>2. ChainRun(s[N], N, g)
    BY ONLY <1>4, <1>5, <2>1
  <2>3. IsSeqn(s) /\ SeedChain(s, u, mixedAt) /\ N = Len(s)
    BY ONLY <1>1, <1>2, <1>3, <2>1
  <2>4. \A j \in 1..N : s[j] \in g[N]
    BY ONLY <1>3, <2>2, <2>3, SeedsAreReached
  <2> QED BY ONLY <2>1, <2>4
<1>7. ASSUME NEW n \in 1..mixedAt PROVE n \in BytesOf(g[N])
  <2>1. n \in Nat /\ n > 0 /\ n <= mixedAt
    BY ONLY <1>2, n \in 1..mixedAt
  <2>2. PICK j \in 1..N : u[j - 1] < n /\ n <= u[j]
    <3>1. PICK s, m : s = seeds /\ m = mixedAt
      OBVIOUS
    <3>2. SeedChain(s, u, m) /\ N = Len(s) /\ n <= m
      BY ONLY <1>1, <1>3, <2>1, <3>1
    <3> QED BY ONLY <1>3, <2>1, <3>2, ByteOfSeed
  <2>3. Made(seeds, u, j) /\ u[j - 1] \in Nat /\ u[j] \in Nat
    <3>1. j \in 1..Len(seeds) /\ j \in 0..Len(seeds) /\ j - 1 \in 0..Len(seeds)
      BY ONLY <1>3, j \in 1..N
    <3> QED BY ONLY <1>1, <3>1 DEF SeedChain
  <2>4. PICK a, c, i : a = u[j - 1] /\ c = u[j] - u[j - 1] /\ i = n - a
    OBVIOUS
  <2>5. a \in Nat /\ c \in Nat /\ i \in 1..c /\ a + i = n
    BY ONLY <2>1, <2>2, <2>3, <2>4
  <2>6. PICK K : K = PrevKey(seeds, j)
    OBVIOUS
  <2>7. IsSeqn(K) /\ Len(K) <= BlockLen
    <3>1. CASE j = 1
      <4>1. K = <<>>
        BY ONLY <2>6, <3>1 DEF PrevKey
      <4> QED BY ONLY <4>1, NoElements, Constants
    <3>2. CASE j # 1
      <4>1. K = KeyOf(seeds[j - 1])
        BY ONLY <2>6, <3>2 DEF PrevKey
      <4> QED BY ONLY <4>1, KeyFacts, Constants
    <3> QED BY <3>1, <3>2
  <2>8. PICK t : t = seeds[j]
    OBVIOUS
  <2>9. t = Reference(K, Bytes(a, c))
    BY ONLY <2>3, <2>4, <2>6, <2>8 DEF Made
  <2>10. Byte(a + i) \in Contents(Reference(K, Bytes(a, c)))
    BY ONLY <2>5, <2>7, DataIsContained
  <2>11. PICK e : e = <<"byte", n>>
    OBVIOUS
  <2>12. e \in Contents(t)
    BY ONLY <2>5, <2>9, <2>10, <2>11 DEF Byte
  <2>13. e[1] = "byte" /\ e[2] = n
    BY ONLY <2>11
  <2>14. PICK G : G = g[N]
    OBVIOUS
  <2>15. t \in G
    BY ONLY <1>6, <2>8, <2>14, j \in 1..N
  <2>16. e \in {x \in UNION {Contents(y) : y \in G} : x[1] = "byte"}
    BY ONLY <2>12, <2>13, <2>15
  <2>17. n \in BytesOf(G)
    BY ONLY <2>13, <2>16 DEF BytesOf
  <2> QED BY ONLY <2>14, <2>17
<1> QED BY ONLY <1>4, <1>5, <1>7

(* What getrandom gave last came from a seed that was made from all bytes  *)
(* that were mixed in until then, by way of the seeds before it, and       *)
(* should_reinit lets no more than the threshold of credited bits go by.   *)
THEOREM SeededTheorem == Spec => []DrawsAreSeeded
<1> DEFINE Inv == PoolInv /\ HashesInv /\ CreditInv /\ SeedsInv
<1>1. Init => Inv
  BY PoolInit, CreditInit, SeedsInit
<1>2. Inv /\ [Next]_vars => Inv'
  BY PoolStep, CreditStep, SeedsStep
<1>3. Inv => DrawsAreSeeded
  <2> SUFFICES ASSUME PoolInv, CreditInv, SeedsInv, seeds # <<>>
               PROVE  /\ 1..mixedAt \subseteq BytesIn(Last(seeds))
                      /\ creditDrawn - creditAt <= Threshold
                      /\ creditDrawn > 0 => creditAt > 0
    BY DEF DrawsAreSeeded
  <2>1. 1..mixedAt \subseteq BytesIn(Last(seeds))
    BY ONLY PoolInv, SeedsInv, seeds # <<>>, AllBytesAreIn
  <2>2. creditDrawn - creditAt <= Threshold /\ (creditDrawn > 0 => creditAt > 0)
    BY ONLY CreditInv, seeds # <<>> DEF CreditInv
  <2> QED BY ONLY <2>1, <2>2
<1> QED BY <1>1, <1>2, <1>3, PTL DEF Spec

-----------------------------------------------------------------------------
(* Terms that differ.  A hash is never a half of a block,                  *)
LEMMA HashIsNoHalf ==
    ASSUME NEW key, NEW data, NEW w, NEW t, NEW n
    PROVE  Reference(key, data) # Half(w, t, n)
<1>1. PICK c, S : Reference(key, data) = [keyed |-> c, state |-> S]
  BY ONLY ReferenceIsDigest DEF Digest
<1>2. PICK h : h = Half(w, t, n)
  OBVIOUS
<1>3. h = [half |-> w, key |-> t, count |-> n]
  BY ONLY <1>2 DEF Half
<1>4. "half" \in DOMAIN h
  BY ONLY <1>3
<1>5. PICK r : r = [keyed |-> c, state |-> S]
  OBVIOUS
<1>6. "half" \notin DOMAIN r
  BY ONLY <1>5
<1>7. r # h
  BY ONLY <1>4, <1>6
<1> QED BY ONLY <1>1, <1>2, <1>5, <1>7

(* hashes under different keys differ,                                     *)
LEMMA HashesDiffer ==
    ASSUME NEW a, NEW b, NEW x, NEW y, IsSeqn(x), IsSeqn(y),
           Reference(KeyOf(a), x) = Reference(KeyOf(b), y)
    PROVE  a = b
<1>1. ASSUME NEW t, NEW data, IsSeqn(data)
      PROVE  Place(Reference(KeyOf(t), data), 1, 1, <<"key", t, 1>>)
  <2>1. PICK K, P, z : K = KeyOf(t) /\ P = Padded(K) /\ z = P \o data
    OBVIOUS
  <2>2. IsSeqn(K) /\ Len(K) = KeyLen /\ K # <<>> /\ K[1] = <<"key", t, 1>>
    BY ONLY <2>1, KeyFacts
  <2>3. IsSeqn(P) /\ Len(P) = BlockLen /\ \A i \in 1..Len(K) : P[i] = K[i]
    <3>1. Len(K) <= BlockLen
      BY ONLY <2>2, Constants
    <3> QED BY ONLY <2>1, <2>2, <3>1, PaddedFacts
  <2>4. PICK l, D : l = Len(P) /\ D = Len(data)
    OBVIOUS
  <2>5. Join(z, P, data, l, D)
    BY ONLY <2>1, <2>3, <2>4, <1>1, Joined
  <2>6. IsSeqn(z) /\ Len(z) = l + D /\ l \in Nat /\ D \in Nat /\ \A i \in 1..l : z[i] = P[i]
    BY ONLY <2>5 DEF Join
  <2>7. 1 \in 1..Len(K) /\ 1 \in 1..l /\ 1 \in 1..Len(z)
    BY ONLY <2>2, <2>3, <2>4, <2>6, Constants
  <2>8. PICK e, c : e = <<"key", t, 1>> /\ c = Len(K)
    OBVIOUS
  <2>9. z[1] = e
    BY ONLY <2>2, <2>3, <2>6, <2>7, <2>8
  <2>10. PICK k, i : /\ Place(Digest(c, z), k, i, z[1])
                     /\ k \in Nat /\ k > 0 /\ i \in Nat /\ i > 0 /\ (k - 1) * BlockLen + i = 1
    <3>1. PICK p : p = 1 /\ p \in 1..Len(z)
      BY ONLY <2>7
    <3>2. Located(Digest(c, z), z, p)
      BY ONLY <2>6, <3>1, InputPlace
    <3> QED BY ONLY <3>1, <3>2 DEF Located
  <2>11. k = 1 /\ i = 1
    <3>1. PICK j, m : j = k - 1 /\ m = j * BlockLen
      OBVIOUS
    <3>2. j \in Nat /\ m \in Nat /\ m + i = 1 /\ i \in Nat /\ i > 0
      BY ONLY <2>10, <3>1, Constants
    <3>3. m = 0 /\ i = 1
      BY ONLY <3>2
    <3>4. j = 0
      <4>1. PICK w : w = BlockLen /\ w \in Nat /\ w > 0
        BY ONLY Constants
      <4>2. j # 0 => j * w >= w
        BY ONLY <3>2, <4>1
      <4> QED BY ONLY <3>1, <3>3, <4>1, <4>2
    <3> QED BY ONLY <2>10, <3>1, <3>3, <3>4
  <2>12. KeyBlock(K) = P
    BY ONLY <2>1, <2>2 DEF KeyBlock
  <2>13. Reference(K, data) = Digest(c, z)
    BY ONLY <2>1, <2>8, <2>12, ReferenceIsDigest
  <2> QED BY ONLY <2>1, <2>8, <2>9, <2>10, <2>11, <2>13
<1>2. PICK t, e, f : /\ t = Reference(KeyOf(a), x) /\ t = Reference(KeyOf(b), y)
                     /\ e = <<"key", a, 1>> /\ f = <<"key", b, 1>>
  OBVIOUS
<1>3. Place(t, 1, 1, e) /\ Place(t, 1, 1, f)
  BY ONLY <1>1, <1>2, IsSeqn(x), IsSeqn(y)
<1>4. e = f
  BY ONLY <1>3 DEF Place
<1>5. e[2] = a /\ f[2] = b
  BY ONLY <1>2
<1> QED BY ONLY <1>4, <1>5

(* and one with a key is not one without.                                  *)
LEMMA KeyedDiffer ==
    ASSUME NEW a, NEW x, NEW y
    PROVE  Reference(<<>>, x) # Reference(KeyOf(a), y)
<1>1. PICK S : Reference(<<>>, x) = [keyed |-> Len(<<>>), state |-> S]
  BY ONLY ReferenceIsDigest DEF Digest
<1>2. PICK T : Reference(KeyOf(a), y) = [keyed |-> Len(KeyOf(a)), state |-> T]
  BY ONLY ReferenceIsDigest DEF Digest
<1>3. PICK m, n : m = Len(<<>>) /\ n = Len(KeyOf(a)) /\ m # n
  BY ONLY NoElements, KeyFacts, Constants
<1>4. PICK r, t : r = [keyed |-> m, state |-> S] /\ t = [keyed |-> n, state |-> T]
  OBVIOUS
<1>5. r.keyed = m /\ t.keyed = n
  BY ONLY <1>4
<1> QED BY ONLY <1>1, <1>2, <1>3, <1>4, <1>5

Distinct(s) == \A i \in 1..Len(s) : \A j \in 1..Len(s) : s[i] = s[j] => i = j

LEMMA DistinctIsInjective ==
    ASSUME NEW s, IsSeqn(s), Distinct(s)
    PROVE  IsInjective(s)
<1>1. DOMAIN s = 1..Len(s)
  BY ONLY IsSeqn(s), SeqnFacts
<1> QED BY ONLY <1>1, Distinct(s) DEF Distinct, IsInjective

LEMMA DistinctGrows ==
    ASSUME NEW s, NEW e, IsSeqn(s), Distinct(s), \A i \in 1..Len(s) : s[i] # e
    PROVE  Distinct(Append(s, e))
<1>1. PICK t, L : t = Append(s, e) /\ L = Len(s)
  OBVIOUS
<1>2. /\ Len(t) = L + 1 /\ L \in Nat /\ \A i \in 1..L : t[i] = s[i]
      /\ t[L + 1] = e
  BY ONLY <1>1, IsSeqn(s), Appended
<1>3. \A i \in 1..Len(t) : i \in 1..L \/ i = L + 1
  BY ONLY <1>2
<1>4. /\ \A i \in 1..L : \A j \in 1..L : s[i] = s[j] => i = j
      /\ \A i \in 1..L : s[i] # e
  BY ONLY <1>1, Distinct(s), \A i \in 1..Len(s) : s[i] # e DEF Distinct
<1>5. ASSUME NEW i \in 1..Len(t), NEW j \in 1..Len(t), t[i] = t[j] PROVE i = j
  BY ONLY <1>2, <1>3, <1>4, <1>5
<1>6. Distinct(t)
  BY ONLY <1>5 DEF Distinct
<1> QED BY ONLY <1>1, <1>6

(* A seed is new. *)
LEMMA SeedIsNew ==
    ASSUME NEW s, NEW u, NEW m, NEW n, NEW e, IsSeqn(s), Distinct(s), SeedChain(s, u, m),
           n \in Nat, e = Reference(PoolKey(s), Bytes(m, n))
    PROVE  \A i \in 1..Len(s) : s[i] # e
<1> SUFFICES ASSUME NEW i \in 1..Len(s), s[i] = e PROVE FALSE
  OBVIOUS
<1>1. PICK L : L = Len(s) /\ L \in Nat /\ L > 0 /\ i \in 1..L
  BY ONLY IsSeqn(s), SeqnFacts, i \in 1..Len(s)
<1>2. s # <<>>
  BY ONLY <1>1, IsSeqn(s), SeqnFacts
<1>3. PoolKey(s) = KeyOf(s[L])
  BY ONLY <1>1, <1>2 DEF PoolKey, Last
<1>4. PICK a, c : a = u[i - 1] /\ c = u[i] - u[i - 1]
  OBVIOUS
<1>5. s[i] = Reference(PrevKey(s, i), Bytes(a, c)) /\ u[i - 1] <= u[i]
  <2>1. Made(s, u, i)
    BY ONLY SeedChain(s, u, m), i \in 1..Len(s) DEF SeedChain
  <2> QED BY ONLY <1>4, <2>1 DEF Made
<1>6. c \in Nat
  <2>1. i \in 0..Len(s) /\ i - 1 \in 0..Len(s)
    BY ONLY <1>1
  <2>2. u[i] \in Nat /\ u[i - 1] \in Nat
    BY ONLY <2>1, SeedChain(s, u, m) DEF SeedChain
  <2> QED BY ONLY <1>4, <1>5, <2>2
<1>7. CASE i = 1
  <2>1. PrevKey(s, i) = <<>>
    BY ONLY <1>7 DEF PrevKey
  <2>2. PICK x, y, b : x = Bytes(a, c) /\ y = Bytes(m, n) /\ b = s[L]
    OBVIOUS
  <2>3. Reference(<<>>, x) = Reference(KeyOf(b), y)
    BY ONLY <1>3, <1>5, <2>1, <2>2, s[i] = e, e = Reference(PoolKey(s), Bytes(m, n))
  <2> QED BY ONLY <2>3, KeyedDiffer
<1>8. CASE i # 1
  <2>1. PICK j : j = i - 1 /\ j \in 1..L /\ j # L
    <3>1. i - 1 \in 1..L /\ i - 1 # L
      BY ONLY <1>1, <1>8
    <3> QED BY ONLY <3>1
  <2>2. PICK x, y, b, d : x = Bytes(a, c) /\ y = Bytes(m, n) /\ b = s[L] /\ d = s[j]
    OBVIOUS
  <2>3. PrevKey(s, i) = KeyOf(d)
    BY ONLY <1>8, <2>1, <2>2 DEF PrevKey
  <2>4. Reference(KeyOf(d), x) = Reference(KeyOf(b), y)
    BY ONLY <1>3, <1>5, <2>2, <2>3, s[i] = e, e = Reference(PoolKey(s), Bytes(m, n))
  <2>5. IsSeqn(x) /\ IsSeqn(y)
    BY ONLY <1>6, <2>2, n \in Nat, BytesFacts
  <2>6. d = b
    BY ONLY <2>4, <2>5, HashesDiffer
  <2>7. L \in 1..L
    BY ONLY <1>1
  <2>8. j = L
    BY ONLY <1>1, <2>1, <2>2, <2>6, <2>7, Distinct(s) DEF Distinct
  <2> QED BY ONLY <2>1, <2>8
<1> QED BY <1>7, <1>8

-----------------------------------------------------------------------------
(* The states that the generator has used: each is a seed, or the lower    *)
(* half of the block of the one before.                                    *)
SeedOf(t, s) == \E i \in 1..Len(s) : t = s[i]

Origin(q, s, j) == SeedOf(q[j], s) \/ (j > 1 /\ q[j] = Half("lo", q[j - 1], 0))

Origins(q, s) == \A j \in 1..Len(q) : Origin(q, s, j)

IsHash(t) == \E key, data : t = Reference(key, data)

LEMMA SeedsAreHashes ==
    ASSUME NEW s, NEW u, NEW m, NEW t, SeedChain(s, u, m), SeedOf(t, s)
    PROVE  IsHash(t)
<1>1. PICK i \in 1..Len(s) : t = s[i]
  BY ONLY SeedOf(t, s) DEF SeedOf
<1>2. Made(s, u, i)
  BY ONLY <1>1, SeedChain(s, u, m) DEF SeedChain
<1>3. PICK key, data : s[i] = Reference(key, data)
  BY ONLY <1>2 DEF Made
<1> QED BY ONLY <1>1, <1>3 DEF IsHash

(* The next state was not used before, *)
LEMMA NextIsNew ==
    ASSUME NEW q, NEW s, NEW u, NEW m, NEW L, SeedChain(s, u, m), IsSeqn(q), Distinct(q),
           Origins(q, s), L = Len(q), L > 0
    PROVE  \A j \in 1..L : q[j] # Half("lo", q[L], 0)
<1> SUFFICES ASSUME NEW j \in 1..L, q[j] = Half("lo", q[L], 0) PROVE FALSE
  OBVIOUS
<1>0. L \in Nat /\ L \in 1..L
  BY ONLY IsSeqn(q), L = Len(q), L > 0, SeqnFacts
<1>1. SeedOf(q[j], s) \/ (j > 1 /\ q[j] = Half("lo", q[j - 1], 0))
  BY ONLY Origins(q, s), L = Len(q), j \in 1..L DEF Origins, Origin
<1>2. CASE SeedOf(q[j], s)
  <2>1. PICK t, b, w, n : t = q[j] /\ b = q[L] /\ w = "lo" /\ n = 0
    OBVIOUS
  <2>2. IsHash(t)
    BY ONLY <1>2, <2>1, SeedChain(s, u, m), SeedsAreHashes
  <2>3. PICK key, data : t = Reference(key, data)
    BY ONLY <2>2 DEF IsHash
  <2>4. Reference(key, data) # Half(w, b, n)
    BY ONLY HashIsNoHalf
  <2> QED BY ONLY <2>1, <2>3, <2>4, q[j] = Half("lo", q[L], 0)
<1>3. CASE j > 1 /\ q[j] = Half("lo", q[j - 1], 0)
  <2>1. PICK i : i = j - 1 /\ i \in 1..L /\ i # L
    <3>1. j - 1 \in 1..L /\ j - 1 # L
      BY ONLY <1>0, <1>3, j \in 1..L
    <3> QED BY ONLY <3>1
  <2>2. PICK a, b, w, n : a = q[i] /\ b = q[L] /\ w = "lo" /\ n = 0
    OBVIOUS
  <2>3. Half(w, a, n) = Half(w, b, n)
    BY ONLY <1>3, <2>1, <2>2, q[j] = Half("lo", q[L], 0)
  <2>4. a = b
    <3>1. PICK f, g : f = Half(w, a, n) /\ g = Half(w, b, n)
      OBVIOUS
    <3>2. f.key = a /\ g.key = b
      BY ONLY <3>1 DEF Half
    <3> QED BY ONLY <2>3, <3>1, <3>2
  <2>5. i = L
    BY ONLY <1>0, <2>1, <2>2, <2>4, L = Len(q), Distinct(q) DEF Distinct
  <2> QED BY ONLY <2>1, <2>5
<1> QED BY ONLY <1>1, <1>2, <1>3

(* and neither was a new seed. *)
LEMMA SeedIsNotUsed ==
    ASSUME NEW q, NEW s, NEW e, Origins(q, s), IsHash(e), \A i \in 1..Len(s) : s[i] # e
    PROVE  \A j \in 1..Len(q) : q[j] # e
<1> SUFFICES ASSUME NEW j \in 1..Len(q), q[j] = e PROVE FALSE
  OBVIOUS
<1>1. SeedOf(q[j], s) \/ (j > 1 /\ q[j] = Half("lo", q[j - 1], 0))
  BY ONLY Origins(q, s), j \in 1..Len(q) DEF Origins, Origin
<1>2. ~SeedOf(q[j], s)
  BY ONLY q[j] = e, \A i \in 1..Len(s) : s[i] # e DEF SeedOf
<1>3. PICK key, data : e = Reference(key, data)
  BY ONLY IsHash(e) DEF IsHash
<1>4. PICK b, w, n : b = q[j - 1] /\ w = "lo" /\ n = 0
  OBVIOUS
<1>5. Reference(key, data) # Half(w, b, n)
  BY ONLY HashIsNoHalf
<1> QED BY ONLY <1>1, <1>2, <1>3, <1>4, <1>5, q[j] = e

LEMMA OriginsGrow ==
    ASSUME NEW q, NEW s, NEW r, NEW e, IsSeqn(q), Origins(q, s),
           \A t : SeedOf(t, s) => SeedOf(t, r),
           SeedOf(e, r) \/ (Len(q) > 0 /\ e = Half("lo", q[Len(q)], 0))
    PROVE  Origins(Append(q, e), r)
<1>1. PICK p, L : p = Append(q, e) /\ L = Len(q)
  OBVIOUS
<1>2. /\ Len(p) = L + 1 /\ L \in Nat /\ \A i \in 1..L : p[i] = q[i]
      /\ p[L + 1] = e
  BY ONLY <1>1, IsSeqn(q), Appended
<1>3. ASSUME NEW j \in 1..L PROVE Origin(p, r, j)
  <2>1. SeedOf(q[j], s) \/ (j > 1 /\ q[j] = Half("lo", q[j - 1], 0))
    BY ONLY <1>1, Origins(q, s), j \in 1..L DEF Origins, Origin
  <2>2. p[j] = q[j] /\ (j > 1 => p[j - 1] = q[j - 1])
    <3>1. j > 1 => j - 1 \in 1..L
      BY ONLY <1>2, j \in 1..L
    <3> QED BY ONLY <1>2, <3>1, j \in 1..L
  <2>3. SeedOf(p[j], r) \/ (j > 1 /\ p[j] = Half("lo", p[j - 1], 0))
    BY ONLY <2>1, <2>2, \A t : SeedOf(t, s) => SeedOf(t, r)
  <2> QED BY ONLY <2>3 DEF Origin
<1>4. Origin(p, r, L + 1)
  <2>1. PICK j : j = L + 1 /\ j - 1 = L /\ p[j] = e
    <3>1. (L + 1) - 1 = L
      BY ONLY <1>2
    <3> QED BY ONLY <1>2, <3>1
  <2>2. CASE SeedOf(e, r)
    BY ONLY <2>1, <2>2 DEF Origin
  <2>3. CASE Len(q) > 0 /\ e = Half("lo", q[Len(q)], 0)
    <3>1. L \in 1..L /\ j > 1
      BY ONLY <1>1, <1>2, <2>1, <2>3
    <3>2. p[j - 1] = q[Len(q)]
      BY ONLY <1>1, <1>2, <2>1, <3>1
    <3>3. j > 1 /\ p[j] = Half("lo", p[j - 1], 0)
      BY ONLY <2>1, <2>3, <3>1, <3>2
    <3> QED BY ONLY <2>1, <3>3 DEF Origin
  <2> QED BY ONLY <2>2, <2>3, SeedOf(e, r) \/ (Len(q) > 0 /\ e = Half("lo", q[Len(q)], 0))
<1>5. \A j \in 1..Len(p) : j \in 1..L \/ j = L + 1
  BY ONLY <1>2
<1>6. Origins(p, r)
  BY ONLY <1>3, <1>4, <1>5 DEF Origins
<1> QED BY ONLY <1>1, <1>6

(* A block of the keystream that was made from the state e. *)
BlockFrom(b, e) == \E c : b = [key |-> Half("hi", e, 0), count |-> c]

LEMMA BlockKey ==
    ASSUME NEW b, NEW e, BlockFrom(b, e)
    PROVE  b.key.key = e
<1>1. PICK h : h = Half("hi", e, 0)
  OBVIOUS
<1>2. PICK c : b = [key |-> h, count |-> c]
  BY ONLY <1>1, BlockFrom(b, e) DEF BlockFrom
<1>3. h.key = e
  BY ONLY <1>1 DEF Half
<1>4. b.key = h
  BY ONLY <1>2
<1> QED BY ONLY <1>3, <1>4

LEMMA KeystreamFacts ==
    ASSUME NEW e, NEW len, len \in Nat, len <= BlockLen * Word
    PROVE  LET ks == chacha20_keystream(Half("hi", e, 0), len)
           IN  IsSeqn(ks) /\ Distinct(ks) /\ \A i \in 1..Len(ks) : BlockFrom(ks[i], e)
<1>1. PICK h, ks, b, W : /\ h = Half("hi", e, 0) /\ ks = chacha20_keystream(h, len)
                         /\ b = BlockLen /\ W = Word
  OBVIOUS
<1>2. b \in Nat /\ b > 0 /\ W \in Nat /\ W > 0
  BY ONLY <1>1, Constants
<1>3. PICK n, r : n = (len + b - 1) \div b /\ r = (len + b - 1) % b
  OBVIOUS
<1>4. n \in Nat /\ r \in 0..(b - 1) /\ len + b - 1 = b * n + r
  BY ONLY <1>2, <1>3, len \in Nat
<1>5. n <= W
  <2> SUFFICES ASSUME ~(n <= W) PROVE FALSE
    OBVIOUS
  <2>1. n - W - 1 \in Nat
    BY ONLY <1>2, <1>4, ~(n <= W)
  <2>2. b * (n - W - 1) \in Nat /\ b * (n - W - 1) = b * n - b * W - b
    BY ONLY <1>2, <1>4, <2>1
  <2>3. PICK x, y : x = b * n /\ y = b * W
    OBVIOUS
  <2>4. x \in Nat /\ y \in Nat /\ x - y - b >= 0 /\ len <= y
    <3>1. x \in Nat /\ y \in Nat
      BY ONLY <1>2, <1>4, <2>3
    <3> QED BY ONLY <1>1, <2>2, <2>3, <3>1, len <= BlockLen * Word
  <2>5. len + b - 1 = x + r
    BY ONLY <1>4, <2>3
  <2> QED BY ONLY <1>2, <1>4, <2>4, <2>5, len \in Nat
<1>6. ks = [i \in 1..n |-> [key |-> h, count |-> (i - 1) % W]]
  BY ONLY <1>1, <1>3, Zenon DEF chacha20_keystream
<1>7. IsSeqn(ks) /\ Len(ks) = n
  <2>1. DOMAIN ks = 1..n /\ ks = [i \in DOMAIN ks |-> ks[i]]
    BY ONLY <1>6
  <2> QED BY ONLY <1>4, <2>1, FunctionIsSeqn
<1>8. \A i \in 1..n : ks[i] = [key |-> h, count |-> (i - 1) % W]
  BY ONLY <1>6
<1>9. \A i \in 1..n : (i - 1) % W = i - 1
  <2> SUFFICES ASSUME NEW i \in 1..n PROVE (i - 1) % W = i - 1
    OBVIOUS
  <2>1. PICK j, z : j = i - 1 /\ z = 0
    OBVIOUS
  <2>2. j \in Nat /\ j \in 0..(W - 1) /\ z \in Nat
    BY ONLY <1>2, <1>4, <1>5, <2>1, i \in 1..n
  <2>3. j = W * z + j
    BY ONLY <1>2, <2>1, <2>2
  <2>4. j % W = j
    BY ONLY <1>2, <2>2, <2>3, DivUnique
  <2> QED BY ONLY <2>1, <2>4
<1>10. Distinct(ks)
  <2>1. ASSUME NEW i \in 1..n, NEW j \in 1..n, ks[i] = ks[j] PROVE i = j
    <3>1. PICK c, d, x, y : /\ c = i - 1 /\ d = j - 1 /\ x = ks[i] /\ y = ks[j]
      OBVIOUS
    <3>2. x = [key |-> h, count |-> c] /\ y = [key |-> h, count |-> d]
      BY ONLY <1>8, <1>9, <2>1, <3>1
    <3>3. x.count = c /\ y.count = d
      BY ONLY <3>2
    <3>4. c = d
      BY ONLY <2>1, <3>1, <3>3
    <3> QED BY ONLY <1>4, <2>1, <3>1, <3>4
  <2> QED BY ONLY <1>7, <2>1 DEF Distinct
<1>11. \A i \in 1..Len(ks) : BlockFrom(ks[i], e)
  BY ONLY <1>1, <1>7, <1>8 DEF BlockFrom
<1> QED BY ONLY <1>1, <1>7, <1>10, <1>11

(* The blocks d that were handed out come from the states q. *)
DrawnFrom(d, q) == \A i \in 1..Len(d) : \E j \in 1..Len(q) : BlockFrom(d[i], q[j])

LEMMA DrawnGrows ==
    ASSUME NEW d, NEW q, NEW e, NEW len, IsSeqn(d), IsSeqn(q), Distinct(d), DrawnFrom(d, q),
           \A j \in 1..Len(q) : q[j] # e, len \in Nat, len <= BlockLen * Word
    PROVE  LET f == d \o chacha20_keystream(Half("hi", e, 0), len)
           IN  IsSeqn(f) /\ Distinct(f) /\ DrawnFrom(f, Append(q, e))
<1>1. PICK ks : ks = chacha20_keystream(Half("hi", e, 0), len)
  OBVIOUS
<1>2. IsSeqn(ks) /\ Distinct(ks) /\ \A i \in 1..Len(ks) : BlockFrom(ks[i], e)
  BY ONLY <1>1, len \in Nat, len <= BlockLen * Word, KeystreamFacts
<1>3. PICK f, p, a, n, L : /\ f = d \o ks /\ p = Append(q, e)
                           /\ a = Len(d) /\ n = Len(ks) /\ L = Len(q)
  OBVIOUS
<1>4. Join(f, d, ks, a, n)
  BY ONLY <1>2, <1>3, IsSeqn(d), Joined
<1>5. /\ IsSeqn(f) /\ Len(f) = a + n /\ a \in Nat /\ n \in Nat
      /\ \A i \in 1..a : f[i] = d[i]
      /\ \A i \in 1..n : f[a + i] = ks[i]
  BY ONLY <1>4 DEF Join
<1>6. /\ Len(p) = L + 1 /\ L \in Nat /\ \A i \in 1..L : p[i] = q[i]
      /\ p[L + 1] = e
  BY ONLY <1>3, IsSeqn(q), Appended
<1>7. \A i \in 1..(a + n) : i \in 1..a \/ \E k \in 1..n : i = a + k
  <2> SUFFICES ASSUME NEW i \in 1..(a + n), i \notin 1..a PROVE \E k \in 1..n : i = a + k
    OBVIOUS
  <2>1. i - a \in 1..n /\ i = a + (i - a)
    BY ONLY <1>5, i \in 1..(a + n), i \notin 1..a
  <2> QED BY ONLY <2>1
<1>8. \A i \in 1..a : \E j \in 1..L : BlockFrom(f[i], q[j])
  BY ONLY <1>3, <1>5, DrawnFrom(d, q) DEF DrawnFrom
<1>9. \A i \in 1..n : BlockFrom(f[a + i], e)
  BY ONLY <1>2, <1>3, <1>5
<1>10. ASSUME NEW i \in 1..a, NEW k \in 1..n PROVE f[i] # f[a + k]
  <2>1. PICK j \in 1..L : BlockFrom(f[i], q[j])
    BY ONLY <1>8, i \in 1..a
  <2>2. BlockFrom(f[a + k], e)
    BY ONLY <1>9, k \in 1..n
  <2>3. PICK x, y, t : x = f[i] /\ y = f[a + k] /\ t = q[j]
    OBVIOUS
  <2>4. x.key.key = t /\ y.key.key = e
    BY ONLY <2>1, <2>2, <2>3, BlockKey
  <2>5. t # e
    BY ONLY <1>3, <2>1, <2>3, \A m \in 1..Len(q) : q[m] # e
  <2> QED BY ONLY <2>3, <2>4, <2>5
<1>11. Distinct(f)
  <2>1. ASSUME NEW i \in 1..(a + n), NEW j \in 1..(a + n), f[i] = f[j] PROVE i = j
    <3>1. CASE i \in 1..a /\ j \in 1..a
      BY ONLY <1>3, <1>5, <2>1, <3>1, Distinct(d) DEF Distinct
    <3>2. CASE i \in 1..a /\ \E k \in 1..n : j = a + k
      BY ONLY <1>10, <2>1, <3>2
    <3>3. CASE j \in 1..a /\ \E k \in 1..n : i = a + k
      BY ONLY <1>10, <2>1, <3>3
    <3>4. CASE (\E k \in 1..n : i = a + k) /\ (\E k \in 1..n : j = a + k)
      <4>1. PICK k \in 1..n : i = a + k
        BY ONLY <3>4
      <4>2. PICK m \in 1..n : j = a + m
        BY ONLY <3>4
      <4>3. ks[k] = ks[m]
        BY ONLY <1>5, <2>1, <4>1, <4>2
      <4>4. k = m
        BY ONLY <1>2, <1>3, <4>1, <4>2, <4>3 DEF Distinct
      <4> QED BY ONLY <4>1, <4>2, <4>4
    <3> QED BY ONLY <1>7, <2>1, <3>1, <3>2, <3>3, <3>4
  <2> QED BY ONLY <1>5, <2>1 DEF Distinct
<1>12. DrawnFrom(f, p)
  <2>1. ASSUME NEW i \in 1..(a + n) PROVE \E j \in 1..Len(p) : BlockFrom(f[i], p[j])
    <3>1. CASE i \in 1..a
      <4>1. PICK j \in 1..L : BlockFrom(f[i], q[j])
        BY ONLY <1>8, <3>1
      <4>2. j \in 1..Len(p) /\ p[j] = q[j]
        BY ONLY <1>6, <4>1
      <4> QED BY ONLY <4>1, <4>2
    <3>2. CASE \E k \in 1..n : i = a + k
      <4>1. BlockFrom(f[i], e)
        BY ONLY <1>9, <3>2
      <4>2. L + 1 \in 1..Len(p) /\ p[L + 1] = e
        BY ONLY <1>6
      <4> QED BY ONLY <4>1, <4>2
    <3> QED BY ONLY <1>7, <2>1, <3>1, <3>2
  <2> QED BY ONLY <1>5, <2>1 DEF DrawnFrom
<1> QED BY ONLY <1>1, <1>3, <1>5, <1>11, <1>12

(* The generator has used the states q, and its state is the next.         *)
Uses(q) ==
    /\ IsSeqn(q) /\ Distinct(q) /\ Origins(q, seeds)
    /\ Len(q) > 0 <=> seeds # <<>>
    /\ Len(q) > 0 => rng.state = Half("lo", q[Len(q)], 0)
    /\ DrawnFrom(drawn, q)

DrawInv == /\ IsSeqn(drawn) /\ Distinct(drawn) /\ Distinct(seeds)
           /\ \E q : Uses(q)

LEMMA DrawInit == Init => DrawInv
<1> SUFFICES ASSUME Init PROVE DrawInv
  OBVIOUS
<1>1. PICK e : e = <<>> /\ IsSeqn(e) /\ Len(e) = 0
  BY ONLY NoElements
<1>2. seeds = e /\ drawn = e
  BY ONLY <1>1, Init DEF Init
<1>3. Distinct(e)
  BY ONLY <1>1 DEF Distinct
<1>4. Origins(e, e) /\ DrawnFrom(e, e)
  BY ONLY <1>1 DEF Origins, DrawnFrom
<1>5. ~(Len(e) > 0)
  BY ONLY <1>1
<1>6. Uses(e)
  BY ONLY <1>1, <1>2, <1>3, <1>4, <1>5 DEF Uses
<1> QED BY ONLY <1>1, <1>2, <1>3, <1>6 DEF DrawInv

LEMMA ReseedDraw ==
    ASSUME NEW len, NEW seed, DrawInv, SeedsInv, PoolInv, Reseeds(len, seed), len \in Nat,
           len <= BlockLen * Word
    PROVE  DrawInv'
<1>1. IsSeqn(drawn) /\ Distinct(drawn) /\ Distinct(seeds)
  BY ONLY DrawInv DEF DrawInv
<1>2. PICK q : Uses(q)
  BY ONLY DrawInv DEF DrawInv
<1>3. IsSeqn(q) /\ Distinct(q) /\ Origins(q, seeds) /\ DrawnFrom(drawn, q)
  BY ONLY <1>2 DEF Uses
<1>4. mixed \in Nat /\ mixedAt \in Nat /\ mixedAt <= mixed /\ IsSeqn(seeds)
  BY ONLY PoolInv DEF PoolInv
<1>5. PICK u : SeedChain(seeds, u, mixedAt)
  BY ONLY SeedsInv DEF SeedsInv
<1>6. seed = Reference(PoolKey(seeds), Bytes(mixedAt, mixed - mixedAt))
  BY ONLY SeedsInv, PoolInv, Reseeds(len, seed), ReseedSeeds
<1>7. IsHash(seed)
  BY ONLY <1>6 DEF IsHash
<1>8. PICK s, m, n : s = seeds /\ m = mixedAt /\ n = mixed - mixedAt
  OBVIOUS
<1>9. n \in Nat
  BY ONLY <1>4, <1>8
<1>10. \A i \in 1..Len(s) : s[i] # seed
  <2>1. seed = Reference(PoolKey(s), Bytes(m, n)) /\ SeedChain(s, u, m)
    BY ONLY <1>5, <1>6, <1>8
  <2> QED BY ONLY <1>1, <1>4, <1>8, <1>9, <2>1, SeedIsNew
<1>11. \A j \in 1..Len(q) : q[j] # seed
  BY ONLY <1>3, <1>7, <1>8, <1>10, SeedIsNotUsed
<1>12. PICK r, p, f : /\ r = Append(s, seed) /\ p = Append(q, seed)
                      /\ f = drawn \o chacha20_keystream(Half("hi", seed, 0), len)
  OBVIOUS
<1>13. seeds' = r /\ drawn' = f
  BY ONLY <1>8, <1>12, Reseeds(len, seed) DEF Reseeds
<1>14. rng'.state = NextState(seed)
  BY ONLY Reseeds(len, seed), Reseed
<1>15. IsSeqn(f) /\ Distinct(f) /\ DrawnFrom(f, p)
  BY ONLY <1>1, <1>3, <1>11, <1>12, len \in Nat, len <= BlockLen * Word, DrawnGrows
<1>16. Distinct(r)
  BY ONLY <1>1, <1>4, <1>8, <1>10, <1>12, DistinctGrows
<1>17. Distinct(p)
  BY ONLY <1>3, <1>11, <1>12, DistinctGrows
<1>18. /\ Len(r) = Len(s) + 1 /\ Len(s) \in Nat /\ IsSeqn(r)
       /\ \A i \in 1..Len(s) : r[i] = s[i]
       /\ r[Len(s) + 1] = seed
  BY ONLY <1>4, <1>8, <1>12, Appended
<1>19. \A t : SeedOf(t, s) => SeedOf(t, r)
  <2>1. \A i \in 1..Len(s) : i \in 1..Len(r)
    BY ONLY <1>18
  <2> QED BY ONLY <1>18, <2>1 DEF SeedOf
<1>20. SeedOf(seed, r)
  <2>1. Len(s) + 1 \in 1..Len(r)
    BY ONLY <1>18
  <2> QED BY ONLY <1>18, <2>1 DEF SeedOf
<1>21. Origins(p, r)
  BY ONLY <1>3, <1>8, <1>12, <1>19, <1>20, OriginsGrow
<1>22. IsSeqn(p) /\ Len(p) = Len(q) + 1 /\ Len(q) \in Nat /\ p[Len(q) + 1] = seed
  BY ONLY <1>3, <1>12, Appended
<1>23. Len(p) > 0 /\ p[Len(p)] = seed
  BY ONLY <1>22
<1>24. r # <<>>
  <2>1. Len(r) # 0
    BY ONLY <1>18
  <2> QED BY ONLY <1>18, <2>1, SeqnFacts
<1>25. rng'.state = Half("lo", p[Len(p)], 0)
  BY ONLY <1>14, <1>23 DEF NextState
<1>26. Uses(p)'
  BY ONLY <1>13, <1>15, <1>17, <1>21, <1>22, <1>23, <1>24, <1>25 DEF Uses
<1> QED BY ONLY <1>13, <1>15, <1>16, <1>26 DEF DrawInv

LEMMA GoOnDraw ==
    ASSUME NEW len, DrawInv, SeedsInv, CreditInv, ~ShouldReinit, GoesOn(len), len \in Nat,
           len <= BlockLen * Word
    PROVE  DrawInv'
<1>1. IsSeqn(drawn) /\ Distinct(drawn) /\ Distinct(seeds)
  BY ONLY DrawInv DEF DrawInv
<1>2. PICK q : Uses(q)
  BY ONLY DrawInv DEF DrawInv
<1>3. /\ IsSeqn(q) /\ Distinct(q) /\ Origins(q, seeds) /\ DrawnFrom(drawn, q)
      /\ (Len(q) > 0 <=> seeds # <<>>)
      /\ Len(q) > 0 => rng.state = Half("lo", q[Len(q)], 0)
  BY ONLY <1>2 DEF Uses
<1>4. PICK u : SeedChain(seeds, u, mixedAt)
  BY ONLY SeedsInv DEF SeedsInv
<1>5. seeds # <<>> /\ RngForm(rng)
  <2>1. rng.inited
    BY ONLY ~ShouldReinit DEF ShouldReinit
  <2> QED BY ONLY <2>1, CreditInv DEF CreditInv
<1>6. PICK e, L, s, m : e = rng.state /\ L = Len(q) /\ s = seeds /\ m = mixedAt
  OBVIOUS
<1>7. L > 0 /\ e = Half("lo", q[L], 0)
  BY ONLY <1>3, <1>5, <1>6
<1>8. \A j \in 1..Len(q) : q[j] # e
  <2>1. SeedChain(s, u, m) /\ Origins(q, s)
    BY ONLY <1>3, <1>4, <1>6
  <2>2. \A j \in 1..L : q[j] # Half("lo", q[L], 0)
    BY ONLY <1>3, <1>6, <1>7, <2>1, NextIsNew
  <2> QED BY ONLY <1>6, <1>7, <2>2
<1>9. PICK p, f : p = Append(q, e) /\ f = drawn \o chacha20_keystream(Half("hi", e, 0), len)
  OBVIOUS
<1>10. seeds' = seeds /\ drawn' = f
  BY ONLY <1>6, <1>9, GoesOn(len) DEF GoesOn
<1>11. rng'.state = NextState(e)
  BY ONLY <1>5, <1>6, GoesOn(len), GoOn
<1>12. IsSeqn(f) /\ Distinct(f) /\ DrawnFrom(f, p)
  BY ONLY <1>1, <1>3, <1>8, <1>9, len \in Nat, len <= BlockLen * Word, DrawnGrows
<1>13. Distinct(p)
  BY ONLY <1>3, <1>8, <1>9, DistinctGrows
<1>14. Origins(p, s)
  <2>1. Origins(q, s) /\ \A t : SeedOf(t, s) => SeedOf(t, s)
    BY ONLY <1>3, <1>6
  <2>2. Len(q) > 0 /\ e = Half("lo", q[Len(q)], 0)
    BY ONLY <1>6, <1>7
  <2> QED BY ONLY <1>3, <1>9, <2>1, <2>2, OriginsGrow
<1>15. IsSeqn(p) /\ Len(p) = Len(q) + 1 /\ Len(q) \in Nat /\ p[Len(q) + 1] = e
  BY ONLY <1>3, <1>9, Appended
<1>16. Len(p) > 0 /\ p[Len(p)] = e
  BY ONLY <1>15
<1>17. rng'.state = Half("lo", p[Len(p)], 0)
  BY ONLY <1>11, <1>16 DEF NextState
<1>18. Uses(p)'
  BY ONLY <1>5, <1>6, <1>10, <1>12, <1>13, <1>14, <1>15, <1>16, <1>17 DEF Uses
<1> QED BY ONLY <1>1, <1>10, <1>12, <1>18 DEF DrawInv

LEMMA DrawStep ==
    ASSUME ShortDraws, DrawInv, SeedsInv, CreditInv, PoolInv, [Next]_vars
    PROVE  DrawInv'
<1>0. ASSUME rng' = rng, seeds' = seeds, drawn' = drawn PROVE DrawInv'
  <2>1. IsSeqn(drawn) /\ Distinct(drawn) /\ Distinct(seeds)
    BY ONLY DrawInv DEF DrawInv
  <2>2. PICK q : Uses(q)
    BY ONLY DrawInv DEF DrawInv
  <2>3. Uses(q)'
    BY ONLY <1>0, <2>2 DEF Uses
  <2> QED BY ONLY <1>0, <2>1, <2>3 DEF DrawInv
<1>1. ASSUME NEW bits \in Credits, entropy_pool_credit(bits) PROVE DrawInv'
  <2>1. rng' = rng /\ seeds' = seeds /\ drawn' = drawn
    BY ONLY <1>1 DEF entropy_pool_credit
  <2> QED BY ONLY <1>0, <2>1
<1>2. ASSUME NEW len \in MixLens, entropy_pool_mix(len) PROVE DrawInv'
  <2>1. rng' = rng /\ seeds' = seeds /\ drawn' = drawn
    BY ONLY <1>2 DEF entropy_pool_mix
  <2> QED BY ONLY <1>0, <2>1
<1>3. ASSUME NEW len \in Lens, getrandom(len) PROVE DrawInv'
  <2>1. len \in Nat /\ len <= BlockLen * Word
    BY ONLY <1>3, ShortDraws, Constants DEF ShortDraws
  <2>2. (\E seed : Reseeds(len, seed)) \/ (~ShouldReinit /\ GoesOn(len))
    BY ONLY <1>3, Draw
  <2>3. CASE \E seed : Reseeds(len, seed)
    BY ONLY <2>1, <2>3, DrawInv, SeedsInv, PoolInv, ReseedDraw
  <2>4. CASE ~ShouldReinit /\ GoesOn(len)
    BY ONLY <2>1, <2>4, DrawInv, SeedsInv, CreditInv, GoOnDraw
  <2> QED BY ONLY <2>2, <2>3, <2>4
<1>4. ASSUME SelfTests PROVE DrawInv'
  <2>1. rng' = rng /\ seeds' = seeds /\ drawn' = drawn
    BY ONLY <1>4 DEF SelfTests
  <2> QED BY ONLY <1>0, <2>1
<1>5. ASSUME UNCHANGED vars PROVE DrawInv'
  <2>1. rng' = rng /\ seeds' = seeds /\ drawn' = drawn
    BY ONLY <1>5 DEF vars
  <2> QED BY ONLY <1>0, <2>1
<1> QED BY <1>1, <1>2, <1>3, <1>4, <1>5 DEF Next

LEMMA DrawnOnce ==
    ASSUME DrawInv, SeedsInv, PoolInv
    PROVE  NothingIsDrawnTwice
<1>1. IsSeqn(drawn) /\ Distinct(drawn) /\ Distinct(seeds)
  BY ONLY DrawInv DEF DrawInv
<1>2. IsSeqn(seeds)
  BY ONLY PoolInv DEF PoolInv
<1>3. IsInjective(drawn) /\ IsInjective(seeds)
  BY ONLY <1>1, <1>2, DistinctIsInjective
<1>4. PICK q : Uses(q)
  BY ONLY DrawInv DEF DrawInv
<1>5. /\ IsSeqn(q) /\ Distinct(q) /\ Origins(q, seeds) /\ DrawnFrom(drawn, q)
      /\ Len(q) > 0 => rng.state = Half("lo", q[Len(q)], 0)
  BY ONLY <1>4 DEF Uses
<1>6. PICK u : SeedChain(seeds, u, mixedAt)
  BY ONLY SeedsInv DEF SeedsInv
<1>7. DOMAIN drawn = 1..Len(drawn)
  BY ONLY <1>1, SeqnFacts
<1>8. ASSUME NEW i \in 1..Len(drawn) PROVE drawn[i].key.key # rng.state
  <2>1. PICK j \in 1..Len(q) : BlockFrom(drawn[i], q[j])
    BY ONLY <1>5, <1>8 DEF DrawnFrom
  <2>2. PICK L, s, m : L = Len(q) /\ s = seeds /\ m = mixedAt
    OBVIOUS
  <2>3. L \in Nat /\ L > 0
    BY ONLY <1>5, <2>1, <2>2, SeqnFacts
  <2>4. SeedChain(s, u, m) /\ Origins(q, s)
    BY ONLY <1>5, <1>6, <2>2
  <2>5. \A k \in 1..L : q[k] # Half("lo", q[L], 0)
    BY ONLY <1>5, <2>2, <2>3, <2>4, NextIsNew
  <2>6. rng.state = Half("lo", q[L], 0)
    BY ONLY <1>5, <2>2, <2>3
  <2>7. PICK b, t : b = drawn[i] /\ t = q[j]
    OBVIOUS
  <2>8. b.key.key = t
    BY ONLY <2>1, <2>7, BlockKey
  <2>9. t # rng.state
    BY ONLY <2>1, <2>2, <2>5, <2>6, <2>7
  <2> QED BY ONLY <2>7, <2>8, <2>9
<1> QED BY ONLY <1>3, <1>7, <1>8 DEF NothingIsDrawnTwice

(* If no call asks for more than 2^32 blocks, rng_getrandom hands out no   *)
(* block of the keystream twice, neither from one seed nor from two, and   *)
(* never keeps the state that a block was made from.                       *)
THEOREM DrawnOnceTheorem ==
    ASSUME ShortDraws
    PROVE  Spec => []NothingIsDrawnTwice
<1> DEFINE Inv == PoolInv /\ HashesInv /\ CreditInv /\ SeedsInv /\ DrawInv
<1>1. Init => Inv
  BY PoolInit, CreditInit, SeedsInit, DrawInit
<1>2. Inv /\ [Next]_vars => Inv'
  BY PoolStep, CreditStep, SeedsStep, DrawStep
<1>3. Inv => NothingIsDrawnTwice
  BY DrawnOnce
<1> QED BY <1>1, <1>2, <1>3, PTL DEF Spec
=============================================================================
