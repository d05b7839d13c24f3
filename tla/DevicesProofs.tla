---------------------------- MODULE DevicesProofs ----------------------------
(***************************************************************************)
(* Proofs about the devicetree and the devices, for all structure blocks,  *)
(* reservations and layouts of initializers, and any failures.  There are  *)
(* four invariants:                                                        *)
(*    DtInv       the links of the tree and the objects on the heap;       *)
(*    ReadInv     the tree is that of the tokens that have been read;      *)
(*    DriversInv  the handlers are those of the initializers that ran;     *)
(*    DevicesInv  devicetree_enumerate is on a path from the root, has     *)
(*                left what lies behind it, and the devices, the UARTs,    *)
(*                their objects and the printed lines are those of nodes   *)
(*                that it has left.                                        *)
(***************************************************************************)
EXTENDS Devices, FiniteSetTheorems, NaturalsInduction, WellFoundedInduction,
        SequenceTheorems, TLAPS

(* Induction, over a set of numbers. *)
LEMMA SetInduction ==
    ASSUME NEW S, 0 \in S, \A n \in Nat : n \in S => n + 1 \in S
    PROVE  \A n \in Nat : n \in S
<1> SUFFICES ASSUME NEW n \in Nat, n \notin S PROVE FALSE
  OBVIOUS
<1> DEFINE U == {k \in Nat : k \notin S}
<1>1. n \in U
  OBVIOUS
<1>2. PICK R : R = OpToRel(<, Nat)
  OBVIOUS
<1>3. IsWellFoundedOn(R, Nat)
  BY <1>2, NatLessThanWellFounded
<1>4. \E x \in U : \A y \in U : ~(<<y, x>> \in R)
  <2>1. U \subseteq Nat
    OBVIOUS
  <2> HIDE DEF U
  <2> QED BY <1>1, <1>3, <2>1, WFMin
<1>5. PICK x \in U : \A y \in U : ~(<<y, x>> \in R)
  BY <1>4
<1>6. x # 0 /\ x - 1 \in Nat /\ x - 1 \in U
  OBVIOUS
<1>7. <<x - 1, x>> \in R
  BY <1>2, <1>6 DEF OpToRel
<1> QED BY <1>5, <1>6, <1>7

(* Sequences, of whatever elements. *)
IsSeqn(s) == \E S : s \in Seq(S)

LEMMA SeqnFacts ==
    ASSUME NEW s, IsSeqn(s)
    PROVE  Len(s) \in Nat /\ DOMAIN s = 1..Len(s) /\ (s = <<>> <=> Len(s) = 0)
<1>1. PICK S : s \in Seq(S)
  BY DEF IsSeqn
<1> QED BY <1>1

LEMMA NoElements == IsSeqn(<<>>) /\ Len(<<>>) = 0
<1>1. <<>> \in Seq({})
  OBVIOUS
<1> QED BY <1>1 DEF IsSeqn

LEMMA FunctionIsSeqn ==
    ASSUME NEW f, NEW n, n \in Nat, DOMAIN f = 1..n, f = [i \in DOMAIN f |-> f[i]]
    PROVE  IsSeqn(f) /\ Len(f) = n
<1>1. PICK S : S = {f[i] : i \in 1..n}
  OBVIOUS
<1>2. f \in [1..n -> S]
  BY <1>1
<1>3. f \in Seq(S) /\ Len(f) = n
  BY <1>2
<1> QED BY <1>3 DEF IsSeqn

(* Two of them, over one set. *)
LEMMA BothSeqns ==
    ASSUME NEW s, NEW t, IsSeqn(s), IsSeqn(t)
    PROVE  \E S : s \in Seq(S) /\ t \in Seq(S)
<1>1. PICK A : s \in Seq(A)
  BY DEF IsSeqn
<1>2. PICK B : t \in Seq(B)
  BY DEF IsSeqn
<1>3. PICK S : S = A \cup B
  OBVIOUS
<1>4. s \in Seq(S)
  <2>1. Len(s) \in Nat /\ s \in [1..Len(s) -> A]
    BY ONLY <1>1
  <2>2. s \in [1..Len(s) -> S]
    BY ONLY <1>3, <2>1
  <2> QED BY ONLY <2>1, <2>2
<1>5. t \in Seq(S)
  <2>1. Len(t) \in Nat /\ t \in [1..Len(t) -> B]
    BY ONLY <1>2
  <2>2. t \in [1..Len(t) -> S]
    BY ONLY <1>3, <2>1
  <2> QED BY ONLY <2>1, <2>2
<1> QED BY <1>4, <1>5

LEMMA SeqSame ==
    ASSUME NEW s, NEW t, IsSeqn(s), IsSeqn(t), Len(s) = Len(t), \A i \in 1..Len(s) : s[i] = t[i]
    PROVE  s = t
<1>1. PICK S : s \in Seq(S) /\ t \in Seq(S)
  BY BothSeqns
<1> QED BY <1>1, SeqEqual

(* z is x, of a elements, and y, of b elements. *)
Join(z, x, y, a, b) ==
    /\ IsSeqn(z) /\ Len(z) = a + b /\ a \in Nat /\ b \in Nat
    /\ \A i \in 1..a : z[i] = x[i]
    /\ \A i \in 1..b : z[a + i] = y[i]

LEMMA Joined ==
    ASSUME NEW x, NEW y, IsSeqn(x), IsSeqn(y)
    PROVE  Join(x \o y, x, y, Len(x), Len(y))
<1>1. PICK S : x \in Seq(S) /\ y \in Seq(S)
  BY BothSeqns
<1>2. /\ x \o y \in Seq(S) /\ Len(x \o y) = Len(x) + Len(y)
      /\ Len(x) \in Nat /\ Len(y) \in Nat
      /\ \A i \in 1..Len(x) : (x \o y)[i] = x[i]
      /\ \A i \in 1..Len(y) : (x \o y)[Len(x) + i] = y[i]
  BY ONLY <1>1
<1>3. IsSeqn(x \o y)
  BY ONLY <1>2 DEF IsSeqn
<1> QED BY ONLY <1>2, <1>3 DEF Join

LEMMA Appended ==
    ASSUME NEW s, NEW e, IsSeqn(s)
    PROVE  /\ IsSeqn(Append(s, e)) /\ Len(Append(s, e)) = Len(s) + 1 /\ Len(s) \in Nat
           /\ \A i \in 1..Len(s) : Append(s, e)[i] = s[i]
           /\ Append(s, e)[Len(s) + 1] = e
<1>1. PICK S : s \in Seq(S)
  BY DEF IsSeqn
<1>2. PICK Y : Y = S \cup {e}
  OBVIOUS
<1>3. s \in Seq(Y) /\ e \in Y
  <2>1. Len(s) \in Nat /\ s \in [1..Len(s) -> S]
    BY ONLY <1>1
  <2>2. s \in [1..Len(s) -> Y]
    BY ONLY <1>2, <2>1
  <2> QED BY ONLY <1>2, <2>1, <2>2
<1>4. /\ Append(s, e) \in Seq(Y) /\ Len(Append(s, e)) = Len(s) + 1 /\ Len(s) \in Nat
      /\ \A i \in 1..Len(s) : Append(s, e)[i] = s[i]
      /\ Append(s, e)[Len(s) + 1] = e
  BY ONLY <1>3
<1> QED BY <1>4 DEF IsSeqn

(* The elements of a list, each of them once. *)
In(x, s) == \E i \in 1..Len(s) : s[i] = x
Distinct(s) == \A i \in 1..Len(s) : \A j \in 1..Len(s) : s[i] = s[j] => i = j

LEMMA InRange ==
    ASSUME NEW x, NEW s, IsSeqn(s)
    PROVE  In(x, s) <=> x \in Range(s)
BY SeqnFacts DEF In, Range

LEMMA NoneIn == ASSUME NEW x PROVE ~In(x, <<>>) /\ Distinct(<<>>)
BY NoElements DEF In, Distinct

LEMMA AppendedIn ==
    ASSUME NEW s, NEW e, IsSeqn(s)
    PROVE  /\ IsSeqn(Append(s, e))
           /\ \A x : In(x, Append(s, e)) <=> (In(x, s) \/ x = e)
           /\ (Distinct(s) /\ ~In(e, s)) => Distinct(Append(s, e))
<1>1. PICK t, n : t = Append(s, e) /\ n = Len(s)
  OBVIOUS
<1>2. /\ IsSeqn(t) /\ Len(t) = n + 1 /\ n \in Nat
      /\ (\A i \in 1..n : t[i] = s[i]) /\ t[n + 1] = e
  BY ONLY <1>1, Appended, IsSeqn(s)
<1>3. ASSUME NEW x PROVE In(x, t) <=> (In(x, s) \/ x = e)
  <2>1. \A i \in 1..(n + 1) : i \in 1..n \/ i = n + 1
    BY ONLY <1>2
  <2>2. \A i \in 1..n : i \in 1..(n + 1)
    BY ONLY <1>2
  <2>3. n + 1 \in 1..(n + 1)
    BY ONLY <1>2
  <2> QED BY ONLY <1>1, <1>2, <2>1, <2>2, <2>3 DEF In
<1>4. ASSUME Distinct(s), ~In(e, s) PROVE Distinct(t)
  <2>1. \A i \in 1..(n + 1) : i \in 1..n \/ i = n + 1
    BY ONLY <1>2
  <2>2. \A i \in 1..n : s[i] # e
    BY ONLY <1>1, <1>4 DEF In
  <2>3. \A i, j \in 1..n : s[i] = s[j] => i = j
    BY ONLY <1>1, <1>4 DEF Distinct
  <2> QED BY ONLY <1>1, <1>2, <2>1, <2>2, <2>3 DEF Distinct
<1> QED BY ONLY <1>1, <1>2, <1>3, <1>4

LEMMA HeadIn ==
    ASSUME NEW s, IsSeqn(s), s # <<>>
    PROVE  In(Head(s), s)
<1>1. PICK S : s \in Seq(S)
  BY DEF IsSeqn
<1>2. Head(s) = s[1] /\ 1 \in 1..Len(s)
  BY ONLY <1>1, s # <<>>
<1> QED BY ONLY <1>2 DEF In

LEMMA FirstOfLeast ==
    ASSUME NEW S, S \subseteq Nat, NEW x, x \in S
    PROVE  \E m : m \in S /\ \A n \in S : m <= n
<1> DEFINE U == {k \in Nat : \A n \in S : n > k}
<1>1. SUFFICES ASSUME \A m \in S : ~(\A n \in S : m <= n) PROVE FALSE
  OBVIOUS
<1>1a. \A m \in S : \E n \in S : n < m
  BY <1>1
<1>2. 0 \in U
  BY <1>1a
<1>3. \A k \in Nat : k \in U => k + 1 \in U
  BY <1>1a
<1>4. \A k \in Nat : k \in U
  <2> HIDE DEF U
  <2> QED BY ONLY <1>2, <1>3, SetInduction
<1> QED BY <1>4

(* RemoveFirst, of a list whose elements are all different. *)
LEMMA RemovedIn ==
    ASSUME NEW s, NEW e, IsSeqn(s), Distinct(s)
    PROVE  /\ IsSeqn(RemoveFirst(s, e)) /\ Distinct(RemoveFirst(s, e))
           /\ \A x : In(x, RemoveFirst(s, e)) <=> (In(x, s) /\ x # e)
<1>1. CASE ~In(e, s)
  <2>1. RemoveFirst(s, e) = s
    BY ONLY <1>1 DEF RemoveFirst, In
  <2> QED BY ONLY <1>1, <2>1, IsSeqn(s), Distinct(s)
<1>2. CASE In(e, s)
  <2>1. PICK n : n = Len(s) /\ n \in Nat
    BY SeqnFacts
  <2>2. PICK I : I = {i \in 1..n : s[i] = e}
    OBVIOUS
  <2>3. PICK k : k \in 1..n /\ s[k] = e
    BY ONLY <1>2, <2>1 DEF In
  <2>4. I = {k}
    BY ONLY <2>1, <2>2, <2>3, Distinct(s) DEF Distinct
  <2>5. Min(I) = k
    BY ONLY <2>1, <2>3, <2>4 DEF Min
  <2>6. SelectInSeq(s, LAMBDA v : v = e) = k
    BY ONLY <2>1, <2>2, <2>4, <2>5 DEF SelectInSeq
  <2>7. PICK r : r = RemoveFirst(s, e)
    OBVIOUS
  <2>8. PICK x, y : x = SubSeq(s, 1, k - 1) /\ y = SubSeq(s, k + 1, n)
    OBVIOUS
  <2>9. r = x \o y
    BY ONLY <1>2, <2>1, <2>6, <2>7, <2>8 DEF RemoveFirst, RemoveAt, In
  <2>10. PICK S : s \in Seq(S)
    BY DEF IsSeqn
  <2>11. /\ x \in Seq(S) /\ Len(x) = k - 1 /\ \A i \in 1..(k - 1) : x[i] = s[i]
    <3>1. \A i \in 1..(k - 1) : s[i] \in S
      BY ONLY <2>1, <2>3, <2>10
    <3> QED BY ONLY <2>1, <2>3, <2>8, <2>10, <3>1
  <2>12. /\ y \in Seq(S) /\ Len(y) = n - k /\ \A i \in 1..(n - k) : y[i] = s[k + i]
    <3>1. \A i \in (k + 1)..n : s[i] \in S
      BY ONLY <2>1, <2>3, <2>10
    <3>2. y \in Seq(S) /\ Len(y) = n - k
      BY ONLY <2>1, <2>3, <2>8, <2>10, <3>1
    <3>3. \A i \in 1..(n - k) : y[i] = s[i + (k + 1) - 1]
      BY ONLY <2>1, <2>3, <2>8, <2>10
    <3>4. \A i \in 1..(n - k) : i + (k + 1) - 1 = k + i
      BY ONLY <2>1, <2>3
    <3> QED BY ONLY <3>2, <3>3, <3>4
  <2>13. IsSeqn(x) /\ IsSeqn(y)
    BY ONLY <2>11, <2>12 DEF IsSeqn
  <2>14. /\ IsSeqn(r) /\ Len(r) = n - 1 /\ (\A i \in 1..(k - 1) : r[i] = s[i])
         /\ \A i \in 1..(n - k) : r[(k - 1) + i] = s[k + i]
    <3>1. Join(r, x, y, k - 1, n - k)
      BY ONLY <2>9, <2>11, <2>12, <2>13, Joined
    <3>2. k - 1 + (n - k) = n - 1
      BY ONLY <2>1, <2>3
    <3>3. /\ IsSeqn(r) /\ Len(r) = n - 1 /\ (\A i \in 1..(k - 1) : r[i] = x[i])
          /\ \A i \in 1..(n - k) : r[(k - 1) + i] = y[i]
      BY ONLY <3>1, <3>2 DEF Join
    <3> QED BY ONLY <2>11, <2>12, <3>3
  <2>15. \A i \in k..(n - 1) : r[i] = s[i + 1]
    <3>1. ASSUME NEW i \in k..(n - 1) PROVE r[i] = s[i + 1]
      <4>1. PICK j : j = i - k + 1 /\ j \in 1..(n - k) /\ (k - 1) + j = i /\ k + j = i + 1
        BY ONLY <2>1, <2>3, i \in k..(n - 1)
      <4> QED BY ONLY <2>14, <4>1
    <3> QED BY <3>1
  <2>16. \A i \in 1..(n - 1) : (i < k /\ r[i] = s[i]) \/ (i >= k /\ r[i] = s[i + 1])
    BY ONLY <2>1, <2>3, <2>14, <2>15
  <2>17. Distinct(r)
    <3>1. \A i, j \in 1..n : s[i] = s[j] => i = j
      BY ONLY <2>1, Distinct(s) DEF Distinct
    <3>2. ASSUME NEW i \in 1..(n - 1), NEW j \in 1..(n - 1), r[i] = r[j] PROVE i = j
      <4>1. i \in 1..n /\ i + 1 \in 1..n /\ j \in 1..n /\ j + 1 \in 1..n
        BY ONLY <2>1, i \in 1..(n - 1), j \in 1..(n - 1)
      <4>2. (i < k /\ r[i] = s[i]) \/ (i >= k /\ r[i] = s[i + 1])
        BY ONLY <2>16, i \in 1..(n - 1)
      <4>3. (j < k /\ r[j] = s[j]) \/ (j >= k /\ r[j] = s[j + 1])
        BY ONLY <2>16, j \in 1..(n - 1)
      <4> QED BY ONLY <2>1, <2>3, <3>1, <3>2, <4>1, <4>2, <4>3
    <3> QED BY ONLY <2>14, <3>2 DEF Distinct
  <2>18. ASSUME NEW z, In(z, r) PROVE In(z, s) /\ z # e
    <3>1. PICK i \in 1..(n - 1) : r[i] = z
      BY ONLY <2>14, <2>18 DEF In
    <3>2. PICK j : j \in 1..n /\ s[j] = z /\ j # k
      BY ONLY <2>1, <2>3, <2>16, <3>1
    <3>3. j \notin I
      BY ONLY <2>4, <3>2
    <3> QED BY ONLY <2>1, <2>2, <3>2, <3>3 DEF In
  <2>19. ASSUME NEW z, In(z, s), z # e PROVE In(z, r)
    <3>1. PICK j : j \in 1..n /\ s[j] = z
      BY ONLY <2>1, <2>19 DEF In
    <3>2. j # k
      BY ONLY <2>3, <2>19, <3>1
    <3>3. CASE j < k
      <4>1. j \in 1..(n - 1) /\ r[j] = z
        BY ONLY <2>1, <2>3, <2>14, <3>1, <3>3
      <4> QED BY ONLY <2>14, <4>1 DEF In
    <3>4. CASE j > k
      <4>1. PICK i : i = j - 1 /\ i \in k..(n - 1) /\ i + 1 = j /\ i \in 1..(n - 1)
        BY ONLY <2>1, <2>3, <3>1, <3>4
      <4>2. r[i] = z
        BY ONLY <2>15, <3>1, <4>1
      <4> QED BY ONLY <2>14, <4>1, <4>2 DEF In
    <3> QED BY ONLY <2>1, <2>3, <3>1, <3>2, <3>3, <3>4
  <2> QED BY ONLY <2>7, <2>14, <2>17, <2>18, <2>19
<1> QED BY <1>1, <1>2

-----------------------------------------------------------------------------
(* Trees: a set D of numbers, each with a parent p and a list c of         *)
(* children.  A node has a higher number than its parent.                  *)

Kids(D, p, c) ==
    \A n \in D : /\ IsSeqn(c[n]) /\ Distinct(c[n])
                 /\ \A x : In(x, c[n]) <=> (x \in D /\ p[x] = n)

Up(D, p) == \A n \in D : p[n] = NULL \/ (p[n] \in D /\ p[n] < n)

OneRoot(D, p) == \A m \in D : \A n \in D : (p[m] = NULL /\ p[n] = NULL) => m = n

Links(D, p, c) == D \subseteq Nat /\ Kids(D, p, c) /\ Up(D, p) /\ OneRoot(D, p)

(* E, q, d are the tree with one more node n, the last child of m. *)
AddedTo(D, p, c, E, q, d, n, m) ==
    /\ E = D \cup {n} /\ q[n] = m /\ d[n] = <<>>
    /\ \A x \in D : /\ q[x] = p[x]
                    /\ x = m => d[x] = Append(c[x], n)
                    /\ x # m => d[x] = c[x]

LEMMA NullFacts == NULL \notin Nat
BY DevicetreeConstants

LEMMA AddedLinks ==
    ASSUME NEW D, NEW p, NEW c, NEW E, NEW q, NEW d, NEW n, NEW m,
           Links(D, p, c), AddedTo(D, p, c, E, q, d, n, m), n \in Nat, \A x \in D : x < n,
           m \in D \/ (m = NULL /\ D = {})
    PROVE  Links(E, q, d)
<1>1. /\ E = D \cup {n} /\ q[n] = m /\ d[n] = <<>> /\ n \notin D
      /\ \A x \in D : /\ q[x] = p[x] /\ x \in Nat
                      /\ x = m => d[x] = Append(c[x], n)
                      /\ x # m => d[x] = c[x]
  BY DEF AddedTo, Links
<1>2. E \subseteq Nat
  BY ONLY <1>1, n \in Nat
<1>3. Up(E, q)
  <2>1. \A x \in D : p[x] = NULL \/ (p[x] \in D /\ p[x] < x)
    BY DEF Links, Up
  <2>2. m = NULL \/ (m \in E /\ m < n)
    BY ONLY <1>1, m \in D \/ (m = NULL /\ D = {}), \A x \in D : x < n
  <2> QED BY ONLY <1>1, <2>1, <2>2 DEF Up
<1>4. OneRoot(E, q)
  <2>1. \A x, y \in D : (p[x] = NULL /\ p[y] = NULL) => x = y
    BY DEF Links, OneRoot
  <2>2. m = NULL => D = {}
    BY ONLY m \in D \/ (m = NULL /\ D = {}), <1>1, NullFacts
  <2> QED BY ONLY <1>1, <2>1, <2>2 DEF OneRoot
<1>5. (\A x \in D : p[x] # n) /\ n # NULL /\ m # n
  <2>1. \A x \in D : p[x] = NULL \/ p[x] \in D
    BY DEF Links, Up
  <2> QED BY ONLY <1>1, <2>1, NullFacts, n \in Nat, m \in D \/ (m = NULL /\ D = {})
<1>6. ASSUME NEW x \in E
      PROVE  /\ IsSeqn(d[x]) /\ Distinct(d[x])
             /\ \A y : In(y, d[x]) <=> (y \in E /\ q[y] = x)
  <2>1. CASE x = n
    <3>1. d[x] = <<>>
      BY ONLY <1>1, <2>1
    <3>2. IsSeqn(<<>>) /\ Distinct(<<>>) /\ \A y : ~In(y, <<>>)
      BY ONLY NoElements, NoneIn
    <3>3. \A y \in E : q[y] # x
      BY ONLY <1>1, <1>5, <2>1
    <3> QED BY ONLY <3>1, <3>2, <3>3
  <2>2. CASE x # n
    <3>1. x \in D
      BY ONLY <1>1, <2>2, x \in E
    <3>2. PICK s, t : s = c[x] /\ t = d[x]
      OBVIOUS
    <3>3. IsSeqn(s) /\ Distinct(s) /\ \A y : In(y, s) <=> (y \in D /\ p[y] = x)
      BY <3>1, <3>2 DEF Links, Kids
    <3>4. CASE x = m
      <4>1. t = Append(s, n)
        BY ONLY <1>1, <3>1, <3>2, <3>4
      <4>2. ~In(n, s)
        BY ONLY <1>1, <3>3
      <4>3. IsSeqn(t) /\ Distinct(t) /\ \A y : In(y, t) <=> (In(y, s) \/ y = n)
        BY ONLY <3>3, <4>1, <4>2, AppendedIn
      <4>4. \A y : In(y, t) <=> (y \in E /\ q[y] = x)
        BY ONLY <1>1, <3>3, <3>4, <4>3
      <4> QED BY ONLY <3>2, <4>3, <4>4
    <3>5. CASE x # m
      <4>1. t = s
        BY ONLY <1>1, <3>1, <3>2, <3>5
      <4>2. \A y : In(y, s) <=> (y \in E /\ q[y] = x)
        BY ONLY <1>1, <3>3, <3>5
      <4> QED BY ONLY <3>2, <3>3, <4>1, <4>2
    <3> QED BY ONLY <3>4, <3>5
  <2> QED BY ONLY <2>1, <2>2
<1>7. Kids(E, q, d)
  BY ONLY <1>6 DEF Kids
<1> QED BY ONLY <1>2, <1>3, <1>4, <1>7 DEF Links

(* E, q, d are the tree without its node n. *)
RemovedFrom(D, p, c, E, q, d, n) ==
    /\ E = D \ {n}
    /\ \A x \in E : q[x] = p[x] /\ d[x] = RemoveFirst(c[x], n)

LEMMA RemovedLinks ==
    ASSUME NEW D, NEW p, NEW c, NEW E, NEW q, NEW d, NEW n,
           Links(D, p, c), RemovedFrom(D, p, c, E, q, d, n), n \in D, c[n] = <<>>
    PROVE  Links(E, q, d)
<1>1. /\ E = D \ {n}
      /\ \A x \in E : q[x] = p[x] /\ d[x] = RemoveFirst(c[x], n)
  BY DEF RemovedFrom
<1>2. E \subseteq Nat
  BY <1>1 DEF Links
<1>3. ASSUME NEW x \in E PROVE p[x] # n
  <2>1. In(x, c[n]) <=> (x \in D /\ p[x] = n)
    BY DEF Links, Kids
  <2> QED BY ONLY <1>1, <2>1, NoneIn, c[n] = <<>>, x \in E
<1>4. Up(E, q)
  <2>1. \A x \in D : p[x] = NULL \/ (p[x] \in D /\ p[x] < x)
    BY DEF Links, Up
  <2> QED BY ONLY <1>1, <1>3, <2>1 DEF Up
<1>5. OneRoot(E, q)
  <2>1. \A x, y \in D : (p[x] = NULL /\ p[y] = NULL) => x = y
    BY DEF Links, OneRoot
  <2> QED BY ONLY <1>1, <2>1 DEF OneRoot
<1>6. ASSUME NEW x \in E
      PROVE  /\ IsSeqn(d[x]) /\ Distinct(d[x])
             /\ \A y : In(y, d[x]) <=> (y \in E /\ q[y] = x)
  <2>1. PICK s, t : s = c[x] /\ t = d[x]
    OBVIOUS
  <2>2. IsSeqn(s) /\ Distinct(s) /\ \A y : In(y, s) <=> (y \in D /\ p[y] = x)
    BY <1>1, <2>1 DEF Links, Kids
  <2>3. t = RemoveFirst(s, n)
    BY ONLY <1>1, <2>1, x \in E
  <2>4. IsSeqn(t) /\ Distinct(t) /\ \A y : In(y, t) <=> (In(y, s) /\ y # n)
    BY ONLY <2>2, <2>3, RemovedIn
  <2>5. \A y : In(y, t) <=> (y \in E /\ q[y] = x)
    BY ONLY <1>1, <2>2, <2>4
  <2> QED BY ONLY <2>1, <2>4, <2>5
<1>7. Kids(E, q, d)
  BY ONLY <1>6 DEF Kids
<1> QED BY ONLY <1>2, <1>4, <1>5, <1>7 DEF Links

(* A root without children is alone. *)
LEMMA RootAlone ==
    ASSUME NEW D, NEW p, NEW c, NEW n, Links(D, p, c), n \in D, p[n] = NULL, c[n] = <<>>
    PROVE  D = {n}
<1> DEFINE Others == D \ {n}
<1>1. SUFFICES ASSUME NEW x, x \in Others PROVE FALSE
  OBVIOUS
<1>2. Others \subseteq Nat
  BY DEF Links
<1>3. PICK m : m \in Others /\ \A y \in Others : m <= y
  <2> HIDE DEF Others
  <2> QED BY ONLY <1>1, <1>2, FirstOfLeast
<1>4. p[m] # NULL
  BY ONLY <1>3, Links(D, p, c), n \in D, p[n] = NULL DEF Links, OneRoot
<1>5. p[m] \in D /\ p[m] < m
  BY ONLY <1>3, <1>4, Links(D, p, c) DEF Links, Up
<1>6. p[m] = n
  BY ONLY <1>2, <1>3, <1>5, Links(D, p, c) DEF Links
<1>7. In(m, c[n])
  BY ONLY <1>3, <1>6, Links(D, p, c), n \in D DEF Links, Kids
<1> QED BY ONLY <1>7, NoneIn, c[n] = <<>>

(* Every tree that is not empty has a root. *)
LEMMA HasRoot ==
    ASSUME NEW D, NEW p, NEW c, NEW n, Links(D, p, c), n \in D
    PROVE  \E r : r \in D /\ p[r] = NULL
<1>1. D \subseteq Nat
  BY DEF Links
<1>2. PICK m : m \in D /\ \A y \in D : m <= y
  BY ONLY <1>1, FirstOfLeast, n \in D
<1>3. p[m] = NULL \/ (p[m] \in D /\ p[m] < m)
  BY <1>2 DEF Links, Up
<1>4. PICK y : y = p[m]
  OBVIOUS
<1>5. y = NULL \/ (y \in D /\ y < m)
  BY ONLY <1>3, <1>4
<1>6. y \in D => ~(y < m)
  BY ONLY <1>1, <1>2
<1> QED BY ONLY <1>2, <1>4, <1>5, <1>6

-----------------------------------------------------------------------------
(* Nodes D below f with lists r of properties: no number is given twice.   *)

Owned(D, r, f) ==
    /\ f \in Nat
    /\ \A n \in D : /\ n \in Nat /\ n < f /\ IsSeqn(r[n]) /\ Distinct(r[n])
                    /\ \A x : In(x, r[n]) => x.id \in Nat /\ x.id < f /\ x.id \notin D

Apart(D, r) ==
    \A m \in D : \A n \in D : \A x, y :
        (In(x, r[m]) /\ In(y, r[n]) /\ x.id = y.id) => m = n /\ x = y

(* o is an object of a node, or of one of its properties. *)
Obj(o, n, s) == o \in NodeObjects(n) \/ \E x : In(x, s) /\ o \in PropObjects(x.id)

HeapIs(L, D, r) == \A o : o \in L <=> \E n \in D : Obj(o, n, r[n])

Props(D, r, f, L) == Owned(D, r, f) /\ Apart(D, r) /\ HeapIs(L, D, r)

LEMMA Numbered ==
    ASSUME NEW o, NEW n
    PROVE  /\ o \in NodeObjects(n) => o[2] = n
           /\ o \in PropObjects(n) => o[2] = n
<1>1. o \in NodeObjects(n) => o = <<"node", n>> \/ o = <<"name", n>>
  BY DEF NodeObjects
<1>2. o \in PropObjects(n) => o = <<"prop", n>> \/ o = <<"name", n>> \/ o = <<"value", n>>
  BY DEF PropObjects
<1> QED BY ONLY <1>1, <1>2

(* An object on the heap has a number that was given. *)
LEMMA HeapBelow ==
    ASSUME NEW D, NEW r, NEW f, NEW L, Props(D, r, f, L), NEW o, o \in L
    PROVE  o[2] \in Nat /\ o[2] < f
<1>1. PICK n : n \in D /\ Obj(o, n, r[n])
  BY DEF Props, HeapIs
<1>2. n \in Nat /\ n < f /\ \A x : In(x, r[n]) => x.id \in Nat /\ x.id < f
  BY <1>1 DEF Props, Owned
<1>3. CASE o \in NodeObjects(n)
  BY ONLY <1>2, <1>3, Numbered
<1>4. ASSUME NEW x, In(x, r[n]), o \in PropObjects(x.id) PROVE o[2] \in Nat /\ o[2] < f
  BY ONLY <1>2, <1>4, Numbered
<1> QED BY ONLY <1>1, <1>3, <1>4 DEF Obj

(* What fails on the way is given back. *)
LEMMA GivenBack ==
    ASSUME NEW D, NEW r, NEW f, NEW L, Props(D, r, f, L), NEW got,
           \A o \in got : o[2] \in Nat /\ o[2] >= f
    PROVE  (L \cup got) \ got = L
<1>1. \A o \in L : o[2] \in Nat /\ o[2] < f
  BY HeapBelow
<1>2. f \in Nat
  BY DEF Props, Owned
<1>3. \A o \in L : o \notin got
  <2>1. SUFFICES ASSUME NEW o, o \in L, o \in got PROVE FALSE
    OBVIOUS
  <2>2. PICK k : k = o[2]
    OBVIOUS
  <2>3. k \in Nat /\ k < f
    BY ONLY <1>1, <2>1, <2>2
  <2>4. k >= f
    BY ONLY <2>1, <2>2, \A x \in got : x[2] \in Nat /\ x[2] >= f
  <2> QED BY ONLY <1>2, <2>3, <2>4
<1> QED BY ONLY <1>3

(* s is the list of the properties of n after the change, and the other    *)
(* lists stay.                                                             *)
Only(D, r, E, s, n) == \A x \in E : x # n => x \in D /\ s[x] = r[x]

LEMMA NewNode ==
    ASSUME NEW D, NEW r, NEW f, NEW L, NEW n, NEW E, NEW s, NEW g, NEW M,
           Props(D, r, f, L), E = D \cup {n}, s[n] = <<>>, Only(D, r, E, s, n),
           n \in Nat, n >= f, g \in Nat, g > n, M = L \cup NodeObjects(n)
    PROVE  Props(E, s, g, M)
<1>1. \A x \in D : x \in Nat /\ x < f /\ x # n /\ f \in Nat /\ s[x] = r[x] /\ x \in E
  BY DEF Props, Owned, Only
<1>1a. f \in Nat
  BY DEF Props, Owned
<1>2. \A x : ~In(x, s[n])
  BY ONLY NoneIn, s[n] = <<>>
<1>3. Owned(E, s, g)
  <2>1. \A x \in D : /\ IsSeqn(r[x]) /\ Distinct(r[x])
                     /\ \A y : In(y, r[x]) => y.id \in Nat /\ y.id < f /\ y.id \notin D
    BY DEF Props, Owned
  <2>2. IsSeqn(s[n]) /\ Distinct(s[n])
    BY ONLY NoneIn, NoElements, s[n] = <<>>
  <2>3. ASSUME NEW x \in E
        PROVE  /\ x \in Nat /\ x < g /\ IsSeqn(s[x]) /\ Distinct(s[x])
               /\ \A y : In(y, s[x]) => y.id \in Nat /\ y.id < g /\ y.id \notin E
    <3>1. CASE x = n
      BY ONLY <1>2, <2>2, <3>1, n \in Nat, g \in Nat, g > n
    <3>2. CASE x # n
      <4>1. x \in D
        BY ONLY <3>2, x \in E, E = D \cup {n}
      <4>2. x \in Nat /\ x < g /\ IsSeqn(s[x]) /\ Distinct(s[x])
        BY ONLY <1>1, <1>1a, <2>1, <4>1, n \in Nat, g \in Nat, g > n, n >= f
      <4>3. ASSUME NEW y, In(y, s[x]) PROVE y.id \in Nat /\ y.id < g /\ y.id \notin E
        <5>1. y.id \in Nat /\ y.id < f /\ y.id \notin D
          BY ONLY <1>1, <2>1, <4>1, <4>3
        <5> QED BY ONLY <1>1a, <5>1, n \in Nat, g \in Nat, g > n, n >= f, E = D \cup {n}
      <4> QED BY ONLY <4>2, <4>3
    <3> QED BY ONLY <3>1, <3>2
  <2> QED BY ONLY <2>3, g \in Nat DEF Owned
<1>4. Apart(E, s)
  <2>1. ASSUME NEW k \in E, NEW m \in E, NEW x, NEW y, In(x, s[k]), In(y, s[m]), x.id = y.id
        PROVE  k = m /\ x = y
    <3>1. k # n /\ m # n
      BY ONLY <1>2, <2>1
    <3>2. k \in D /\ m \in D /\ s[k] = r[k] /\ s[m] = r[m]
      BY ONLY <1>1, <3>1, k \in E, m \in E, E = D \cup {n}
    <3>3. In(x, r[k]) /\ In(y, r[m])
      BY ONLY <2>1, <3>2
    <3>4. Apart(D, r)
      BY DEF Props
    <3> QED BY ONLY <2>1, <3>2, <3>3, <3>4 DEF Apart
  <2> QED BY ONLY <2>1 DEF Apart
<1>5. HeapIs(M, E, s)
  <2>1. ASSUME NEW o PROVE o \in M <=> \E m \in E : Obj(o, m, s[m])
    <3>1. o \in L <=> \E m \in D : Obj(o, m, r[m])
      BY DEF Props, HeapIs
    <3>2. Obj(o, n, s[n]) <=> o \in NodeObjects(n)
      BY ONLY <1>2 DEF Obj
    <3>3. \A m \in D : Obj(o, m, r[m]) <=> Obj(o, m, s[m])
      BY ONLY <1>1
    <3> QED BY ONLY <3>1, <3>2, <3>3, E = D \cup {n}, M = L \cup NodeObjects(n)
  <2> QED BY ONLY <2>1 DEF HeapIs
<1> QED BY ONLY <1>3, <1>4, <1>5 DEF Props

LEMMA NewProp ==
    ASSUME NEW D, NEW r, NEW f, NEW L, NEW n, NEW s, NEW g, NEW M, NEW e, NEW k,
           Props(D, r, f, L), n \in D, s[n] = Append(r[n], e), Only(D, r, D, s, n),
           k = e.id, k \in Nat, k >= f, g \in Nat, g > k, M = L \cup PropObjects(k)
    PROVE  Props(D, s, g, M)
<1>1. PICK t, u : t = r[n] /\ u = s[n] /\ k = e.id
  OBVIOUS
<1>1a. f \in Nat /\ k \in Nat /\ k >= f /\ g > k /\ g \in Nat
  BY <1>1 DEF Props, Owned
<1>2. \A x \in D : /\ x \in Nat /\ x < f /\ IsSeqn(r[x]) /\ Distinct(r[x])
                   /\ \A y : In(y, r[x]) => y.id \in Nat /\ y.id < f /\ y.id \notin D
  BY DEF Props, Owned
<1>3. \A x \in D : x # n => s[x] = r[x]
  BY DEF Only
<1>4. ~In(e, t)
  <2>1. In(e, t) => k < f
    BY ONLY <1>1, <1>2, n \in D
  <2> QED BY ONLY <1>1a, <2>1
<1>5. IsSeqn(u) /\ Distinct(u) /\ \A x : In(x, u) <=> (In(x, t) \/ x = e)
  BY ONLY <1>1, <1>2, <1>4, n \in D, s[n] = Append(r[n], e), AppendedIn
<1>6. \A x \in D : \A y : In(y, s[x]) <=> (In(y, r[x]) \/ (x = n /\ y = e))
  BY ONLY <1>1, <1>3, <1>5
<1>7. k \notin D
  <2>1. k \in D => k < f
    BY ONLY <1>2
  <2> QED BY ONLY <1>1a, <2>1
<1>8. Owned(D, s, g)
  <2>1. ASSUME NEW x \in D
        PROVE  /\ x \in Nat /\ x < g /\ IsSeqn(s[x]) /\ Distinct(s[x])
               /\ \A y : In(y, s[x]) => y.id \in Nat /\ y.id < g /\ y.id \notin D
    <3>1. x \in Nat /\ x < g
      BY ONLY <1>1a, <1>2, x \in D
    <3>2. IsSeqn(s[x]) /\ Distinct(s[x])
      BY ONLY <1>1, <1>2, <1>3, <1>5, x \in D
    <3>3. ASSUME NEW y, In(y, s[x]) PROVE y.id \in Nat /\ y.id < g /\ y.id \notin D
      <4>1. CASE y = e
        BY ONLY <1>1, <1>1a, <1>7, <4>1
      <4>2. CASE In(y, r[x])
        <5>1. y.id \in Nat /\ y.id < f /\ y.id \notin D
          BY ONLY <1>2, <4>2, x \in D
        <5> QED BY ONLY <1>1a, <5>1
      <4> QED BY ONLY <1>6, <3>3, <4>1, <4>2, x \in D
    <3> QED BY ONLY <3>1, <3>2, <3>3
  <2> QED BY ONLY <1>1a, <2>1 DEF Owned
<1>9. Apart(D, s)
  <2>0. Apart(D, r)
    BY DEF Props
  <2>1. \A x \in D : \A y : In(y, r[x]) => y.id # k
    <3>1. \A x \in D : \A y : In(y, r[x]) => y.id < f
      BY ONLY <1>2
    <3> QED BY ONLY <1>1a, <3>1
  <2>2. ASSUME NEW i \in D, NEW m \in D, NEW x, NEW y, In(x, s[i]), In(y, s[m]), x.id = y.id
        PROVE  i = m /\ x = y
    <3>1. In(x, r[i]) \/ (i = n /\ x = e)
      BY ONLY <1>6, <2>2, i \in D
    <3>2. In(y, r[m]) \/ (m = n /\ y = e)
      BY ONLY <1>6, <2>2, m \in D
    <3>3. CASE In(x, r[i]) /\ In(y, r[m])
      BY ONLY <2>0, <2>2, <3>3, i \in D, m \in D DEF Apart
    <3>4. CASE ~(In(x, r[i]) /\ In(y, r[m]))
      BY ONLY <1>1, <2>1, <2>2, <3>1, <3>2, <3>4, i \in D, m \in D
    <3> QED BY ONLY <3>3, <3>4
  <2> QED BY ONLY <2>2 DEF Apart
<1>10. HeapIs(M, D, s)
  <2>1. ASSUME NEW o PROVE o \in M <=> \E m \in D : Obj(o, m, s[m])
    <3>1. o \in L <=> \E m \in D : Obj(o, m, r[m])
      BY DEF Props, HeapIs
    <3>2. Obj(o, n, s[n]) <=> (Obj(o, n, r[n]) \/ o \in PropObjects(k))
      <4>1. \A y : In(y, s[n]) <=> (In(y, r[n]) \/ y = e)
        BY ONLY <1>6, n \in D
      <4> QED BY ONLY <1>1, <4>1 DEF Obj
    <3>3. \A m \in D : m # n => (Obj(o, m, r[m]) <=> Obj(o, m, s[m]))
      BY ONLY <1>3
    <3>4. o \in M <=> (o \in L \/ o \in PropObjects(k))
      BY ONLY M = L \cup PropObjects(k)
    <3> QED BY ONLY <3>1, <3>2, <3>3, <3>4, n \in D
  <2> QED BY ONLY <2>1 DEF HeapIs
<1> QED BY ONLY <1>8, <1>9, <1>10 DEF Props

(* Some properties of n are unlinked, and X are their objects. *)
LEMMA DropProps ==
    ASSUME NEW D, NEW r, NEW f, NEW L, NEW n, NEW s, NEW X, NEW M,
           Props(D, r, f, L), n \in D, Only(D, r, D, s, n),
           IsSeqn(s[n]), Distinct(s[n]), \A x : In(x, s[n]) => In(x, r[n]),
           \A o : o \in X <=> \E x : In(x, r[n]) /\ ~In(x, s[n]) /\ o \in PropObjects(x.id),
           M = L \ X
    PROVE  Props(D, s, f, M)
<1>1. \A x \in D : /\ x \in Nat /\ x < f /\ IsSeqn(r[x]) /\ Distinct(r[x])
                   /\ \A y : In(y, r[x]) => y.id \in Nat /\ y.id < f /\ y.id \notin D
  BY DEF Props, Owned
<1>2. \A x \in D : x # n => s[x] = r[x]
  BY DEF Only
<1>3. \A x \in D : \A y : In(y, s[x]) => In(y, r[x])
  BY ONLY <1>2, \A x : In(x, s[n]) => In(x, r[n])
<1>4. Owned(D, s, f)
  <2>1. f \in Nat
    BY DEF Props, Owned
  <2>2. \A x \in D : IsSeqn(s[x]) /\ Distinct(s[x])
    BY ONLY <1>1, <1>2, IsSeqn(s[n]), Distinct(s[n])
  <2> QED BY ONLY <1>1, <1>3, <2>1, <2>2 DEF Owned
<1>5. Apart(D, r)
  BY DEF Props
<1>6. Apart(D, s)
  BY ONLY <1>3, <1>5 DEF Apart
<1>7. ASSUME NEW o PROVE o \in M <=> \E m \in D : Obj(o, m, s[m])
  <2>1. o \in L <=> \E m \in D : Obj(o, m, r[m])
    BY DEF Props, HeapIs
  <2>2. ASSUME NEW m \in D, Obj(o, m, s[m]) PROVE o \in M
    <3>1. Obj(o, m, r[m])
      BY ONLY <1>3, <2>2, m \in D DEF Obj
    <3>2. o \in L
      BY ONLY <2>1, <3>1, m \in D
    <3>3. ASSUME NEW x, In(x, r[n]), ~In(x, s[n]), o \in PropObjects(x.id) PROVE FALSE
      <4>1. o[2] = x.id /\ x.id \notin D
        BY ONLY <1>1, <3>3, Numbered, n \in D
      <4>2. o \notin NodeObjects(m)
        BY ONLY <4>1, Numbered, m \in D
      <4>3. PICK y : In(y, s[m]) /\ o \in PropObjects(y.id)
        BY ONLY <2>2, <4>2 DEF Obj
      <4>4. In(y, r[m]) /\ y.id = x.id
        BY ONLY <1>3, <4>1, <4>3, Numbered, m \in D
      <4>5. m = n /\ y = x
        BY ONLY <1>5, <3>3, <4>4, m \in D, n \in D DEF Apart
      <4> QED BY ONLY <3>3, <4>3, <4>5
    <3>4. o \notin X
      BY ONLY <3>3, \A z : z \in X <=> \E x : In(x, r[n]) /\ ~In(x, s[n]) /\ z \in PropObjects(x.id)
    <3> QED BY ONLY <3>2, <3>4, M = L \ X
  <2>3. ASSUME o \in M PROVE \E m \in D : Obj(o, m, s[m])
    <3>1. o \in L /\ o \notin X
      BY ONLY <2>3, M = L \ X
    <3>2. PICK m : m \in D /\ Obj(o, m, r[m])
      BY ONLY <2>1, <3>1
    <3>3. ~ \E x : In(x, r[n]) /\ ~In(x, s[n]) /\ o \in PropObjects(x.id)
      BY ONLY <3>1, \A z : z \in X <=> \E x : In(x, r[n]) /\ ~In(x, s[n]) /\ z \in PropObjects(x.id)
    <3>4. Obj(o, m, s[m])
      BY ONLY <1>2, <3>2, <3>3 DEF Obj
    <3> QED BY ONLY <3>2, <3>4
  <2> QED BY ONLY <2>2, <2>3
<1>8. HeapIs(M, D, s)
  BY ONLY <1>7 DEF HeapIs
<1> QED BY ONLY <1>4, <1>6, <1>8 DEF Props

LEMMA DropNode ==
    ASSUME NEW D, NEW r, NEW f, NEW L, NEW n, NEW E, NEW s, NEW M,
           Props(D, r, f, L), n \in D, r[n] = <<>>, E = D \ {n}, \A x \in E : s[x] = r[x],
           M = L \ NodeObjects(n)
    PROVE  Props(E, s, f, M)
<1>1. \A x \in D : /\ x \in Nat /\ x < f /\ IsSeqn(r[x]) /\ Distinct(r[x])
                   /\ \A y : In(y, r[x]) => y.id \in Nat /\ y.id < f /\ y.id \notin D
  BY DEF Props, Owned
<1>2. Owned(E, s, f)
  <2>1. f \in Nat
    BY DEF Props, Owned
  <2> QED BY ONLY <1>1, <2>1, E = D \ {n}, \A x \in E : s[x] = r[x] DEF Owned
<1>3. Apart(E, s)
  <2>1. Apart(D, r)
    BY DEF Props
  <2> QED BY ONLY <2>1, E = D \ {n}, \A x \in E : s[x] = r[x] DEF Apart
<1>4. ASSUME NEW o PROVE o \in M <=> \E m \in E : Obj(o, m, s[m])
  <2>1. o \in L <=> \E m \in D : Obj(o, m, r[m])
    BY DEF Props, HeapIs
  <2>2. Obj(o, n, r[n]) <=> o \in NodeObjects(n)
    BY ONLY NoneIn, r[n] = <<>> DEF Obj
  <2>3. ASSUME NEW m \in E, Obj(o, m, r[m]) PROVE o \notin NodeObjects(n)
    <3>1. o[2] # n
      <4>1. CASE o \in NodeObjects(m)
        BY ONLY <4>1, Numbered, m \in E, E = D \ {n}
      <4>2. CASE \E x : In(x, r[m]) /\ o \in PropObjects(x.id)
        BY ONLY <1>1, <4>2, Numbered, m \in E, n \in D, E = D \ {n}
      <4> QED BY ONLY <2>3, <4>1, <4>2 DEF Obj
    <3> QED BY ONLY <3>1, Numbered
  <2>4. \A m \in E : Obj(o, m, s[m]) <=> Obj(o, m, r[m])
    BY ONLY \A x \in E : s[x] = r[x]
  <2> QED BY ONLY <2>1, <2>2, <2>3, <2>4, n \in D, E = D \ {n}, M = L \ NodeObjects(n)
<1>5. HeapIs(M, E, s)
  BY ONLY <1>4 DEF HeapIs
<1> QED BY ONLY <1>2, <1>3, <1>5 DEF Props
-----------------------------------------------------------------------------
(* The invariant of the tree. *)

Form(t) ==
    /\ \E p, n, c, r : t = [parent |-> p, name |-> n, children |-> c, props |-> r]
    /\ DOMAIN t.name = DOMAIN t.parent /\ DOMAIN t.children = DOMAIN t.parent
    /\ DOMAIN t.props = DOMAIN t.parent

TreeInv(t) == Form(t) /\ Links(DOMAIN t.parent, t.parent, t.children)

HeapInv(t, f, L) == Props(DOMAIN t.parent, t.props, f, L)

LEMMA AddNodeLemma ==
    ASSUME NEW t, NEW n, NEW m, NEW name, TreeInv(t), n \in Nat, \A x \in DOMAIN t.parent : x < n,
           m \in DOMAIN t.parent \/ (m = NULL /\ DOMAIN t.parent = {}),
           NEW u, u = AddNode(t, n, m, name)
    PROVE  /\ TreeInv(u) /\ DOMAIN u.parent = DOMAIN t.parent \cup {n} /\ u.parent[n] = m
           /\ u.name[n] = name /\ u.children[n] = <<>> /\ u.props[n] = <<>>
           /\ \A x \in DOMAIN t.parent :
                 /\ u.parent[x] = t.parent[x] /\ u.name[x] = t.name[x] /\ u.props[x] = t.props[x]
                 /\ x = m => u.children[x] = Append(t.children[x], n)
                 /\ x # m => u.children[x] = t.children[x]
<1>1. PICK D, p, a, c, r : /\ D = DOMAIN t.parent /\ p = t.parent /\ a = t.name
                           /\ c = t.children /\ r = t.props
  OBVIOUS
<1>2. D = DOMAIN p /\ DOMAIN a = D /\ DOMAIN c = D /\ DOMAIN r = D /\ Links(D, p, c)
  BY <1>1 DEF TreeInv, Form
<1>3. n \notin D
  BY ONLY <1>1, <1>2, n \in Nat, \A x \in DOMAIN t.parent : x < n
<1>4. PICK k : k = [x \in D |-> IF x = m THEN Append(c[x], n) ELSE c[x]]
  OBVIOUS
<1>4a. PICK q, b, d, s : /\ q = With(p, n, m) /\ b = With(a, n, name)
                         /\ d = With(k, n, <<>>) /\ s = With(r, n, <<>>)
  OBVIOUS
<1>6. u = [parent |-> q, name |-> b, children |-> d, props |-> s]
  BY ONLY <1>1, <1>2, <1>4, <1>4a, u = AddNode(t, n, m, name) DEF AddNode
<1>7. u.parent = q /\ u.name = b /\ u.children = d /\ u.props = s
  BY ONLY <1>6
<1>8. PICK E : E = D \cup {n}
  OBVIOUS
<1>9. DOMAIN q = E /\ q[n] = m /\ \A x \in D : q[x] = p[x]
  BY ONLY <1>2, <1>3, <1>4a, <1>8 DEF With
<1>10. DOMAIN b = E /\ b[n] = name /\ \A x \in D : b[x] = a[x]
  BY ONLY <1>2, <1>3, <1>4a, <1>8 DEF With
<1>11. DOMAIN s = E /\ s[n] = <<>> /\ \A x \in D : s[x] = r[x]
  BY ONLY <1>2, <1>3, <1>4a, <1>8 DEF With
<1>12. DOMAIN d = E /\ d[n] = <<>>
       /\ \A x \in D : /\ x = m => d[x] = Append(c[x], n)
                       /\ x # m => d[x] = c[x]
  <2>1. DOMAIN k = D
    BY ONLY <1>4
  <2>2. DOMAIN d = E /\ d[n] = <<>> /\ \A x \in D : d[x] = k[x]
    BY ONLY <1>3, <1>4a, <1>8, <2>1 DEF With
  <2> QED BY ONLY <1>4, <2>2
<1>13. AddedTo(D, p, c, E, q, d, n, m)
  BY ONLY <1>8, <1>9, <1>12 DEF AddedTo
<1>14. m \in D \/ (m = NULL /\ D = {})
  BY ONLY <1>1, m \in DOMAIN t.parent \/ (m = NULL /\ DOMAIN t.parent = {})
<1>15. \A x \in D : x < n
  BY ONLY <1>1, \A x \in DOMAIN t.parent : x < n
<1>16. Links(E, q, d)
  BY ONLY <1>2, <1>13, <1>14, <1>15, n \in Nat, AddedLinks
<1>17. Form(u)
  BY ONLY <1>6, <1>7, <1>9, <1>10, <1>11, <1>12 DEF Form
<1>18. TreeInv(u)
  BY ONLY <1>7, <1>9, <1>16, <1>17 DEF TreeInv
<1> QED BY ONLY <1>1, <1>7, <1>8, <1>9, <1>10, <1>11, <1>12, <1>18

LEMMA AddPropLemma ==
    ASSUME NEW t, NEW n, NEW e, TreeInv(t), n \in DOMAIN t.parent, NEW u, u = AddProp(t, n, e)
    PROVE  /\ TreeInv(u) /\ u.parent = t.parent /\ u.name = t.name /\ u.children = t.children
           /\ u.props[n] = Append(t.props[n], e)
           /\ \A x \in DOMAIN t.parent : x # n => u.props[x] = t.props[x]
<1>1. PICK p, a, c, r : t = [parent |-> p, name |-> a, children |-> c, props |-> r]
  BY DEF TreeInv, Form
<1>2. t.parent = p /\ t.name = a /\ t.children = c /\ t.props = r
  BY ONLY <1>1
<1>3. DOMAIN a = DOMAIN p /\ DOMAIN c = DOMAIN p /\ DOMAIN r = DOMAIN p
      /\ Links(DOMAIN p, p, c) /\ n \in DOMAIN p
  BY <1>2 DEF TreeInv, Form
<1>4. PICK s : s = [r EXCEPT ![n] = Append(r[n], e)]
  OBVIOUS
<1>5. DOMAIN s = DOMAIN p /\ s[n] = Append(r[n], e) /\ \A x \in DOMAIN p : x # n => s[x] = r[x]
  BY ONLY <1>3, <1>4
<1>7. u = [parent |-> p, name |-> a, children |-> c, props |-> s]
  BY ONLY <1>1, <1>4, u = AddProp(t, n, e) DEF AddProp
<1>8. u.parent = p /\ u.name = a /\ u.children = c /\ u.props = s
  BY ONLY <1>7
<1>9. TreeInv(u)
  BY ONLY <1>3, <1>5, <1>7, <1>8 DEF TreeInv, Form
<1> QED BY ONLY <1>2, <1>5, <1>8, <1>9

LEMMA RemoveNodeLemma ==
    ASSUME NEW t, NEW n, TreeInv(t), n \in DOMAIN t.parent, t.children[n] = <<>>
    PROVE  /\ TreeInv(RemoveNode(t, n))
           /\ DOMAIN RemoveNode(t, n).parent = DOMAIN t.parent \ {n}
           /\ \A x \in DOMAIN t.parent \ {n} : RemoveNode(t, n).props[x] = t.props[x]
<1>1. PICK D, p, a, c, r : /\ D = DOMAIN t.parent /\ p = t.parent /\ a = t.name
                           /\ c = t.children /\ r = t.props
  OBVIOUS
<1>2. D = DOMAIN p /\ DOMAIN a = D /\ DOMAIN c = D /\ DOMAIN r = D /\ Links(D, p, c)
  BY <1>1 DEF TreeInv, Form
<1>3. PICK E : E = D \ {n}
  OBVIOUS
<1>4. PICK q, b, d, s : /\ q = [m \in E |-> p[m]] /\ b = [m \in E |-> a[m]]
                        /\ d = [m \in E |-> RemoveFirst(c[m], n)] /\ s = [m \in E |-> r[m]]
  OBVIOUS
<1>5. PICK u : u = RemoveNode(t, n)
  OBVIOUS
<1>6. u = [parent |-> q, name |-> b, children |-> d, props |-> s]
  BY ONLY <1>1, <1>3, <1>4, <1>5 DEF RemoveNode
<1>7. u.parent = q /\ u.name = b /\ u.children = d /\ u.props = s
  BY ONLY <1>6
<1>8. DOMAIN q = E /\ DOMAIN b = E /\ DOMAIN d = E /\ DOMAIN s = E
  BY ONLY <1>4
<1>9. \A x \in E : q[x] = p[x] /\ d[x] = RemoveFirst(c[x], n) /\ s[x] = r[x]
  BY ONLY <1>4
<1>10. RemovedFrom(D, p, c, E, q, d, n)
  BY ONLY <1>3, <1>9 DEF RemovedFrom
<1>11. n \in D /\ c[n] = <<>>
  BY ONLY <1>1, n \in DOMAIN t.parent, t.children[n] = <<>>
<1>12. Links(E, q, d)
  BY ONLY <1>2, <1>10, <1>11, RemovedLinks
<1>13. TreeInv(u)
  BY ONLY <1>6, <1>7, <1>8, <1>12 DEF TreeInv, Form
<1> QED BY ONLY <1>1, <1>3, <1>5, <1>7, <1>8, <1>9, <1>13

(* u is t with the list l of properties at n. *)
SetProps(t, u, n, l) == u = [t EXCEPT !.props[n] = l]

OtherProps(t, u, n, l) ==
    /\ TreeInv(u) /\ u.parent = t.parent /\ u.props[n] = l
    /\ \A x \in DOMAIN t.parent : x # n => u.props[x] = t.props[x]

LEMMA WithProps ==
    ASSUME NEW t, NEW n, NEW l, NEW u, TreeInv(t), n \in DOMAIN t.parent, SetProps(t, u, n, l)
    PROVE  OtherProps(t, u, n, l)
<1>1. PICK p, a, c, r : t = [parent |-> p, name |-> a, children |-> c, props |-> r]
  BY DEF TreeInv, Form
<1>2. t.parent = p /\ t.name = a /\ t.children = c /\ t.props = r
  BY ONLY <1>1
<1>3. DOMAIN a = DOMAIN p /\ DOMAIN c = DOMAIN p /\ DOMAIN r = DOMAIN p
      /\ Links(DOMAIN p, p, c) /\ n \in DOMAIN p
  BY <1>2 DEF TreeInv, Form
<1>4. PICK s : s = [r EXCEPT ![n] = l]
  OBVIOUS
<1>5. DOMAIN s = DOMAIN p /\ s[n] = l /\ \A x \in DOMAIN p : x # n => s[x] = r[x]
  BY ONLY <1>3, <1>4
<1>7. u = [parent |-> p, name |-> a, children |-> c, props |-> s]
  BY ONLY <1>1, <1>2, <1>4, SetProps(t, u, n, l) DEF SetProps
<1>8. u.parent = p /\ u.name = a /\ u.children = c /\ u.props = s
  BY ONLY <1>7
<1>9. TreeInv(u)
  BY ONLY <1>3, <1>5, <1>7, <1>8 DEF TreeInv, Form
<1> QED BY ONLY <1>2, <1>5, <1>8, <1>9 DEF OtherProps

(* The objects of the properties of a node. *)
PropsOn(s) == UNION {PropObjects(p) : p \in {s[i].id : i \in DOMAIN s}}

LEMMA PropsOnFacts ==
    ASSUME NEW s, IsSeqn(s)
    PROVE  \A o : o \in PropsOn(s) <=> \E x : In(x, s) /\ o \in PropObjects(x.id)
<1>1. DOMAIN s = 1..Len(s)
  BY SeqnFacts
<1>2. \A k : k \in {s[i].id : i \in DOMAIN s} <=> \E x : In(x, s) /\ x.id = k
  BY ONLY <1>1 DEF In
<1> QED BY ONLY <1>2 DEF PropsOn

LEMMA FirstInFacts ==
    ASSUME NEW s, NEW S, IsSeqn(s)
    PROVE  \/ FirstIn(s, S) = NULL
           \/ In(FirstIn(s, S), s) /\ FirstIn(s, S) \in S
<1>1. DOMAIN s = 1..Len(s) /\ Len(s) \in Nat
  BY SeqnFacts
<1>2. CASE ~ \E i \in DOMAIN s : s[i] \in S
  BY ONLY <1>2 DEF FirstIn
<1>3. CASE \E i \in DOMAIN s : s[i] \in S
  <2>1. PICK I : I = {i \in DOMAIN s : s[i] \in S}
    OBVIOUS
  <2>2. PICK x : x \in I
    BY ONLY <1>3, <2>1
  <2>3. PICK m : m \in I /\ \A n \in I : m <= n
    <3>1. I \subseteq Nat
      BY ONLY <1>1, <2>1
    <3> QED BY ONLY <2>2, <3>1, FirstOfLeast
  <2>4. m \in DOMAIN s /\ s[m] \in S /\ \A j \in 1..(m - 1) : s[j] \notin S
    <3>1. \A j \in 1..(m - 1) : j \in DOMAIN s /\ ~(m <= j)
      BY ONLY <1>1, <2>1, <2>3
    <3> QED BY ONLY <2>1, <2>3, <3>1
  <2>5. PICK k : k = CHOOSE i \in DOMAIN s : s[i] \in S /\ \A j \in 1..(i - 1) : s[j] \notin S
    OBVIOUS
  <2>6. k \in DOMAIN s /\ s[k] \in S
    BY ONLY <2>4, <2>5
  <2>7. FirstIn(s, S) = s[k]
    BY ONLY <1>3, <2>5 DEF FirstIn
  <2> QED BY ONLY <1>1, <2>6, <2>7 DEF In
<1> QED BY ONLY <1>2, <1>3

(* What is found in the tree is in the tree. *)
LEMMA ChildFacts ==
    ASSUME NEW t, NEW n, NEW name, TreeInv(t), n \in DOMAIN t.parent
    PROVE  \/ devicetree_child(t, n, name) = NULL
           \/ /\ devicetree_child(t, n, name) \in DOMAIN t.parent
              /\ t.parent[devicetree_child(t, n, name)] = n
<1>1. PICK s, S : s = t.children[n] /\ S = {m \in DOMAIN t.name : t.name[m] = name}
  OBVIOUS
<1>2. IsSeqn(s) /\ \A x : In(x, s) <=> (x \in DOMAIN t.parent /\ t.parent[x] = n)
  BY <1>1 DEF TreeInv, Links, Kids
<1>3. PICK x : x = FirstIn(s, S)
  OBVIOUS
<1>4. x = devicetree_child(t, n, name)
  BY ONLY <1>1, <1>3 DEF devicetree_child
<1>5. x = NULL \/ In(x, s)
  BY ONLY <1>2, <1>3, FirstInFacts
<1> QED BY ONLY <1>2, <1>4, <1>5

LEMMA PropFacts ==
    ASSUME NEW t, NEW n, NEW name, IsSeqn(t.props[n])
    PROVE  \/ devicetree_prop(t, n, name) = NULL
           \/ In(devicetree_prop(t, n, name), t.props[n])
<1>1. PICK s, S : s = t.props[n] /\ S = {p \in Range(t.props[n]) : p.name = name}
  OBVIOUS
<1>2. PICK x : x = FirstIn(s, S)
  OBVIOUS
<1>3. x = devicetree_prop(t, n, name)
  BY ONLY <1>1, <1>2 DEF devicetree_prop
<1>4. x = NULL \/ In(x, s)
  BY ONLY <1>1, <1>2, FirstInFacts, IsSeqn(t.props[n])
<1> QED BY ONLY <1>1, <1>3, <1>4

LEMMA RootFacts ==
    ASSUME TreeInv(T), Nodes # {}
    PROVE  root \in Nodes /\ T.parent[root] = NULL
<1>1. PICK n : n \in Nodes
  OBVIOUS
<1>2. Links(Nodes, T.parent, T.children)
  BY DEF TreeInv, Nodes
<1>3. PICK r : r \in Nodes /\ T.parent[r] = NULL
  BY ONLY <1>1, <1>2, HasRoot
<1> QED BY ONLY <1>3 DEF root

-----------------------------------------------------------------------------
(* The invariant of the parser.  A node that is to be entered or freed is  *)
(* in the tree; there is none only as long as the tree is empty, and there *)
(* is a tree until devicetree_free has come to its end.                    *)
Placed ==
    /\ pc = "header" => node = NULL /\ Nodes = {}
    /\ pc \in {"struct", "free"} => node \in Nodes \/ (node = NULL /\ Nodes = {})
    /\ pc = "reservations" => node \in Nodes
    /\ pc = "failed" => Nodes = {}
    /\ pc \notin {"header", "struct", "free", "failed"} => Nodes # {}
    /\ ret = "nullptr" => pc = "failed"

DtInv ==
    /\ TreeInv(T)
    /\ fate = "ok" => HeapInv(T, fresh, live) /\ Placed

LEMMA DtStart == DtInit => DtInv
<1> SUFFICES ASSUME DtInit PROVE DtInv
  OBVIOUS
<1>1. /\ T = EmptyTree /\ live = {} /\ fresh = 1 /\ pc = "header" /\ node = NULL /\ ret = "none"
  BY DEF DtInit
<1>2. PICK e : e = <<>> /\ DOMAIN e = {}
  OBVIOUS
<1>3. T = [parent |-> e, name |-> e, children |-> e, props |-> e]
  BY ONLY <1>1, <1>2 DEF EmptyTree
<1>4. T.parent = e /\ T.name = e /\ T.children = e /\ T.props = e
  BY ONLY <1>3
<1>5. Form(T)
  BY ONLY <1>2, <1>3, <1>4 DEF Form
<1>6. Links({}, e, e)
  BY DEF Links, Kids, Up, OneRoot
<1>7. TreeInv(T)
  BY ONLY <1>2, <1>4, <1>5, <1>6 DEF TreeInv
<1>8. Props({}, e, 1, {})
  BY DEF Props, Owned, Apart, HeapIs
<1>9. HeapInv(T, fresh, live)
  BY ONLY <1>1, <1>2, <1>4, <1>8 DEF HeapInv
<1>10. Nodes = {}
  BY ONLY <1>2, <1>4 DEF Nodes
<1>11. Placed
  BY ONLY <1>1, <1>10 DEF Placed
<1> QED BY ONLY <1>7, <1>9, <1>11 DEF DtInv

(* The tree and the heap stay as they are. *)
LEMMA SameTree ==
    ASSUME DtInv, fate = "ok", T' = T, live' = live, fresh' = fresh, Placed'
    PROVE  DtInv'
<1>1. TreeInv(T) /\ HeapInv(T, fresh, live)
  BY DEF DtInv
<1>2. TreeInv(T')
  BY ONLY <1>1, T' = T
<1>3. HeapInv(T', fresh', live')
  BY ONLY <1>1, T' = T, live' = live, fresh' = fresh
<1> QED BY ONLY <1>2, <1>3, Placed' DEF DtInv

LEMMA AfterPanic ==
    ASSUME DtInv, T' = T, fate' # "ok"
    PROVE  DtInv'
<1>1. TreeInv(T)
  BY DEF DtInv
<1>2. TreeInv(T')
  BY ONLY <1>1, T' = T
<1> QED BY ONLY <1>2, fate' # "ok" DEF DtInv

LEMMA StartFreeLemma ==
    ASSUME NEW n, DtInv, fate = "ok", StartFree(n), live' = live, pc # "failed",
           n \in Nodes \/ (n = NULL /\ Nodes = {})
    PROVE  DtInv'
<1>1. CASE n # NULL /\ T.parent[n] # NULL
  <2>1. T' = T /\ fate' = "panic"
    BY ONLY <1>1, StartFree(n) DEF StartFree, Panic
  <2> QED BY ONLY <2>1, DtInv, AfterPanic
<1>2. CASE ~(n # NULL /\ T.parent[n] # NULL)
  <2>1. pc' = "free" /\ node' = n /\ T' = T /\ fresh' = fresh /\ ret' = ret /\ fate' = fate
    BY ONLY <1>2, StartFree(n) DEF StartFree, Goto
  <2>2. Nodes' = Nodes
    BY ONLY <2>1 DEF Nodes
  <2>3. ret # "nullptr"
    BY ONLY DtInv, fate = "ok", pc # "failed" DEF DtInv, Placed
  <2>4. Placed'
    BY ONLY <2>1, <2>2, <2>3, n \in Nodes \/ (n = NULL /\ Nodes = {}) DEF Placed
  <2> QED BY ONLY <2>1, <2>4, DtInv, fate = "ok", live' = live, SameTree
<1> QED BY ONLY <1>1, <1>2

(* Objects that were to be made have numbers that were not given yet. *)
LEMMA NewObjects ==
    ASSUME NEW n, n \in Nat, NEW f, f \in Nat, n >= f
    PROVE  \A o \in NodeObjects(n) \cup PropObjects(n) : o[2] \in Nat /\ o[2] >= f
<1>1. ASSUME NEW o, o \in NodeObjects(n) \cup PropObjects(n) PROVE o[2] = n
  BY ONLY <1>1, Numbered
<1> QED BY ONLY <1>1, n \in Nat, n >= f

LEMMA FreshObjects ==
    ASSUME NEW n, n \in Nat
    PROVE  /\ \A o \in NodeObjects(n) : o[2] \in Nat /\ o[2] >= n
           /\ \A o \in PropObjects(n) : o[2] \in Nat /\ o[2] >= n
<1>1. n >= n
  OBVIOUS
<1>2. \A o \in NodeObjects(n) \cup PropObjects(n) : o[2] \in Nat /\ o[2] >= n
  BY ONLY <1>1, n \in Nat, NewObjects
<1> QED BY ONLY <1>2

LEMMA FreshFacts ==
    ASSUME DtInv, fate = "ok"
    PROVE  /\ fresh \in Nat /\ Props(Nodes, T.props, fresh, live)
           /\ \A n \in Nodes : n \in Nat /\ n < fresh
<1>1. Props(Nodes, T.props, fresh, live)
  BY DEF DtInv, HeapInv, Nodes
<1> QED BY <1>1 DEF Props, Owned

LEMMA OutOfMemoryLemma ==
    ASSUME NEW objects, DtInv, fate = "ok", OutOfMemory(objects),
           \A o \in objects : o[2] \in Nat /\ o[2] >= fresh
    PROVE  live' = live
<1>1. PICK got : got \subseteq objects /\ live' = (live \cup got) \ got
  BY DEF OutOfMemory, Undo
<1>2. Props(Nodes, T.props, fresh, live)
  BY ONLY DtInv, fate = "ok", FreshFacts
<1>3. (live \cup got) \ got = live
  <2>1. \A o \in got : o[2] \in Nat /\ o[2] >= fresh
    BY ONLY <1>1, \A o \in objects : o[2] \in Nat /\ o[2] >= fresh
  <2> QED BY ONLY <1>2, <2>1, GivenBack
<1> QED BY ONLY <1>1, <1>3

LEMMA StructNode ==
    ASSUME DtInv, fate = "ok", pc \in {"struct", "free"}
    PROVE  node \in Nodes \/ (node = NULL /\ Nodes = {})
BY DEF DtInv, Placed

(* Where a node can be put: below m. *)
Slot(t, m) == m \in DOMAIN t.parent \/ (m = NULL /\ DOMAIN t.parent = {})

(* u is t with one more node n, below m. *)
WithNode(t, u, n, m, L) ==
    /\ TreeInv(u) /\ HeapInv(u, n + 1, L \cup NodeObjects(n))
    /\ DOMAIN u.parent = DOMAIN t.parent \cup {n} /\ u.parent[n] = m
    /\ \A x \in DOMAIN t.parent : u.parent[x] = t.parent[x]

LEMMA NodeAdded ==
    ASSUME NEW t, NEW n, NEW m, NEW name, NEW L, NEW u, TreeInv(t), HeapInv(t, n, L),
           Slot(t, m), u = AddNode(t, n, m, name)
    PROVE  WithNode(t, u, n, m, L)
<1>0. m \in DOMAIN t.parent \/ (m = NULL /\ DOMAIN t.parent = {})
  BY DEF Slot
<1>1. PICK D, E, r, s, M : /\ D = DOMAIN t.parent /\ E = DOMAIN u.parent
                           /\ r = t.props /\ s = u.props /\ M = L \cup NodeObjects(n)
  OBVIOUS
<1>2. Props(D, r, n, L)
  BY ONLY <1>1, HeapInv(t, n, L) DEF HeapInv
<1>3. n \in Nat /\ \A x \in D : x < n
  BY ONLY <1>2 DEF Props, Owned
<1>4. \A x \in DOMAIN t.parent : x < n
  BY ONLY <1>1, <1>3
<1>5. /\ TreeInv(u) /\ DOMAIN u.parent = DOMAIN t.parent \cup {n} /\ u.parent[n] = m
      /\ \A x \in DOMAIN t.parent : u.parent[x] = t.parent[x]
      /\ u.props[n] = <<>> /\ \A x \in DOMAIN t.parent : u.props[x] = t.props[x]
  BY ONLY <1>0, <1>3, <1>4, TreeInv(t), u = AddNode(t, n, m, name), AddNodeLemma
<1>6. E = D \cup {n} /\ s[n] = <<>> /\ \A x \in D : s[x] = r[x]
  BY ONLY <1>1, <1>5
<1>7. Only(D, r, E, s, n)
  BY ONLY <1>6 DEF Only
<1>8. PICK g : g = n + 1 /\ g \in Nat /\ g > n /\ n >= n
  BY ONLY <1>3
<1>9. Props(E, s, g, M)
  BY ONLY <1>1, <1>2, <1>3, <1>6, <1>7, <1>8, NewNode
<1>10. HeapInv(u, n + 1, L \cup NodeObjects(n))
  BY ONLY <1>1, <1>8, <1>9 DEF HeapInv
<1> QED BY ONLY <1>5, <1>10 DEF WithNode

(* u is t with one more property, which has the number f. *)
WithProp(t, u, f, L) ==
    TreeInv(u) /\ HeapInv(u, f + 1, L \cup PropObjects(f)) /\ u.parent = t.parent

LEMMA PropAdded ==
    ASSUME NEW t, NEW n, NEW f, NEW e, NEW L, NEW u, TreeInv(t), HeapInv(t, f, L),
           n \in DOMAIN t.parent, f = e.id, u = AddProp(t, n, e)
    PROVE  WithProp(t, u, f, L)
<1>1. PICK D, r, s, M : /\ D = DOMAIN t.parent
                        /\ r = t.props /\ s = u.props /\ M = L \cup PropObjects(f)
  OBVIOUS
<1>2. Props(D, r, f, L) /\ n \in D
  BY ONLY <1>1, HeapInv(t, f, L), n \in DOMAIN t.parent DEF HeapInv
<1>3. f \in Nat
  BY ONLY <1>2 DEF Props, Owned
<1>4. /\ TreeInv(u) /\ u.parent = t.parent /\ u.props[n] = Append(t.props[n], e)
      /\ \A x \in DOMAIN t.parent : x # n => u.props[x] = t.props[x]
  BY ONLY TreeInv(t), n \in DOMAIN t.parent, u = AddProp(t, n, e), AddPropLemma
<1>5. s[n] = Append(r[n], e) /\ \A x \in D : x # n => s[x] = r[x]
  BY ONLY <1>1, <1>4
<1>6. Only(D, r, D, s, n)
  BY ONLY <1>5 DEF Only
<1>7. PICK g : g = f + 1 /\ g \in Nat /\ g > f /\ f >= f
  BY ONLY <1>3
<1>8. M = L \cup PropObjects(f)
  BY ONLY <1>1
<1>9. Props(D, s, g, M)
  BY ONLY <1>2, <1>3, <1>5, <1>6, <1>7, <1>8, f = e.id, NewProp
<1>10. HeapInv(u, f + 1, L \cup PropObjects(f))
  BY ONLY <1>1, <1>4, <1>7, <1>9 DEF HeapInv
<1> QED BY ONLY <1>4, <1>10 DEF WithProp

-----------------------------------------------------------------------------
(* The steps of the parser. *)

LEMMA RefuseLemma ==
    ASSUME NEW n, DtInv, fate = "ok", Refuse(n), pc # "failed",
           n \in Nodes \/ (n = NULL /\ Nodes = {})
    PROVE  DtInv'
<1>1. StartFree(n) /\ live' = live
  BY DEF Refuse
<1> QED BY ONLY <1>1, DtInv, fate = "ok", pc # "failed",
               n \in Nodes \/ (n = NULL /\ Nodes = {}), StartFreeLemma

(* A step of the loop over the structure block. *)
LEMMA Goes ==
    ASSUME DtInv, fate = "ok", pc = "struct", pc' = pc, T' = T, live' = live, fresh' = fresh,
           ret' = ret, fate' = fate, node' \in Nodes \/ (node' = NULL /\ Nodes = {})
    PROVE  DtInv'
<1>1. ret # "nullptr"
  BY DEF DtInv, Placed
<1>2. Nodes' = Nodes
  BY ONLY T' = T DEF Nodes
<1>3. Placed'
  BY ONLY <1>1, <1>2, pc = "struct", pc' = pc, ret' = ret,
          node' \in Nodes \/ (node' = NULL /\ Nodes = {}) DEF Placed
<1> QED BY ONLY <1>3, DtInv, fate = "ok", T' = T, live' = live, fresh' = fresh, SameTree

LEMMA ParseHeaderStep == ASSUME DtInv, ParseHeader PROVE DtInv'
<1>1. fate = "ok" /\ pc = "header"
  BY DEF ParseHeader, Running
<1>2. node = NULL /\ Nodes = {} /\ ret # "nullptr"
  BY <1>1 DEF DtInv, Placed
<1>3. CASE Refuse(NULL)
  BY ONLY <1>1, <1>2, <1>3, DtInv, RefuseLemma
<1>4. CASE ~Refuse(NULL)
  <2>1. pc' = "struct" /\ T' = T /\ node' = node /\ live' = live /\ fresh' = fresh /\ ret' = ret
    BY ONLY <1>4, ParseHeader DEF ParseHeader, Goto
  <2>2. Nodes' = Nodes
    BY ONLY <2>1 DEF Nodes
  <2>3. Placed'
    BY ONLY <1>2, <2>1, <2>2 DEF Placed
  <2> QED BY ONLY <1>1, <2>1, <2>3, DtInv, SameTree
<1> QED BY ONLY <1>3, <1>4

LEMMA BeginNodeStep == ASSUME DtInv, BeginNode PROVE DtInv'
<1>1. fate = "ok" /\ pc = "struct"
  BY DEF BeginNode, Reading, Running
<1>2. node \in Nodes \/ (node = NULL /\ Nodes = {})
  BY ONLY <1>1, DtInv, StructNode
<1>3. fresh \in Nat /\ HeapInv(T, fresh, live) /\ TreeInv(T)
  BY ONLY <1>1, DtInv, FreshFacts DEF DtInv
<1>4. CASE Refuse(node)
  BY ONLY <1>1, <1>2, <1>4, DtInv, RefuseLemma
<1>5. CASE OutOfMemory(NodeObjects(fresh)) /\ StartFree(node)
  <2>1. \A o \in NodeObjects(fresh) : o[2] \in Nat /\ o[2] >= fresh
    BY ONLY <1>3, FreshObjects
  <2>2. live' = live
    BY ONLY <1>1, <1>5, <2>1, DtInv, OutOfMemoryLemma
  <2> QED BY ONLY <1>1, <1>2, <1>5, <2>2, DtInv, StartFreeLemma
<1>6. CASE /\ T' = AddNode(T, fresh, node, Token.name)
           /\ live' = live \cup NodeObjects(fresh)
           /\ node' = fresh /\ fresh' = fresh + 1
           /\ UNCHANGED <<pc, finished, gotEnd, num, oom, ret, fate>>
  <2>0. PICK a : a = Token.name
    OBVIOUS
  <2>1. PICK u : u = AddNode(T, fresh, node, a)
    OBVIOUS
  <2>2. Slot(T, node)
    BY ONLY <1>2 DEF Nodes, Slot
  <2>3a. WithNode(T, u, fresh, node, live)
    BY ONLY <1>3, <2>1, <2>2, NodeAdded
  <2>3. /\ TreeInv(u) /\ HeapInv(u, fresh + 1, live \cup NodeObjects(fresh))
        /\ DOMAIN u.parent = DOMAIN T.parent \cup {fresh}
    BY ONLY <2>3a DEF WithNode
  <2>4. T' = u /\ fresh' = fresh + 1 /\ live' = live \cup NodeObjects(fresh)
    BY ONLY <1>6, <2>0, <2>1
  <2>5. TreeInv(T') /\ HeapInv(T', fresh', live')
    BY ONLY <2>3, <2>4
  <2>6. node' \in Nodes'
    BY ONLY <1>6, <2>3, <2>4 DEF Nodes
  <2>7. ret # "nullptr"
    BY ONLY <1>1, DtInv DEF DtInv, Placed
  <2>8. Placed'
    BY ONLY <1>1, <1>6, <2>6, <2>7 DEF Placed
  <2> QED BY ONLY <2>5, <2>8 DEF DtInv
<1> QED BY ONLY <1>4, <1>5, <1>6, BeginNode DEF BeginNode

LEMMA PropStep == ASSUME DtInv, Prop PROVE DtInv'
<1>1. fate = "ok" /\ pc = "struct"
  BY DEF Prop, Reading, Running
<1>2. node \in Nodes \/ (node = NULL /\ Nodes = {})
  BY ONLY <1>1, DtInv, StructNode
<1>3. fresh \in Nat /\ HeapInv(T, fresh, live) /\ TreeInv(T)
  BY ONLY <1>1, DtInv, FreshFacts DEF DtInv
<1>4. CASE Refuse(node)
  BY ONLY <1>1, <1>2, <1>4, DtInv, RefuseLemma
<1>5. CASE OutOfMemory(PropObjects(fresh)) /\ StartFree(node)
  <2>1. \A o \in PropObjects(fresh) : o[2] \in Nat /\ o[2] >= fresh
    BY ONLY <1>3, FreshObjects
  <2>2. live' = live
    BY ONLY <1>1, <1>5, <2>1, DtInv, OutOfMemoryLemma
  <2> QED BY ONLY <1>1, <1>2, <1>5, <2>2, DtInv, StartFreeLemma
<1>6. CASE /\ ~(node = NULL \/ finished)
           /\ T' = AddProp(T, node, [id |-> fresh, name |-> Token.name, value |-> Token.value])
           /\ live' = live \cup PropObjects(fresh)
           /\ fresh' = fresh + 1
           /\ UNCHANGED <<pc, node, finished, gotEnd, num, oom, ret, fate>>
  <2>0. PICK e : e = [id |-> fresh, name |-> Token.name, value |-> Token.value]
    OBVIOUS
  <2>1. PICK u : u = AddProp(T, node, e)
    OBVIOUS
  <2>2. node \in DOMAIN T.parent
    BY ONLY <1>2, <1>6 DEF Nodes
  <2>3. fresh = e.id
    BY ONLY <2>0
  <2>4a. WithProp(T, u, fresh, live)
    BY ONLY <1>3, <2>1, <2>2, <2>3, PropAdded
  <2>4. TreeInv(u) /\ HeapInv(u, fresh + 1, live \cup PropObjects(fresh)) /\ u.parent = T.parent
    BY ONLY <2>4a DEF WithProp
  <2>5. T' = u /\ fresh' = fresh + 1 /\ live' = live \cup PropObjects(fresh)
    BY ONLY <1>6, <2>0, <2>1
  <2>6. TreeInv(T') /\ HeapInv(T', fresh', live')
    BY ONLY <2>4, <2>5
  <2>7. node' \in Nodes'
    BY ONLY <1>6, <2>2, <2>4, <2>5 DEF Nodes
  <2>8. ret # "nullptr"
    BY ONLY <1>1, DtInv DEF DtInv, Placed
  <2>9. Placed'
    BY ONLY <1>1, <1>6, <2>7, <2>8 DEF Placed
  <2> QED BY ONLY <2>6, <2>9 DEF DtInv
<1> QED BY ONLY <1>4, <1>5, <1>6, Prop DEF Prop

LEMMA EndNodeStep == ASSUME DtInv, EndNode PROVE DtInv'
<1>1. fate = "ok" /\ pc = "struct"
  BY DEF EndNode, Reading, Running
<1>2. node \in Nodes \/ (node = NULL /\ Nodes = {})
  BY ONLY <1>1, DtInv, StructNode
<1>3. CASE Refuse(node)
  BY ONLY <1>1, <1>2, <1>3, DtInv, RefuseLemma
<1>4. CASE /\ node # NULL
           /\ (node' = T.parent[node] /\ T.parent[node] # NULL) \/ node' = node
           /\ UNCHANGED <<pc, T, live, fresh, ret, fate>>
  <2>1. node \in Nodes
    BY ONLY <1>2, <1>4
  <2>2. T.parent[node] = NULL \/ T.parent[node] \in Nodes
    BY ONLY <2>1, DtInv DEF DtInv, TreeInv, Links, Up, Nodes
  <2>3. node' \in Nodes
    BY ONLY <1>4, <2>1, <2>2
  <2> QED BY ONLY <1>1, <1>4, <2>3, DtInv, Goes
<1> QED BY ONLY <1>3, <1>4, EndNode DEF EndNode

LEMMA NopStep == ASSUME DtInv, Nop PROVE DtInv'
<1>1. fate = "ok" /\ pc = "struct" /\ UNCHANGED <<pc, T, node, live, fresh, ret, fate>>
  BY DEF Nop, Reading, Running
<1>2. node \in Nodes \/ (node = NULL /\ Nodes = {})
  BY ONLY <1>1, DtInv, StructNode
<1> QED BY ONLY <1>1, <1>2, DtInv, Goes

LEMMA EndStep == ASSUME DtInv, End PROVE DtInv'
<1>1. fate = "ok" /\ pc = "struct"
  BY DEF End, Reading, Running
<1>2. node \in Nodes \/ (node = NULL /\ Nodes = {})
  BY ONLY <1>1, DtInv, StructNode
<1>3. CASE Refuse(node)
  BY ONLY <1>1, <1>2, <1>3, DtInv, RefuseLemma
<1>4. CASE UNCHANGED <<pc, T, node, live, fresh, ret, fate>>
  BY ONLY <1>1, <1>2, <1>4, DtInv, Goes
<1> QED BY ONLY <1>3, <1>4, End DEF End

LEMMA UnknownTokenStep == ASSUME DtInv, UnknownToken PROVE DtInv'
<1>1. T' = T /\ fate' # "ok"
  BY DEF UnknownToken, Panic
<1> QED BY ONLY <1>1, DtInv, AfterPanic

LEMMA StructEndStep == ASSUME DtInv, StructEnd PROVE DtInv'
<1>1. fate = "ok" /\ pc = "struct"
  BY DEF StructEnd, Running
<1>2. node \in Nodes \/ (node = NULL /\ Nodes = {})
  BY ONLY <1>1, DtInv, StructNode
<1>3. CASE Refuse(node)
  BY ONLY <1>1, <1>2, <1>3, DtInv, RefuseLemma
<1>4. CASE node # NULL /\ pc' = "reserved-memory" /\ UNCHANGED <<T, node, live, fresh, ret, fate>>
  <2>1. Nodes # {} /\ Nodes' = Nodes
    BY ONLY <1>2, <1>4 DEF Nodes
  <2>2. ret # "nullptr"
    BY ONLY <1>1, DtInv DEF DtInv, Placed
  <2>3. Placed'
    BY ONLY <1>4, <2>1, <2>2 DEF Placed
  <2> QED BY ONLY <1>1, <1>4, <2>3, DtInv, SameTree
<1> QED BY ONLY <1>3, <1>4, StructEnd DEF StructEnd, Goto

-----------------------------------------------------------------------------
(* devicetree_add_reservations. *)

ReservedName == "reserved-memory"
Required(i) == [id |-> fresh + i, name |-> RequiredProps[i].name,
                value |-> RequiredProps[i].value]

ReservedRun(g, k) ==
    g = [i \in 0..k |-> IF i = 0 THEN AddNode(T, fresh, root, ReservedName)
                        ELSE AddProp(g[i - 1], fresh, Required(i))]

(* a, b, c, d are the tree with the node and 0 to 3 of its properties. *)
ReservedTrees(a, b, c, d) ==
    /\ a = AddNode(T, fresh, root, ReservedName)
    /\ b = AddProp(a, fresh, Required(1))
    /\ c = AddProp(b, fresh, Required(2))
    /\ d = AddProp(c, fresh, Required(3))

LEMMA ReservedLoop ==
    ASSUME NEW a, NEW b, NEW c, NEW d, ReservedTrees(a, b, c, d), NEW k, k \in 0..3
    PROVE  WithReservedMemory(k) = IF k = 0 THEN a ELSE IF k = 1 THEN b ELSE IF k = 2 THEN c ELSE d
<1>1. PICK g : g = [i \in 0..k |-> IF i = 0 THEN a ELSE IF i = 1 THEN b
                                   ELSE IF i = 2 THEN c ELSE d]
  OBVIOUS
<1>2. ASSUME NEW i \in 0..k
      PROVE  g[i] = IF i = 0 THEN AddNode(T, fresh, root, ReservedName)
                    ELSE AddProp(g[i - 1], fresh, Required(i))
  <2>1. CASE i = 0
    BY ONLY <1>1, <2>1, k \in 0..3, ReservedTrees(a, b, c, d) DEF ReservedTrees
  <2>2. CASE i = 1
    <3>1. 0 \in 0..k /\ i - 1 = 0
      BY ONLY <2>2, i \in 0..k, k \in 0..3
    <3>2. g[i] = b /\ g[i - 1] = a
      BY ONLY <1>1, <2>2, <3>1, i \in 0..k
    <3> QED BY ONLY <2>2, <3>2, ReservedTrees(a, b, c, d) DEF ReservedTrees
  <2>3. CASE i = 2
    <3>1. 1 \in 0..k /\ i - 1 = 1
      BY ONLY <2>3, i \in 0..k, k \in 0..3
    <3>2. g[i] = c /\ g[i - 1] = b
      BY ONLY <1>1, <2>3, <3>1, i \in 0..k
    <3> QED BY ONLY <2>3, <3>2, ReservedTrees(a, b, c, d) DEF ReservedTrees
  <2>4. CASE i = 3
    <3>1. 2 \in 0..k /\ i - 1 = 2
      BY ONLY <2>4, i \in 0..k, k \in 0..3
    <3>2. g[i] = d /\ g[i - 1] = c
      BY ONLY <1>1, <2>4, <3>1, i \in 0..k
    <3> QED BY ONLY <2>4, <3>2, ReservedTrees(a, b, c, d) DEF ReservedTrees
  <2>5. i = 0 \/ i = 1 \/ i = 2 \/ i = 3
    BY ONLY i \in 0..k, k \in 0..3
  <2> QED BY ONLY <2>1, <2>2, <2>3, <2>4, <2>5
<1>3. ReservedRun(g, k)
  <2>1. DOMAIN g = 0..k /\ g = [i \in DOMAIN g |-> g[i]]
    BY ONLY <1>1
  <2> QED BY ONLY <1>2, <2>1 DEF ReservedRun
<1>4. PICK h : h = CHOOSE f : ReservedRun(f, k)
  OBVIOUS
<1>5. ReservedRun(h, k)
  BY ONLY <1>3, <1>4
<1>5a. \A i \in 0..k : i # 0 => h[i] = AddProp(h[i - 1], fresh, Required(i))
  BY ONLY <1>5 DEF ReservedRun
<1>6. WithReservedMemory(k) = h[k]
  BY ONLY <1>4 DEF WithReservedMemory, ReservedRun, Required, ReservedName
<1>7. 0 \in 0..k /\ h[0] = a
  BY ONLY <1>5, k \in 0..3, ReservedTrees(a, b, c, d) DEF ReservedRun, ReservedTrees
<1>8. ASSUME k >= 1 PROVE 1 \in 0..k /\ h[1] = b
  <2>1. 1 \in 0..k /\ 1 - 1 = 0
    BY ONLY <1>8, k \in 0..3
  <2>2. h[1] = AddProp(h[1 - 1], fresh, Required(1))
    BY ONLY <1>5a, <2>1
  <2> QED BY ONLY <1>7, <2>1, <2>2, ReservedTrees(a, b, c, d) DEF ReservedTrees
<1>9. ASSUME k >= 2 PROVE 2 \in 0..k /\ h[2] = c
  <2>1. 2 \in 0..k /\ 2 - 1 = 1 /\ k >= 1
    BY ONLY <1>9, k \in 0..3
  <2>2. h[2] = AddProp(h[2 - 1], fresh, Required(2))
    BY ONLY <1>5a, <2>1
  <2> QED BY ONLY <1>8, <2>1, <2>2, ReservedTrees(a, b, c, d) DEF ReservedTrees
<1>10. ASSUME k = 3 PROVE h[3] = d
  <2>1. 3 \in 0..k /\ 3 - 1 = 2 /\ k >= 2
    BY ONLY <1>10, k \in 0..3
  <2>2. h[3] = AddProp(h[3 - 1], fresh, Required(3))
    BY ONLY <1>5a, <2>1
  <2> QED BY ONLY <1>9, <2>1, <2>2, ReservedTrees(a, b, c, d) DEF ReservedTrees
<1>11. (k = 1 => h[k] = b) /\ (k = 2 => h[k] = c) /\ (k = 3 => h[k] = d) /\ (k = 0 => h[k] = a)
  BY ONLY <1>7, <1>8, <1>9, <1>10, k \in 0..3
<1>12. k = 0 \/ k = 1 \/ k = 2 \/ k = 3
  BY ONLY k \in 0..3
<1> QED BY ONLY <1>6, <1>11, <1>12

LEMMA Raise ==
    ASSUME NEW t, NEW f, NEW g, NEW L, HeapInv(t, f, L), g \in Nat, g >= f
    PROVE  HeapInv(t, g, L)
<1>1. PICK D, r : D = DOMAIN t.parent /\ r = t.props
  OBVIOUS
<1>2. Owned(D, r, f) /\ Apart(D, r) /\ HeapIs(L, D, r)
  BY ONLY <1>1, HeapInv(t, f, L) DEF HeapInv, Props
<1>3. /\ f \in Nat
      /\ \A n \in D : /\ n \in Nat /\ n < f /\ IsSeqn(r[n]) /\ Distinct(r[n])
                      /\ \A x : In(x, r[n]) => x.id \in Nat /\ x.id < f /\ x.id \notin D
  BY ONLY <1>2 DEF Owned
<1>4. \A n \in D : n < g
  BY ONLY <1>3, g \in Nat, g >= f
<1>5. \A n \in D : \A x : In(x, r[n]) => x.id < g
  <2>1. \A k \in Nat : k < f => k < g
    BY ONLY <1>3, g \in Nat, g >= f
  <2> QED BY ONLY <1>3, <2>1
<1>6. Owned(D, r, g)
  BY ONLY <1>3, <1>4, <1>5, g \in Nat DEF Owned
<1> QED BY ONLY <1>1, <1>2, <1>6 DEF HeapInv, Props

(* What is on the heap with the first k properties of the new node. *)
ReservedHeap(k) == live \cup NodeObjects(fresh) \cup UNION {PropObjects(fresh + i) : i \in 1..k}

LEMMA ReservedHeaps ==
    ASSUME fresh \in Nat
    PROVE  /\ ReservedHeap(0) = live \cup NodeObjects(fresh)
           /\ ReservedHeap(1) = ReservedHeap(0) \cup PropObjects(fresh + 1)
           /\ ReservedHeap(2) = ReservedHeap(1) \cup PropObjects(fresh + 2)
           /\ ReservedHeap(3) = ReservedHeap(2) \cup PropObjects(fresh + 3)
<1> DEFINE P(i) == PropObjects(fresh + i)
<1> HIDE DEF P
<1>1. \A k : ReservedHeap(k) = live \cup NodeObjects(fresh) \cup UNION {P(i) : i \in 1..k}
  BY DEF ReservedHeap, P
<1>2. UNION {P(i) : i \in 1..0} = {}
  OBVIOUS
<1>3. ASSUME NEW k \in 0..2
      PROVE  UNION {P(i) : i \in 1..(k + 1)} = (UNION {P(i) : i \in 1..k}) \cup P(k + 1)
  <2>1. \A i : i \in 1..(k + 1) <=> (i \in 1..k \/ i = k + 1)
    OBVIOUS
  <2>2. \A x : x \in UNION {P(i) : i \in 1..(k + 1)}
               <=> (x \in UNION {P(i) : i \in 1..k} \/ x \in P(k + 1))
    BY ONLY <2>1
  <2> QED BY ONLY <2>2
<1>4. /\ ReservedHeap(0) = live \cup NodeObjects(fresh)
      /\ ReservedHeap(0 + 1) = ReservedHeap(0) \cup P(0 + 1)
      /\ ReservedHeap(1 + 1) = ReservedHeap(1) \cup P(1 + 1)
      /\ ReservedHeap(2 + 1) = ReservedHeap(2) \cup P(2 + 1)
  <2>1. ReservedHeap(0) = live \cup NodeObjects(fresh)
    BY ONLY <1>1, <1>2
  <2>2. ASSUME NEW k \in 0..2 PROVE ReservedHeap(k + 1) = ReservedHeap(k) \cup P(k + 1)
    BY ONLY <1>1, <1>3, k \in 0..2
  <2> QED BY ONLY <2>1, <2>2
<1>5. 0 + 1 = 1 /\ 1 + 1 = 2 /\ 2 + 1 = 3
  OBVIOUS
<1>6. P(1) = PropObjects(fresh + 1) /\ P(2) = PropObjects(fresh + 2) /\ P(3) = PropObjects(fresh + 3)
  BY DEF P
<1> QED BY ONLY <1>4, <1>5, <1>6

(* x is the tree with the new node and its first k properties. *)
Reserved(x, k) ==
    /\ TreeInv(x) /\ HeapInv(x, fresh + (k + 1), ReservedHeap(k))
    /\ DOMAIN x.parent = Nodes \cup {fresh}

LEMMA ReservedNext ==
    ASSUME NEW x, NEW y, NEW k, k \in 0..2, fresh \in Nat, Reserved(x, k),
           y = AddProp(x, fresh, Required(k + 1)),
           ReservedHeap(k + 1) = ReservedHeap(k) \cup PropObjects(fresh + (k + 1))
    PROVE  Reserved(y, k + 1)
<1>1. PICK f, g, e, L, M : /\ f = fresh + (k + 1) /\ g = fresh + ((k + 1) + 1)
                           /\ e = Required(k + 1) /\ L = ReservedHeap(k) /\ M = ReservedHeap(k + 1)
  OBVIOUS
<1>2. TreeInv(x) /\ HeapInv(x, f, L) /\ DOMAIN x.parent = Nodes \cup {fresh}
  BY ONLY <1>1, Reserved(x, k) DEF Reserved
<1>3. f = e.id
  BY ONLY <1>1 DEF Required
<1>4. fresh \in DOMAIN x.parent
  BY ONLY <1>2
<1>5. y = AddProp(x, fresh, e)
  BY ONLY <1>1, y = AddProp(x, fresh, Required(k + 1))
<1>6. WithProp(x, y, f, L)
  BY ONLY <1>2, <1>3, <1>4, <1>5, PropAdded
<1>7. g = f + 1
  BY ONLY <1>1, k \in 0..2, fresh \in Nat
<1>8. M = L \cup PropObjects(f)
  BY ONLY <1>1, ReservedHeap(k + 1) = ReservedHeap(k) \cup PropObjects(fresh + (k + 1))
<1>9. TreeInv(y) /\ HeapInv(y, g, M) /\ y.parent = x.parent
  BY ONLY <1>6, <1>7, <1>8 DEF WithProp
<1> QED BY ONLY <1>1, <1>2, <1>9 DEF Reserved

LEMMA ReservedTreesLemma ==
    ASSUME NEW a, NEW b, NEW c, NEW d, ReservedTrees(a, b, c, d),
           DtInv, fate = "ok", Nodes # {}
    PROVE  Reserved(a, 0) /\ Reserved(b, 1) /\ Reserved(c, 2) /\ Reserved(d, 3)
<1>1. fresh \in Nat /\ HeapInv(T, fresh, live) /\ TreeInv(T)
  BY ONLY DtInv, fate = "ok", FreshFacts DEF DtInv
<1>2. root \in Nodes
  BY ONLY <1>1, RootFacts, Nodes # {}
<1>3. Slot(T, root)
  BY ONLY <1>2 DEF Slot, Nodes
<1>4. PICK nm : nm = ReservedName
  OBVIOUS
<1>5. a = AddNode(T, fresh, root, nm)
  BY ONLY <1>4, ReservedTrees(a, b, c, d) DEF ReservedTrees
<1>6. WithNode(T, a, fresh, root, live)
  BY ONLY <1>1, <1>3, <1>5, NodeAdded
<1>7. Reserved(a, 0)
  <2>1. /\ TreeInv(a) /\ HeapInv(a, fresh + 1, live \cup NodeObjects(fresh))
        /\ DOMAIN a.parent = DOMAIN T.parent \cup {fresh}
    BY ONLY <1>6 DEF WithNode
  <2>2. 0 + 1 = 1
    OBVIOUS
  <2>3. ReservedHeap(0) = live \cup NodeObjects(fresh)
    BY ONLY <1>1, ReservedHeaps
  <2> QED BY ONLY <2>1, <2>2, <2>3 DEF Reserved, Nodes
<1>8. 0 + 1 = 1 /\ 1 + 1 = 2 /\ 2 + 1 = 3 /\ 0 \in 0..2 /\ 1 \in 0..2 /\ 2 \in 0..2
  OBVIOUS
<1>9. /\ ReservedHeap(1) = ReservedHeap(0) \cup PropObjects(fresh + 1)
      /\ ReservedHeap(2) = ReservedHeap(1) \cup PropObjects(fresh + 2)
      /\ ReservedHeap(3) = ReservedHeap(2) \cup PropObjects(fresh + 3)
  BY ONLY <1>1, ReservedHeaps
<1>10. /\ b = AddProp(a, fresh, Required(1)) /\ c = AddProp(b, fresh, Required(2))
       /\ d = AddProp(c, fresh, Required(3))
  BY ONLY ReservedTrees(a, b, c, d) DEF ReservedTrees
<1>11. Reserved(b, 1)
  BY ONLY <1>1, <1>7, <1>8, <1>9, <1>10, ReservedNext
<1>12. Reserved(c, 2)
  BY ONLY <1>1, <1>11, <1>8, <1>9, <1>10, ReservedNext
<1>13. Reserved(d, 3)
  BY ONLY <1>1, <1>12, <1>8, <1>9, <1>10, ReservedNext
<1> QED BY ONLY <1>7, <1>11, <1>12, <1>13

LEMMA ReservedLemma ==
    ASSUME DtInv, fate = "ok", Nodes # {}, NEW k, k \in 0..3
    PROVE  Reserved(WithReservedMemory(k), k)
<1>1. PICK a : a = AddNode(T, fresh, root, ReservedName)
  OBVIOUS
<1>2. PICK b : b = AddProp(a, fresh, Required(1))
  OBVIOUS
<1>3. PICK c : c = AddProp(b, fresh, Required(2))
  OBVIOUS
<1>4. PICK d : d = AddProp(c, fresh, Required(3))
  OBVIOUS
<1>5. ReservedTrees(a, b, c, d)
  BY ONLY <1>1, <1>2, <1>3, <1>4 DEF ReservedTrees
<1>6. Reserved(a, 0) /\ Reserved(b, 1) /\ Reserved(c, 2) /\ Reserved(d, 3)
  BY ONLY <1>5, DtInv, fate = "ok", Nodes # {}, ReservedTreesLemma
<1>7. WithReservedMemory(k) = IF k = 0 THEN a ELSE IF k = 1 THEN b ELSE IF k = 2 THEN c ELSE d
  BY ONLY <1>5, k \in 0..3, ReservedLoop
<1>8. k = 0 \/ k = 1 \/ k = 2 \/ k = 3
  BY ONLY k \in 0..3
<1> QED BY ONLY <1>6, <1>7, <1>8

LEMMA ReservedMemoryStep == ASSUME DtInv, ReservedMemory PROVE DtInv'
<1>1. fate = "ok" /\ pc = "reserved-memory"
  BY DEF ReservedMemory, Running
<1>2. Nodes # {} /\ ret # "nullptr"
  BY ONLY <1>1, DtInv DEF DtInv, Placed
<1>3. fresh \in Nat /\ HeapInv(T, fresh, live) /\ TreeInv(T)
  BY ONLY <1>1, DtInv, FreshFacts DEF DtInv
<1>4. root \in Nodes
  BY ONLY <1>2, <1>3, RootFacts
<1>5. PICK found : found = devicetree_child(T, root, "reserved-memory")
  OBVIOUS
<1>6. CASE /\ found # NULL
           /\ pc' = "reservations" /\ node' = found
           /\ UNCHANGED <<here, T, finished, gotEnd, num, live, fresh, oom, ret, fate>>
  <2>1. PICK nm : nm = "reserved-memory"
    OBVIOUS
  <2>2. found = devicetree_child(T, root, nm) /\ root \in DOMAIN T.parent
    BY ONLY <1>4, <1>5, <2>1 DEF Nodes
  <2>3. found \in DOMAIN T.parent
    BY ONLY <1>3, <1>6, <2>2, ChildFacts
  <2>4. Nodes' = Nodes /\ node' \in Nodes
    BY ONLY <1>6, <2>3 DEF Nodes
  <2>5. Placed'
    BY ONLY <1>2, <1>6, <2>4 DEF Placed
  <2> QED BY ONLY <1>1, <1>6, <2>5, DtInv, SameTree
<1>7. CASE OutOfMemory(NodeObjects(fresh)) /\ StartFree(root)
  <2>1. \A o \in NodeObjects(fresh) : o[2] \in Nat /\ o[2] >= fresh
    BY ONLY <1>3, FreshObjects
  <2>2. live' = live
    BY ONLY <1>1, <1>7, <2>1, DtInv, OutOfMemoryLemma
  <2> QED BY ONLY <1>1, <1>4, <1>7, <2>2, DtInv, StartFreeLemma
<1>8. ASSUME NEW k \in 0..2, NEW got, got \subseteq PropObjects(fresh + k + 1),
             T' = WithReservedMemory(k), live' = (ReservedHeap(k) \cup got) \ got,
             fresh' = fresh + 4, pc' = "free", node' = root, ret' = ret
      PROVE  DtInv'
  <2>1. Reserved(WithReservedMemory(k), k)
    BY ONLY <1>1, <1>2, DtInv, ReservedLemma, k \in 0..2
  <2>2. PICK x, f, L : x = WithReservedMemory(k) /\ f = fresh + (k + 1) /\ L = ReservedHeap(k)
    OBVIOUS
  <2>3. TreeInv(x) /\ HeapInv(x, f, L) /\ DOMAIN x.parent = Nodes \cup {fresh}
    BY ONLY <2>1, <2>2 DEF Reserved
  <2>4. Props(DOMAIN x.parent, x.props, f, L)
    BY ONLY <2>3 DEF HeapInv
  <2>5. f \in Nat /\ f = fresh + k + 1 /\ fresh + 4 \in Nat /\ fresh + 4 >= f
    BY ONLY <1>3, <2>2, k \in 0..2
  <2>6. \A o \in PropObjects(f) : o[2] \in Nat /\ o[2] >= f
    BY ONLY <2>5, FreshObjects
  <2>7. \A o \in got : o[2] \in Nat /\ o[2] >= f
    BY ONLY <2>5, <2>6, got \subseteq PropObjects(fresh + k + 1)
  <2>8. (L \cup got) \ got = L
    BY ONLY <2>4, <2>7, GivenBack
  <2>9. T' = x /\ live' = L
    BY ONLY <1>8, <2>2, <2>8
  <2>10. PICK g : g = fresh + 4
    OBVIOUS
  <2>11. HeapInv(x, g, L)
    BY ONLY <2>3, <2>5, <2>10, Raise
  <2>12. HeapInv(T', fresh', live') /\ TreeInv(T')
    BY ONLY <1>8, <2>3, <2>9, <2>10, <2>11
  <2>13. node' \in Nodes'
    BY ONLY <1>4, <1>8, <2>3, <2>9 DEF Nodes
  <2>14. Placed'
    BY ONLY <1>2, <1>8, <2>13 DEF Placed
  <2> QED BY ONLY <2>12, <2>14 DEF DtInv
<1>9. CASE /\ T' = WithReservedMemory(3) /\ live' = ReservedHeap(3)
           /\ fresh' = fresh + 4 /\ pc' = "reservations" /\ node' = fresh /\ ret' = ret
  <2>1. Reserved(WithReservedMemory(3), 3)
    BY ONLY <1>1, <1>2, DtInv, ReservedLemma
  <2>2. PICK x, f, L : x = WithReservedMemory(3) /\ f = fresh + (3 + 1) /\ L = ReservedHeap(3)
    OBVIOUS
  <2>3. TreeInv(x) /\ HeapInv(x, f, L) /\ DOMAIN x.parent = Nodes \cup {fresh}
    BY ONLY <2>1, <2>2 DEF Reserved
  <2>4. T' = x /\ live' = L /\ fresh' = f
    BY ONLY <1>3, <1>9, <2>2
  <2>5. node' \in Nodes'
    BY ONLY <1>9, <2>3, <2>4 DEF Nodes
  <2>6. Placed'
    BY ONLY <1>2, <1>9, <2>5 DEF Placed
  <2>7. HeapInv(T', fresh', live') /\ TreeInv(T')
    BY ONLY <2>3, <2>4
  <2> QED BY ONLY <2>6, <2>7 DEF DtInv
<1>10. \/ /\ found # NULL
          /\ pc' = "reservations" /\ node' = found
          /\ UNCHANGED <<here, T, finished, gotEnd, num, live, fresh, oom, ret, fate>>
       \/ OutOfMemory(NodeObjects(fresh)) /\ StartFree(root)
       \/ \E k \in 0..2 : \E got \in SUBSET PropObjects(fresh + k + 1) :
             /\ T' = WithReservedMemory(k) /\ live' = (ReservedHeap(k) \cup got) \ got
             /\ fresh' = fresh + 4 /\ pc' = "free" /\ node' = root /\ ret' = ret
       \/ /\ T' = WithReservedMemory(3) /\ live' = ReservedHeap(3)
          /\ fresh' = fresh + 4 /\ pc' = "reservations" /\ node' = fresh /\ ret' = ret
  <2> DEFINE added(k) == NodeObjects(fresh) \cup UNION {PropObjects(fresh + i) : i \in 1..k}
  <2>1. \A k : live \cup added(k) = ReservedHeap(k)
    BY DEF ReservedHeap
  <2> HIDE DEF added
  <2>2. \/ /\ found # NULL
           /\ pc' = "reservations" /\ node' = found
           /\ UNCHANGED <<here, T, finished, gotEnd, num, live, fresh, oom, ret, fate>>
        \/ OutOfMemory(NodeObjects(fresh)) /\ StartFree(root)
        \/ \E k \in 0..2 :
              /\ T' = WithReservedMemory(k)
              /\ \E got \in SUBSET PropObjects(fresh + k + 1) :
                    live' = (live \cup added(k) \cup got) \ Undo(got)
              /\ fresh' = fresh + 4 /\ pc' = "free" /\ node' = root /\ ret' = ret
        \/ /\ T' = WithReservedMemory(3) /\ live' = live \cup added(3)
           /\ fresh' = fresh + 4 /\ pc' = "reservations" /\ node' = fresh /\ ret' = ret
    BY ONLY <1>5, ReservedMemory DEF ReservedMemory, Goto, added
  <2>3. \A got : Undo(got) = got
    BY DEF Undo
  <2> QED BY ONLY <2>1, <2>2, <2>3
<1> QED BY ONLY <1>6, <1>7, <1>8, <1>9, <1>10

LEMMA AddReservationStep == ASSUME DtInv, AddReservation PROVE DtInv'
<1>1. fate = "ok" /\ pc = "reservations"
  BY DEF AddReservation, Running
<1>2. node \in Nodes /\ Nodes # {} /\ ret # "nullptr"
  BY ONLY <1>1, DtInv DEF DtInv, Placed
<1>3. fresh \in Nat /\ HeapInv(T, fresh, live) /\ TreeInv(T)
  BY ONLY <1>1, DtInv, FreshFacts DEF DtInv
<1>4. root \in Nodes
  BY ONLY <1>2, <1>3, RootFacts
<1>5. CASE Refuse(root)
  BY ONLY <1>1, <1>4, <1>5, DtInv, RefuseLemma
<1>6. CASE OutOfMemory(NodeObjects(fresh) \cup PropObjects(fresh + 1)) /\ StartFree(root)
  <2>1. \A o \in NodeObjects(fresh) : o[2] \in Nat /\ o[2] >= fresh
    BY ONLY <1>3, FreshObjects
  <2>2. \A o \in PropObjects(fresh + 1) : o[2] \in Nat /\ o[2] >= fresh
    <3>1. PICK g : g = fresh + 1 /\ g \in Nat /\ g >= fresh
      BY ONLY <1>3
    <3>2. \A o \in NodeObjects(g) \cup PropObjects(g) : o[2] \in Nat /\ o[2] >= fresh
      BY ONLY <1>3, <3>1, NewObjects
    <3> QED BY ONLY <3>1, <3>2
  <2>3. PICK objects : objects = NodeObjects(fresh) \cup PropObjects(fresh + 1)
    OBVIOUS
  <2>4. \A o \in objects : o[2] \in Nat /\ o[2] >= fresh
    BY ONLY <2>1, <2>2, <2>3
  <2>5. OutOfMemory(objects)
    BY ONLY <1>6, <2>3
  <2>6. live' = live
    BY ONLY <1>1, <2>4, <2>5, DtInv, OutOfMemoryLemma
  <2> QED BY ONLY <1>1, <1>4, <1>6, <2>6, DtInv, StartFreeLemma
<1>7. CASE T' = T /\ fate' = "undefined"
  BY ONLY <1>7, DtInv, AfterPanic
<1>8. ASSUME NEW nm, NEW reg, reg.id = fresh + 1,
             T' = AddProp(AddNode(T, fresh, node, nm), fresh, reg),
             live' = live \cup NodeObjects(fresh) \cup PropObjects(fresh + 1),
             fresh' = fresh + 2, UNCHANGED <<pc, node, ret, fate>>
      PROVE  DtInv'
  <2>1. PICK a, f, L : /\ a = AddNode(T, fresh, node, nm) /\ f = fresh + 1
                       /\ L = live \cup NodeObjects(fresh)
    OBVIOUS
  <2>2. Slot(T, node)
    BY ONLY <1>2 DEF Slot, Nodes
  <2>3. WithNode(T, a, fresh, node, live)
    BY ONLY <1>3, <2>1, <2>2, NodeAdded
  <2>4. TreeInv(a) /\ HeapInv(a, f, L) /\ DOMAIN a.parent = DOMAIN T.parent \cup {fresh}
    BY ONLY <2>1, <2>3 DEF WithNode
  <2>5. PICK b : b = AddProp(a, fresh, reg)
    OBVIOUS
  <2>6. fresh \in DOMAIN a.parent /\ f = reg.id
    BY ONLY <1>8, <2>1, <2>4
  <2>7. WithProp(a, b, f, L)
    BY ONLY <2>4, <2>5, <2>6, PropAdded
  <2>8. TreeInv(b) /\ HeapInv(b, f + 1, L \cup PropObjects(f)) /\ b.parent = a.parent
    BY ONLY <2>7 DEF WithProp
  <2>9. T' = b /\ live' = L \cup PropObjects(f) /\ fresh' = f + 1
    BY ONLY <1>3, <1>8, <2>1, <2>5
  <2>10. TreeInv(T') /\ HeapInv(T', fresh', live')
    BY ONLY <2>8, <2>9
  <2>11. node' \in Nodes'
    BY ONLY <1>2, <1>8, <2>4, <2>8, <2>9 DEF Nodes
  <2>12. Placed'
    BY ONLY <1>1, <1>2, <1>8, <2>11 DEF Placed
  <2> QED BY ONLY <2>10, <2>12 DEF DtInv
<1>9. \/ Refuse(root)
      \/ OutOfMemory(NodeObjects(fresh) \cup PropObjects(fresh + 1)) /\ StartFree(root)
      \/ T' = T /\ fate' = "undefined"
      \/ \E nm, reg : /\ reg.id = fresh + 1
                      /\ T' = AddProp(AddNode(T, fresh, node, nm), fresh, reg)
                      /\ live' = live \cup NodeObjects(fresh) \cup PropObjects(fresh + 1)
                      /\ fresh' = fresh + 2 /\ UNCHANGED <<pc, node, ret, fate>>
  <2> DEFINE cells == devicetree_address_size_cells(T, node)
             value == CellsOf(Reservation.address, cells[1]) \o CellsOf(Reservation.size, cells[2])
             reg == [id |-> fresh + 1, name |-> "reg", value |-> value]
             name == BlockName(NextNumber)
  <2>1. \/ Refuse(root)
        \/ OutOfMemory(NodeObjects(fresh) \cup PropObjects(fresh + 1)) /\ StartFree(root)
        \/ T' = T /\ fate' = "undefined"
        \/ /\ T' = AddProp(AddNode(T, fresh, node, name), fresh, reg)
           /\ live' = live \cup NodeObjects(fresh) \cup PropObjects(fresh + 1)
           /\ fresh' = fresh + 2 /\ UNCHANGED <<pc, node, ret, fate>>
    BY ONLY AddReservation DEF AddReservation
  <2>2. reg.id = fresh + 1
    OBVIOUS
  <2> HIDE DEF reg, name
  <2> QED BY ONLY <2>1, <2>2
<1> QED BY ONLY <1>5, <1>6, <1>7, <1>8, <1>9

LEMMA ParseEndStep == ASSUME DtInv, ParseEnd PROVE DtInv'
<1>1. /\ fate = "ok" /\ pc = "reservations" /\ pc' = "parsed" /\ ret' = "tree"
      /\ UNCHANGED <<T, live, fresh, fate>>
  BY DEF ParseEnd, Running, Goto
<1>2. Nodes # {}
  BY ONLY <1>1, DtInv DEF DtInv, Placed
<1>3. Nodes' = Nodes
  BY ONLY <1>1 DEF Nodes
<1>4. Placed'
  BY ONLY <1>1, <1>2, <1>3 DEF Placed
<1> QED BY ONLY <1>1, <1>4, DtInv, SameTree

LEMMA FreeEndStep == ASSUME DtInv, FreeEnd PROVE DtInv'
<1>1. /\ fate = "ok" /\ pc = "free" /\ pc' = "failed" /\ node = NULL
      /\ UNCHANGED <<T, live, fresh, fate, node>>
  BY DEF FreeEnd, Running, Goto
<1>2. Nodes = {}
  <2>1. \A n \in Nodes : n \in Nat
    BY ONLY <1>1, DtInv, FreshFacts
  <2> QED BY ONLY <1>1, <2>1, DtInv, StructNode, NullFacts
<1>3. Nodes' = {}
  BY ONLY <1>1, <1>2 DEF Nodes
<1>4. Placed'
  BY ONLY <1>1, <1>3 DEF Placed
<1> QED BY ONLY <1>1, <1>4, DtInv, SameTree

(* The properties of a node are freed. *)
LEMMA PropsFreed ==
    ASSUME NEW t, NEW n, NEW f, NEW L, NEW u, TreeInv(t), HeapInv(t, f, L), n \in DOMAIN t.parent,
           NEW e, e = <<>>, SetProps(t, u, n, e), NEW M, M = L \ PropsOn(t.props[n])
    PROVE  OtherProps(t, u, n, e) /\ HeapInv(u, f, M)
<1>1. PICK D, r, s, X : /\ D = DOMAIN t.parent /\ r = t.props /\ s = u.props
                        /\ X = PropsOn(t.props[n]) /\ M = L \ X
  OBVIOUS
<1>2. Props(D, r, f, L) /\ n \in D
  BY ONLY <1>1, HeapInv(t, f, L), n \in DOMAIN t.parent DEF HeapInv
<1>3. IsSeqn(r[n])
  BY ONLY <1>2 DEF Props, Owned
<1>4. /\ TreeInv(u) /\ u.parent = t.parent /\ u.props[n] = e
      /\ \A x \in DOMAIN t.parent : x # n => u.props[x] = t.props[x]
  BY ONLY TreeInv(t), n \in DOMAIN t.parent, SetProps(t, u, n, e), WithProps DEF OtherProps
<1>5. s[n] = e /\ \A x \in D : x # n => s[x] = r[x]
  BY ONLY <1>1, <1>4
<1>6. Only(D, r, D, s, n)
  BY ONLY <1>5 DEF Only
<1>7. IsSeqn(s[n]) /\ Distinct(s[n]) /\ \A x : ~In(x, s[n])
  BY ONLY <1>5, e = <<>>, NoElements, NoneIn
<1>8. \A o : o \in X <=> \E x : In(x, r[n]) /\ o \in PropObjects(x.id)
  BY ONLY <1>1, <1>3, PropsOnFacts
<1>9. \A o : o \in X <=> \E x : In(x, r[n]) /\ ~In(x, s[n]) /\ o \in PropObjects(x.id)
  BY ONLY <1>7, <1>8
<1>10. (\A x : In(x, s[n]) => In(x, r[n])) /\ M = L \ X
  BY ONLY <1>1, <1>7
<1>11. Props(D, s, f, M)
  BY ONLY <1>2, <1>6, <1>7, <1>9, <1>10, DropProps
<1>12. HeapInv(u, f, M)
  BY ONLY <1>1, <1>4, <1>11 DEF HeapInv
<1> QED BY ONLY <1>4, <1>12 DEF OtherProps

(* A node without children is freed with its properties. *)
LEMMA NodeFreed ==
    ASSUME NEW t, NEW n, NEW f, NEW L, NEW u, TreeInv(t), HeapInv(t, f, L), n \in DOMAIN t.parent,
           t.children[n] = <<>>, u = RemoveNode(t, n), NEW Z,
           Z = L \ (PropsOn(t.props[n]) \cup NodeObjects(n))
    PROVE  TreeInv(u) /\ HeapInv(u, f, Z) /\ DOMAIN u.parent = DOMAIN t.parent \ {n}
<1>1. PICK v : SetProps(t, v, n, <<>>)
  BY DEF SetProps
<1>2. PICK D, q, s, X, K, e : /\ D = DOMAIN t.parent /\ q = v.props /\ s = u.props
                              /\ X = PropsOn(t.props[n]) /\ K = L \ X /\ e = <<>>
  OBVIOUS
<1>3. /\ HeapInv(v, f, K) /\ v.parent = t.parent
      /\ q[n] = e /\ \A x \in D : x # n => q[x] = t.props[x]
  <2>1. SetProps(t, v, n, e) /\ K = L \ PropsOn(t.props[n]) /\ e = <<>>
    BY ONLY <1>1, <1>2
  <2>2. OtherProps(t, v, n, e) /\ HeapInv(v, f, K)
    BY ONLY <2>1, TreeInv(t), HeapInv(t, f, L), n \in DOMAIN t.parent, PropsFreed
  <2> QED BY ONLY <1>2, <2>2 DEF OtherProps
<1>4. /\ TreeInv(u) /\ DOMAIN u.parent = DOMAIN t.parent \ {n}
      /\ \A x \in DOMAIN t.parent \ {n} : u.props[x] = t.props[x]
  BY ONLY TreeInv(t), n \in DOMAIN t.parent, t.children[n] = <<>>, u = RemoveNode(t, n),
          RemoveNodeLemma
<1>5. PICK E, M : E = D \ {n} /\ M = K \ NodeObjects(n)
  OBVIOUS
<1>6. \A x \in E : s[x] = q[x]
  BY ONLY <1>2, <1>3, <1>4, <1>5
<1>7. Props(D, q, f, K)
  BY ONLY <1>2, <1>3 DEF HeapInv
<1>8. n \in D /\ q[n] = <<>>
  BY ONLY <1>2, <1>3, n \in DOMAIN t.parent
<1>9. Props(E, s, f, M)
  BY ONLY <1>5, <1>6, <1>7, <1>8, DropNode
<1>10. M = Z
  BY ONLY <1>2, <1>5, Z = L \ (PropsOn(t.props[n]) \cup NodeObjects(n))
<1>11. HeapInv(u, f, M)
  BY ONLY <1>2, <1>4, <1>5, <1>9 DEF HeapInv
<1> QED BY ONLY <1>4, <1>10, <1>11

LEMMA PropsOfNode == ASSUME NEW n PROVE UNION {PropObjects(p) : p \in PropsOf(n)} = PropsOn(T.props[n])
BY DEF PropsOf, PropsOn

LEMMA FreeNodeStep == ASSUME DtInv, FreeNode PROVE DtInv'
<1>1. fate = "ok" /\ pc = "free" /\ node # NULL
      /\ UNCHANGED <<pc, fresh, ret, fate>>
  BY DEF FreeNode, Running
<1>2. node \in Nodes /\ ret # "nullptr"
  BY ONLY <1>1, DtInv, StructNode DEF DtInv, Placed
<1>3. fresh \in Nat /\ HeapInv(T, fresh, live) /\ TreeInv(T)
  BY ONLY <1>1, DtInv, FreshFacts DEF DtInv
<1>4. node \in DOMAIN T.parent /\ Links(Nodes, T.parent, T.children)
  BY ONLY <1>2, <1>3 DEF Nodes, TreeInv
<1>5. PICK X : X = PropsOn(T.props[node])
  OBVIOUS
<1>6. UNION {PropObjects(p) : p \in PropsOf(node)} = X
  BY ONLY <1>5, PropsOfNode
<1>7. CASE T.children[node] = <<>>
  <2>1. T' = RemoveNode(T, node) /\ live' = live \ (X \cup NodeObjects(node))
        /\ node' = T.parent[node]
    BY ONLY <1>6, <1>7, FreeNode DEF FreeNode
  <2>2. PICK u : u = RemoveNode(T, node)
    OBVIOUS
  <2>2a. PICK Z : Z = live \ (PropsOn(T.props[node]) \cup NodeObjects(node))
    OBVIOUS
  <2>3. TreeInv(u) /\ HeapInv(u, fresh, Z) /\ DOMAIN u.parent = DOMAIN T.parent \ {node}
    BY ONLY <1>3, <1>4, <1>7, <2>2, <2>2a, NodeFreed
  <2>4. TreeInv(T') /\ HeapInv(T', fresh', live') /\ Nodes' = Nodes \ {node}
    BY ONLY <1>1, <1>5, <2>1, <2>2, <2>2a, <2>3 DEF Nodes
  <2>5. node' \in Nodes' \/ (node' = NULL /\ Nodes' = {})
    <3>1. CASE T.parent[node] = NULL
      <4>1. Nodes = {node}
        BY ONLY <1>2, <1>4, <1>7, <3>1, RootAlone
      <4> QED BY ONLY <2>1, <2>4, <3>1, <4>1
    <3>2. CASE T.parent[node] # NULL
      <4>1. T.parent[node] \in Nodes /\ T.parent[node] < node /\ node \in Nat
        BY ONLY <1>2, <1>4, <3>2 DEF Links, Up
      <4>1a. PICK m : m = T.parent[node]
        OBVIOUS
      <4>2. m \in Nodes /\ m < node /\ m \in Nat
        BY ONLY <1>4, <4>1, <4>1a DEF Links
      <4>3. m # node
        BY ONLY <4>1, <4>2
      <4> QED BY ONLY <2>1, <2>4, <4>1a, <4>2, <4>3
    <3> QED BY ONLY <3>1, <3>2
  <2>6. Placed'
    BY ONLY <1>1, <1>2, <2>5 DEF Placed
  <2> QED BY ONLY <2>4, <2>6 DEF DtInv
<1>8. CASE T.children[node] # <<>>
  <2>1. T' = [T EXCEPT !.props[node] = <<>>] /\ live' = live \ X
        /\ node' = Head(T.children[node])
    BY ONLY <1>6, <1>8, FreeNode DEF FreeNode
  <2>2. PICK u, e : u = [T EXCEPT !.props[node] = <<>>] /\ e = <<>>
    OBVIOUS
  <2>2a. PICK Z : Z = live \ PropsOn(T.props[node])
    OBVIOUS
  <2>2b. SetProps(T, u, node, e)
    BY ONLY <2>2 DEF SetProps
  <2>2c. e = <<>>
    BY ONLY <2>2
  <2>2d. OtherProps(T, u, node, e) /\ HeapInv(u, fresh, Z)
    BY ONLY <1>3, <1>4, <2>2a, <2>2b, <2>2c, PropsFreed
  <2>3. TreeInv(u) /\ HeapInv(u, fresh, Z) /\ u.parent = T.parent
    BY ONLY <2>2d DEF OtherProps
  <2>4. TreeInv(T') /\ HeapInv(T', fresh', live') /\ Nodes' = Nodes
    BY ONLY <1>1, <1>5, <2>1, <2>2, <2>2a, <2>3 DEF Nodes
  <2>5. node' \in Nodes'
    <3>1. PICK s : s = T.children[node]
      OBVIOUS
    <3>2. IsSeqn(s) /\ \A x : In(x, s) => x \in Nodes
      BY ONLY <1>2, <1>4, <3>1 DEF Links, Kids
    <3>3. In(Head(s), s)
      BY ONLY <1>8, <3>1, <3>2, HeadIn
    <3> QED BY ONLY <2>1, <2>4, <3>1, <3>2, <3>3
  <2>6. Placed'
    BY ONLY <1>1, <1>2, <2>5 DEF Placed
  <2> QED BY ONLY <2>4, <2>6 DEF DtInv
<1> QED BY ONLY <1>7, <1>8

LEMMA ParseStep == ASSUME DtInv, Parse PROVE DtInv'
BY ONLY DtInv, Parse, ParseHeaderStep, BeginNodeStep, EndNodeStep, PropStep, NopStep, EndStep,
        UnknownTokenStep, StructEndStep, ReservedMemoryStep, AddReservationStep, ParseEndStep,
        FreeNodeStep, FreeEndStep DEF Parse

-----------------------------------------------------------------------------
(* The rest of main: only devicetree_add_entropy changes the tree.         *)

MainPcs == {"initializers", "enumerate", "print", "done"}
BootPcs == MainPcs \cup {"parsed"}

(* The tree stays, or the kernel panics. *)
Calm == /\ blob' = blob /\ T' = T /\ pc' \in MainPcs
        /\ fate' # "ok" \/ UNCHANGED <<live, fresh, ret>>

LEMMA CalmStep ==
    ASSUME DtInv, fate = "ok", pc \in BootPcs, Calm
    PROVE  DtInv'
<1>1. CASE T' = T /\ fate' # "ok"
  BY ONLY <1>1, DtInv, AfterPanic
<1>2. CASE UNCHANGED <<T, live, fresh, ret>> /\ pc' \in MainPcs
  <2>1. Nodes # {} /\ ret # "nullptr"
    BY ONLY DtInv, fate = "ok", pc \in BootPcs DEF DtInv, Placed, BootPcs, MainPcs
  <2>2. Nodes' = Nodes
    BY ONLY <1>2 DEF Nodes
  <2>3. Placed'
    BY ONLY <1>2, <2>1, <2>2 DEF Placed, MainPcs
  <2> QED BY ONLY <1>2, <2>3, DtInv, fate = "ok", SameTree
<1> QED BY ONLY <1>1, <1>2, Calm DEF Calm

LEMMA StartInitializersCalm == StartInitializers => fate = "ok" /\ pc \in MainPcs /\ Calm
BY DEF StartInitializers, Main, Calm, MainPcs, dtvars

LEMMA RunInitializerCalm == RunInitializer => fate = "ok" /\ pc \in MainPcs /\ Calm
<1> SUFFICES ASSUME RunInitializer PROVE fate = "ok" /\ pc \in MainPcs /\ Calm
  OBVIOUS
<1>1. fate = "ok" /\ pc \in MainPcs
  BY DEF RunInitializer, Main, MainPcs
<1>2. UNCHANGED dtvars \/ (Panic /\ blob' = blob)
  BY DEF RunInitializer, devicetree_register
<1> QED BY ONLY <1>1, <1>2 DEF Calm, dtvars, Panic

LEMMA StartEnumerateCalm == StartEnumerate => fate = "ok" /\ pc \in MainPcs /\ Calm
BY DEF StartEnumerate, Main, Goto, Calm, MainPcs

LEMMA DescendCalm == Descend => fate = "ok" /\ pc \in MainPcs /\ Calm
BY DEF Descend, Main, Calm, MainPcs

LEMMA LeaveCalm == Leave => fate = "ok" /\ pc \in MainPcs /\ Calm
BY DEF Leave, Main, Calm, MainPcs, dtvars

LEMMA MoveCalm == Move => fate = "ok" /\ pc \in MainPcs /\ Calm
BY DEF Move, Main, Calm, MainPcs

LEMMA EnumerateEndCalm == EnumerateEnd => fate = "ok" /\ pc \in MainPcs /\ Calm
BY DEF EnumerateEnd, Main, Goto, Calm, MainPcs

LEMMA CallHandlerCalm == CallHandler => fate = "ok" /\ pc \in MainPcs /\ Calm
<1> SUFFICES ASSUME CallHandler PROVE fate = "ok" /\ pc \in MainPcs /\ Calm
  OBVIOUS
<1>1. fate = "ok" /\ pc \in MainPcs
  BY DEF CallHandler, Main, MainPcs
<1>2. HandlerFailed => UNCHANGED dtvars
  BY DEF HandlerFailed
<1>3. \A b : HandlerSucceeded(b) => UNCHANGED dtvars \/ (Panic /\ blob' = blob)
  BY DEF HandlerSucceeded
<1>4. ns16550a_enumerate_dt => UNCHANGED dtvars \/ (Panic /\ blob' = blob)
  BY ONLY <1>2, <1>3 DEF ns16550a_enumerate_dt
<1>5. UNCHANGED dtvars \/ (Panic /\ blob' = blob)
  BY ONLY <1>2, <1>3, <1>4, CallHandler DEF CallHandler
<1> QED BY ONLY <1>1, <1>5 DEF Calm, dtvars, Panic

LEMMA PrintDeviceCalm == PrintDevice => fate = "ok" /\ pc \in MainPcs /\ Calm
<1> SUFFICES ASSUME PrintDevice PROVE fate = "ok" /\ pc \in MainPcs /\ Calm
  OBVIOUS
<1>1. fate = "ok" /\ pc = "print"
  BY DEF PrintDevice, Main
<1>2. (Panic /\ blob' = blob) \/ (UNCHANGED <<blob, T, live, fresh, ret>> /\ pc' \in {pc, "done"})
  BY DEF PrintDevice, Goto
<1> QED BY ONLY <1>1, <1>2 DEF Calm, Panic, MainPcs

(* The seed is unlinked and freed. *)
LEMMA PropUnlinked ==
    ASSUME NEW t, NEW n, NEW f, NEW L, NEW u, TreeInv(t), HeapInv(t, f, L), n \in DOMAIN t.parent,
           NEW e, In(e, t.props[n]), NEW l, l = RemoveFirst(t.props[n], e),
           SetProps(t, u, n, l), NEW M, M = L \ PropObjects(e.id)
    PROVE  OtherProps(t, u, n, l) /\ HeapInv(u, f, M)
<1>1. PICK D, r, s, X : /\ D = DOMAIN t.parent /\ r = t.props /\ s = u.props
                        /\ X = PropObjects(e.id) /\ M = L \ X
  OBVIOUS
<1>2. Props(D, r, f, L) /\ n \in D
  BY ONLY <1>1, HeapInv(t, f, L), n \in DOMAIN t.parent DEF HeapInv
<1>3. IsSeqn(r[n]) /\ Distinct(r[n])
  BY ONLY <1>2 DEF Props, Owned
<1>4. OtherProps(t, u, n, l)
  BY ONLY TreeInv(t), n \in DOMAIN t.parent, SetProps(t, u, n, l), WithProps
<1>5. u.parent = t.parent /\ s[n] = l /\ \A x \in D : x # n => s[x] = r[x]
  BY ONLY <1>1, <1>4 DEF OtherProps
<1>6. Only(D, r, D, s, n)
  BY ONLY <1>5 DEF Only
<1>7. PICK v : v = r[n]
  OBVIOUS
<1>8. IsSeqn(v) /\ Distinct(v) /\ l = RemoveFirst(v, e) /\ In(e, v)
  BY ONLY <1>1, <1>3, <1>7, l = RemoveFirst(t.props[n], e), In(e, t.props[n])
<1>9. IsSeqn(l) /\ Distinct(l) /\ \A x : In(x, l) <=> (In(x, v) /\ x # e)
  BY ONLY <1>8, RemovedIn
<1>10. IsSeqn(s[n]) /\ Distinct(s[n]) /\ \A x : In(x, s[n]) <=> (In(x, r[n]) /\ x # e)
  BY ONLY <1>5, <1>7, <1>9
<1>11. In(e, r[n])
  BY ONLY <1>7, <1>8
<1>12. \A o : o \in X <=> \E x : In(x, r[n]) /\ ~In(x, s[n]) /\ o \in PropObjects(x.id)
  BY ONLY <1>1, <1>10, <1>11
<1>13. (\A x : In(x, s[n]) => In(x, r[n])) /\ M = L \ X
  BY ONLY <1>1, <1>10
<1>14. IsSeqn(s[n]) /\ Distinct(s[n])
  BY ONLY <1>10
<1>15. Props(D, s, f, M)
  BY ONLY <1>2, <1>6, <1>12, <1>13, <1>14, DropProps
<1>16. HeapInv(u, f, M)
  BY ONLY <1>1, <1>5, <1>15 DEF HeapInv
<1> QED BY ONLY <1>4, <1>16

LEMMA AddEntropyStep == ASSUME DtInv, devicetree_add_entropy PROVE DtInv'
<1>1. fate = "ok" /\ pc = "parsed" /\ pc' = "initializers"
      /\ UNCHANGED <<fresh, ret, fate>>
  BY DEF devicetree_add_entropy, Main, Goto
<1>2. CASE UNCHANGED <<T, live>>
  <2>1. Calm
    BY ONLY <1>1, <1>2, devicetree_add_entropy DEF Calm, MainPcs, devicetree_add_entropy
  <2> QED BY ONLY <1>1, <2>1, DtInv, CalmStep DEF BootPcs, MainPcs
<1>3. ASSUME NEW nm, NEW nn, NEW chosen, NEW seed, chosen = devicetree_child(T, root, nm),
             seed = devicetree_prop(T, chosen, nn), chosen # NULL, seed # NULL,
             T' = [T EXCEPT !.props[chosen] = RemoveFirst(@, seed)],
             live' = live \ PropObjects(seed.id)
      PROVE  DtInv'
  <2>1. Nodes # {} /\ ret # "nullptr"
    BY ONLY <1>1, DtInv DEF DtInv, Placed
  <2>2. HeapInv(T, fresh, live) /\ TreeInv(T)
    BY ONLY <1>1, DtInv, FreshFacts DEF DtInv
  <2>3. root \in DOMAIN T.parent
    BY ONLY <2>1, <2>2, RootFacts DEF Nodes
  <2>4. chosen \in DOMAIN T.parent
    BY ONLY <1>3, <2>2, <2>3, ChildFacts
  <2>5. IsSeqn(T.props[chosen])
    BY ONLY <2>2, <2>4 DEF HeapInv, Props, Owned
  <2>6. In(seed, T.props[chosen])
    BY ONLY <1>3, <2>5, PropFacts
  <2>7. PICK u, l, M : u = T' /\ l = RemoveFirst(T.props[chosen], seed)
                       /\ M = live \ PropObjects(seed.id)
    OBVIOUS
  <2>8. SetProps(T, u, chosen, l)
    <3>1. PICK p, a, c, r : T = [parent |-> p, name |-> a, children |-> c, props |-> r]
      BY ONLY <2>2 DEF TreeInv, Form
    <3>2. u = [T EXCEPT !.props[chosen] = RemoveFirst(T.props[chosen], seed)]
      BY ONLY <1>3, <2>7, <3>1
    <3> QED BY ONLY <2>7, <3>2 DEF SetProps
  <2>9. OtherProps(T, u, chosen, l) /\ HeapInv(u, fresh, M)
    BY ONLY <2>2, <2>4, <2>6, <2>7, <2>8, PropUnlinked
  <2>10. TreeInv(u) /\ u.parent = T.parent
    BY ONLY <2>9 DEF OtherProps
  <2>11. TreeInv(T') /\ HeapInv(T', fresh', live') /\ Nodes' = Nodes
    BY ONLY <1>1, <1>3, <2>7, <2>9, <2>10 DEF Nodes
  <2>12. Placed'
    BY ONLY <1>1, <2>1, <2>11 DEF Placed
  <2> QED BY ONLY <2>11, <2>12 DEF DtInv
<1>4. \/ UNCHANGED <<T, live>>
      \/ \E nm, nn, chosen, seed :
            /\ chosen = devicetree_child(T, root, nm) /\ seed = devicetree_prop(T, chosen, nn)
            /\ chosen # NULL /\ seed # NULL
            /\ T' = [T EXCEPT !.props[chosen] = RemoveFirst(@, seed)]
            /\ live' = live \ PropObjects(seed.id)
  <2>1. PICK nm, nn : nm = "chosen" /\ nn = "rng-seed"
    OBVIOUS
  <2>2. PICK chosen : chosen = devicetree_child(T, root, nm)
    OBVIOUS
  <2>3. PICK seed : seed = devicetree_prop(T, chosen, nn)
    OBVIOUS
  <2>4. \/ UNCHANGED <<T, live>>
        \/ /\ chosen # NULL /\ seed # NULL
           /\ T' = [T EXCEPT !.props[chosen] = RemoveFirst(@, seed)]
           /\ live' = live \ PropObjects(seed.id)
    BY ONLY <2>1, <2>2, <2>3, devicetree_add_entropy DEF devicetree_add_entropy
  <2> QED BY ONLY <2>2, <2>3, <2>4
<1> QED BY ONLY <1>2, <1>3, <1>4

LEMMA BootStep == ASSUME DtInv, Boot PROVE DtInv'
<1>1. CASE Parse
  BY ONLY <1>1, DtInv, ParseStep
<1>2. CASE devicetree_add_entropy
  BY ONLY <1>2, DtInv, AddEntropyStep
<1>3. CASE fate = "ok" /\ pc \in MainPcs /\ Calm
  BY ONLY <1>3, DtInv, CalmStep DEF BootPcs
<1> QED BY ONLY <1>1, <1>2, <1>3, Boot, StartInitializersCalm, RunInitializerCalm,
               StartEnumerateCalm, DescendCalm, LeaveCalm, CallHandlerCalm, MoveCalm,
               EnumerateEndCalm, PrintDeviceCalm DEF Boot

LEMMA DtStutter == ASSUME DtInv, UNCHANGED vars PROVE DtInv'
<1>1. UNCHANGED <<pc, T, node, live, fresh, ret, fate>>
  BY DEF vars, dtvars
<1> QED BY ONLY <1>1, DtInv DEF DtInv, TreeInv, Form, HeapInv, Placed, Nodes

LEMMA DtAlways == Spec => []DtInv
<1>1. Init => DtInv
  BY DtStart DEF Init
<1>2. DtInv /\ [Next]_vars => DtInv'
  <2> SUFFICES ASSUME DtInv, [Next]_vars PROVE DtInv'
    OBVIOUS
  <2>1. Boot \/ UNCHANGED vars
    BY DEF Next, Halt
  <2> QED BY ONLY <2>1, DtInv, BootStep, DtStutter
<1> QED BY <1>1, <1>2, PTL DEF Spec

LEMMA HeapExact ==
    ASSUME DtInv
    PROVE  NothingLeaks
<1> SUFFICES ASSUME fate = "ok"
             PROVE  /\ live = (UNION {NodeObjects(n) : n \in Nodes})
                              \cup UNION {PropObjects(p) : p \in UNION {PropsOf(n) : n \in Nodes}}
                    /\ ret = "nullptr" => live = {}
  BY DEF NothingLeaks
<1>1. Props(Nodes, T.props, fresh, live)
  BY FreshFacts
<1>2. HeapIs(live, Nodes, T.props)
  BY ONLY <1>1 DEF Props
<1>3. ASSUME NEW o
      PROVE  o \in live <=>
                \/ o \in UNION {NodeObjects(n) : n \in Nodes}
                \/ o \in UNION {PropObjects(p) : p \in UNION {PropsOf(n) : n \in Nodes}}
  <2>1. o \in live <=> \E n \in Nodes : Obj(o, n, T.props[n])
    BY ONLY <1>2 DEF HeapIs
  <2>2. \A n \in Nodes : IsSeqn(T.props[n])
    BY ONLY <1>1 DEF Props, Owned
  <2>3. \A n \in Nodes : \A k : k \in PropsOf(n) <=> \E x : In(x, T.props[n]) /\ x.id = k
    <3>1. \A n \in Nodes : DOMAIN T.props[n] = 1..Len(T.props[n])
      BY ONLY <2>2, SeqnFacts
    <3> QED BY ONLY <3>1 DEF PropsOf, In
  <2>4. \A n \in Nodes : Obj(o, n, T.props[n]) <=>
                            (o \in NodeObjects(n) \/ \E k \in PropsOf(n) : o \in PropObjects(k))
    BY ONLY <2>3 DEF Obj
  <2>5. o \in UNION {PropObjects(p) : p \in UNION {PropsOf(n) : n \in Nodes}}
        <=> \E n \in Nodes : \E k \in PropsOf(n) : o \in PropObjects(k)
    OBVIOUS
  <2>6. o \in UNION {NodeObjects(n) : n \in Nodes} <=> \E n \in Nodes : o \in NodeObjects(n)
    OBVIOUS
  <2> QED BY ONLY <2>1, <2>4, <2>5, <2>6
<1>4. ret = "nullptr" => live = {}
  <2>1. ret = "nullptr" => Nodes = {}
    BY DEF DtInv, Placed
  <2> QED BY ONLY <1>2, <2>1 DEF HeapIs
<1> QED BY ONLY <1>3, <1>4

(* What is on the heap are the objects of the nodes and the properties of  *)
(* the tree, whichever allocations of devicetree_parse fail and whichever  *)
(* tokens it refuses; nothing is left when the result is nullptr.          *)
THEOREM NothingLeaksTheorem == Spec => []NothingLeaks
<1>1. DtInv => NothingLeaks
  BY HeapExact
<1> QED BY <1>1, DtAlways, PTL

LEMMA OneAtMost ==
    ASSUME NEW S, \A x, y \in S : x = y
    PROVE  Cardinality(S) <= 1 /\ (S # {} => Cardinality(S) = 1)
<1>1. CASE S = {}
  BY ONLY <1>1, FS_EmptySet
<1>2. CASE S # {}
  <2>1. PICK x : x \in S
    BY ONLY <1>2
  <2>2. S = {x}
    BY ONLY <2>1, \A y, z \in S : y = z
  <2> QED BY ONLY <2>2, FS_Singleton
<1> QED BY ONLY <1>1, <1>2

LEMMA LinksHold ==
    ASSUME DtInv
    PROVE  LinksAgree
<1>1. TreeInv(T)
  BY DEF DtInv
<1>2. PICK D, p, c : D = Nodes /\ p = T.parent /\ c = T.children
  OBVIOUS
<1>3. Links(D, p, c)
  BY ONLY <1>1, <1>2 DEF TreeInv, Nodes
<1>4. \A n \in D : /\ IsSeqn(c[n]) /\ DOMAIN c[n] = 1..Len(c[n]) /\ Distinct(c[n])
                   /\ \A x : In(x, c[n]) <=> (x \in D /\ p[x] = n)
  BY ONLY <1>3, SeqnFacts DEF Links, Kids
<1>5. \A n \in D : \A i \in DOMAIN c[n] : p[c[n][i]] = n
  BY ONLY <1>4 DEF In
<1>6. ASSUME NEW n \in D, p[n] # NULL
      PROVE  Cardinality({i \in DOMAIN c[p[n]] : c[p[n]][i] = n}) = 1
  <2>1. PICK m : m = p[n]
    OBVIOUS
  <2>2. m \in D
    BY ONLY <1>3, <1>6, <2>1 DEF Links, Up
  <2>3. PICK S : S = {i \in DOMAIN c[m] : c[m][i] = n}
    OBVIOUS
  <2>4. \A x, y \in S : x = y
    BY ONLY <1>4, <2>2, <2>3 DEF Distinct
  <2>5. In(n, c[m])
    BY ONLY <1>4, <2>1, <2>2, n \in D
  <2>6. S # {}
    BY ONLY <1>4, <2>2, <2>3, <2>5 DEF In
  <2>7. Cardinality(S) = 1
    BY ONLY <2>4, <2>6, OneAtMost
  <2> QED BY ONLY <2>1, <2>3, <2>7
<1>7. Cardinality({n \in D : p[n] = NULL}) <= 1
  <2>1. PICK S : S = {n \in D : p[n] = NULL}
    OBVIOUS
  <2>2. \A x, y \in S : x = y
    BY ONLY <1>3, <2>1 DEF Links, OneRoot
  <2>3. Cardinality(S) <= 1
    BY ONLY <2>2, OneAtMost
  <2> QED BY ONLY <2>1, <2>3
<1>8. DOMAIN T.name = Nodes /\ DOMAIN T.children = Nodes /\ DOMAIN T.props = Nodes
  BY ONLY <1>1 DEF TreeInv, Form, Nodes
<1> QED BY ONLY <1>2, <1>5, <1>6, <1>7, <1>8 DEF LinksAgree

(* The parent pointers and the lists of children agree in every state,     *)
(* also while the tree is being read, changed and freed: each node is in   *)
(* its parent's list exactly once, and one node at most has no parent.     *)
THEOREM LinksAgreeTheorem == Spec => []LinksAgree
<1>1. DtInv => LinksAgree
  BY LinksHold
<1> QED BY <1>1, DtAlways, PTL

-----------------------------------------------------------------------------
(* The structure block: the tokens s, of which the first n have been read. *)

CountIn(s, type, j) == Cardinality({k \in 1..j : s[k].type = type})
DepthIn(s, i) == CountIn(s, "FDT_BEGIN_NODE", i - 1) - CountIn(s, "FDT_END_NODE", i - 1)
OpenIn(s, i) == {j \in 1..(i - 1) : /\ s[j].type = "FDT_BEGIN_NODE"
                                    /\ \A k \in (j + 1)..i : DepthIn(s, k) > DepthIn(s, j)}
Greatest(S) == CHOOSE j \in S : \A k \in S : k <= j
EncloserIn(s, i) == IF OpenIn(s, i) = {} THEN 0 ELSE Greatest(OpenIn(s, i))
ObjectIn(s, i) == CountIn(s, "FDT_BEGIN_NODE", i) + CountIn(s, "FDT_PROP", i)

LEMMA CountFacts ==
    ASSUME NEW s, NEW type, NEW j, j \in Nat
    PROVE  /\ CountIn(s, type, j) \in Nat
           /\ s[j + 1].type = type => CountIn(s, type, j + 1) = CountIn(s, type, j) + 1
           /\ s[j + 1].type # type => CountIn(s, type, j + 1) = CountIn(s, type, j)
           /\ CountIn(s, type, j) = 0 <=> \A k \in 1..j : s[k].type # type
<1>1. PICK A, B : /\ A = {k \in 1..j : s[k].type = type}
                  /\ B = {k \in 1..(j + 1) : s[k].type = type}
  OBVIOUS
<1>2. IsFiniteSet(A)
  <2>1. IsFiniteSet(1..j)
    BY ONLY j \in Nat, FS_Interval
  <2>2. A \subseteq 1..j
    BY ONLY <1>1
  <2> QED BY ONLY <2>1, <2>2, FS_Subset
<1>3. Cardinality(A) \in Nat
  BY ONLY <1>2, FS_CardinalityType
<1>4. ASSUME s[j + 1].type = type PROVE Cardinality(B) = Cardinality(A) + 1
  <2>1. PICK x : x = j + 1
    OBVIOUS
  <2>2. x \notin A /\ B = A \cup {x}
    BY ONLY <1>1, <1>4, <2>1, j \in Nat
  <2> QED BY ONLY <1>2, <2>2, FS_AddElement
<1>5. ASSUME s[j + 1].type # type PROVE B = A
  <2>1. \A k : k \in 1..(j + 1) <=> (k \in 1..j \/ k = j + 1)
    BY ONLY j \in Nat
  <2> QED BY ONLY <1>1, <1>5, <2>1
<1>6. Cardinality(A) = 0 <=> A = {}
  BY ONLY <1>2, FS_EmptySet
<1>7. CountIn(s, type, j) = Cardinality(A) /\ CountIn(s, type, j + 1) = Cardinality(B)
  BY ONLY <1>1 DEF CountIn
<1>8. A = {} <=> \A k \in 1..j : s[k].type # type
  BY ONLY <1>1
<1> QED BY ONLY <1>3, <1>4, <1>5, <1>6, <1>7, <1>8

LEMMA CountNone == ASSUME NEW s, NEW type PROVE CountIn(s, type, 0) = 0
<1>1. {k \in 1..0 : s[k].type = type} = {}
  OBVIOUS
<1> QED BY ONLY <1>1, FS_EmptySet DEF CountIn

(* What token i does to the depth. *)
DepthChange(s, i) ==
    /\ DepthIn(s, i) \in Int /\ DepthIn(s, i + 1) \in Int
    /\ s[i].type = "FDT_BEGIN_NODE" => DepthIn(s, i + 1) = DepthIn(s, i) + 1
    /\ s[i].type = "FDT_END_NODE" => DepthIn(s, i + 1) = DepthIn(s, i) - 1
    /\ (s[i].type # "FDT_BEGIN_NODE" /\ s[i].type # "FDT_END_NODE") =>
          DepthIn(s, i + 1) = DepthIn(s, i)

LEMMA DepthFacts ==
    ASSUME NEW s, NEW i, i \in Nat, i > 0
    PROVE  DepthChange(s, i)
<1>1. PICK j : j = i - 1 /\ j \in Nat /\ j + 1 = i /\ (i + 1) - 1 = i
  BY ONLY i \in Nat, i > 0
<1>2. PICK x, y : x = "FDT_BEGIN_NODE" /\ y = "FDT_END_NODE" /\ x # y
  OBVIOUS
<1>3. PICK a, b, c, d : /\ a = CountIn(s, x, j) /\ b = CountIn(s, y, j)
                        /\ c = CountIn(s, x, i) /\ d = CountIn(s, y, i)
  OBVIOUS
<1>4. /\ a \in Nat /\ (s[i].type = x => c = a + 1) /\ (s[i].type # x => c = a)
      /\ b \in Nat /\ (s[i].type = y => d = b + 1) /\ (s[i].type # y => d = b)
  BY ONLY <1>1, <1>3, CountFacts
<1>5. DepthIn(s, i) = a - b /\ DepthIn(s, i + 1) = c - d
  BY ONLY <1>1, <1>2, <1>3 DEF DepthIn
<1> QED BY ONLY <1>2, <1>4, <1>5 DEF DepthChange

LEMMA DepthStart == ASSUME NEW s PROVE DepthIn(s, 1) = 0
<1>1. PICK x, y : x = "FDT_BEGIN_NODE" /\ y = "FDT_END_NODE"
  OBVIOUS
<1>2. CountIn(s, x, 0) = 0 /\ CountIn(s, y, 0) = 0
  BY ONLY CountNone
<1> QED BY ONLY <1>1, <1>2 DEF DepthIn

LEMMA DepthIsInt == ASSUME NEW s, NEW i, i \in Nat, i > 0 PROVE DepthIn(s, i) \in Int
BY ONLY i \in Nat, i > 0, DepthFacts DEF DepthChange

LEMMA GreatestFacts ==
    ASSUME NEW S, NEW m, m \in S, \A k \in S : k <= m /\ k \in Int
    PROVE  Greatest(S) = m
<1>1. PICK g : g = Greatest(S)
  OBVIOUS
<1>2. g \in S /\ \A k \in S : k <= g
  BY ONLY <1>1, m \in S, \A k \in S : k <= m /\ k \in Int DEF Greatest
<1> QED BY ONLY <1>1, <1>2, m \in S, \A k \in S : k <= m /\ k \in Int

(* The greatest of some numbers below n. *)
LEMMA HasGreatest ==
    ASSUME NEW S, NEW n, n \in Nat, S \subseteq 1..n, S # {}
    PROVE  Greatest(S) \in S /\ \A k \in S : k <= Greatest(S)
<1>1. PICK U : U = {n - k : k \in S}
  OBVIOUS
<1>2. U \subseteq Nat
  BY ONLY <1>1, n \in Nat, S \subseteq 1..n
<1>3. PICK x : x \in U
  BY ONLY <1>1, S # {}
<1>4. PICK u : u \in U /\ \A v \in U : u <= v
  BY ONLY <1>2, <1>3, FirstOfLeast
<1>5. PICK m : m \in S /\ u = n - m
  BY ONLY <1>1, <1>4
<1>6. \A k \in S : n - m <= n - k
  BY ONLY <1>1, <1>4, <1>5
<1>7. \A k \in S : k <= m /\ k \in Int
  BY ONLY <1>5, <1>6, n \in Nat, S \subseteq 1..n
<1>8. Greatest(S) = m
  BY ONLY <1>5, <1>7, GreatestFacts
<1> QED BY ONLY <1>5, <1>7, <1>8

(* The node that is open at token i, if any: it is one level up. *)
Enclosed(s, i) ==
    LET e == EncloserIn(s, i)
    IN  /\ DepthIn(s, i) \in Nat
        /\ e = 0 => DepthIn(s, i) = 0
        /\ e # 0 => /\ e \in 1..(i - 1) /\ s[e].type = "FDT_BEGIN_NODE"
                    /\ DepthIn(s, i) = DepthIn(s, e) + 1

LEMMA EncloserFacts ==
    ASSUME NEW s, NEW i, i \in Nat, i > 0
    PROVE  /\ EncloserIn(s, i) = 0 <=> OpenIn(s, i) = {}
           /\ OpenIn(s, i) # {} => /\ EncloserIn(s, i) \in OpenIn(s, i)
                                   /\ \A k \in OpenIn(s, i) : k <= EncloserIn(s, i)
<1>1. PICK S, n : S = OpenIn(s, i) /\ n = i - 1 /\ n \in Nat
  BY ONLY i \in Nat, i > 0
<1>2. S \subseteq 1..n
  BY ONLY <1>1 DEF OpenIn
<1>3. S # {} => Greatest(S) \in S /\ \A k \in S : k <= Greatest(S)
  BY ONLY <1>1, <1>2, HasGreatest
<1>4. 0 \notin S
  BY ONLY <1>1, <1>2
<1>5. EncloserIn(s, i) = IF S = {} THEN 0 ELSE Greatest(S)
  BY ONLY <1>1 DEF EncloserIn
<1> QED BY ONLY <1>1, <1>3, <1>4, <1>5

LEMMA OpenFacts ==
    ASSUME NEW s, NEW i, NEW j
    PROVE  j \in OpenIn(s, i) <=> /\ j \in 1..(i - 1) /\ s[j].type = "FDT_BEGIN_NODE"
                                  /\ \A k \in (j + 1)..i : DepthIn(s, k) > DepthIn(s, j)
BY DEF OpenIn

(* A node is opened. *)
LEMMA EnclosedBegin ==
    ASSUME NEW s, NEW i, i \in Nat, i > 0, s[i].type = "FDT_BEGIN_NODE", DepthIn(s, i) \in Nat
    PROVE  EncloserIn(s, i + 1) = i /\ Enclosed(s, i + 1)
<1>1. DepthIn(s, i + 1) = DepthIn(s, i) + 1
  BY ONLY i \in Nat, i > 0, s[i].type = "FDT_BEGIN_NODE", DepthFacts DEF DepthChange
<1>2. i \in OpenIn(s, i + 1)
  <2>1. i \in 1..((i + 1) - 1)
    BY ONLY i \in Nat, i > 0
  <2>2. \A k \in (i + 1)..(i + 1) : k = i + 1
    BY ONLY i \in Nat
  <2>3. DepthIn(s, i + 1) > DepthIn(s, i)
    BY ONLY <1>1, DepthIn(s, i) \in Nat
  <2> QED BY ONLY <2>1, <2>2, <2>3, s[i].type = "FDT_BEGIN_NODE", OpenFacts
<1>3. \A k \in OpenIn(s, i + 1) : k <= i /\ k \in Int
  <2>1. \A k \in 1..((i + 1) - 1) : k <= i /\ k \in Int
    BY ONLY i \in Nat
  <2> QED BY ONLY <2>1, OpenFacts
<1>4. PICK S : S = OpenIn(s, i + 1)
  OBVIOUS
<1>5. Greatest(S) = i
  BY ONLY <1>2, <1>3, <1>4, GreatestFacts
<1>6. EncloserIn(s, i + 1) = i
  BY ONLY <1>2, <1>4, <1>5 DEF EncloserIn
<1>7. i # 0 /\ i \in 1..((i + 1) - 1)
  BY ONLY i \in Nat, i > 0
<1> QED BY ONLY <1>1, <1>6, <1>7, DepthIn(s, i) \in Nat, s[i].type = "FDT_BEGIN_NODE" DEF Enclosed

(* Neither opened nor closed. *)
LEMMA EnclosedSame ==
    ASSUME NEW s, NEW i, i \in Nat, i > 0, s[i].type # "FDT_BEGIN_NODE",
           s[i].type # "FDT_END_NODE", Enclosed(s, i)
    PROVE  EncloserIn(s, i + 1) = EncloserIn(s, i) /\ Enclosed(s, i + 1)
<1>1. DepthIn(s, i + 1) = DepthIn(s, i)
  BY ONLY i \in Nat, i > 0, s[i].type # "FDT_BEGIN_NODE", s[i].type # "FDT_END_NODE", DepthFacts
     DEF DepthChange
<1>2. ASSUME NEW j PROVE j \in OpenIn(s, i + 1) <=> j \in OpenIn(s, i)
  <2>1. ASSUME j \in OpenIn(s, i + 1) PROVE j \in OpenIn(s, i)
    <3>1. /\ j \in 1..((i + 1) - 1) /\ s[j].type = "FDT_BEGIN_NODE"
          /\ \A k \in (j + 1)..(i + 1) : DepthIn(s, k) > DepthIn(s, j)
      BY ONLY <2>1, OpenFacts
    <3>2. j # i
      BY ONLY <3>1, s[i].type # "FDT_BEGIN_NODE"
    <3>3. j \in 1..(i - 1) /\ \A k \in (j + 1)..i : k \in (j + 1)..(i + 1)
      BY ONLY <3>1, <3>2, i \in Nat, i > 0
    <3> QED BY ONLY <3>1, <3>3, OpenFacts
  <2>2. ASSUME j \in OpenIn(s, i) PROVE j \in OpenIn(s, i + 1)
    <3>1. /\ j \in 1..(i - 1) /\ s[j].type = "FDT_BEGIN_NODE"
          /\ \A k \in (j + 1)..i : DepthIn(s, k) > DepthIn(s, j)
      BY ONLY <2>2, OpenFacts
    <3>2. j \in 1..((i + 1) - 1) /\ i \in (j + 1)..i
      BY ONLY <3>1, i \in Nat, i > 0
    <3>3. \A k \in (j + 1)..(i + 1) : k \in (j + 1)..i \/ k = i + 1
      BY ONLY <3>1, i \in Nat, i > 0
    <3>4. DepthIn(s, i + 1) > DepthIn(s, j)
      BY ONLY <1>1, <3>1, <3>2
    <3> QED BY ONLY <3>1, <3>2, <3>3, <3>4, OpenFacts
  <2> QED BY ONLY <2>1, <2>2
<1>3. OpenIn(s, i + 1) = OpenIn(s, i)
  BY ONLY <1>2
<1>4. EncloserIn(s, i + 1) = EncloserIn(s, i)
  BY ONLY <1>3 DEF EncloserIn
<1>5. \A e : e \in 1..(i - 1) => e \in 1..((i + 1) - 1)
  BY ONLY i \in Nat
<1> QED BY ONLY <1>1, <1>4, <1>5, Enclosed(s, i) DEF Enclosed

(* The open node is closed, and the one around it is open again. *)
LEMMA EnclosedEnd ==
    ASSUME NEW s, NEW i, NEW e, i \in Nat, i > 0, s[i].type = "FDT_END_NODE",
           Enclosed(s, i), e = EncloserIn(s, i), e # 0, Enclosed(s, e)
    PROVE  EncloserIn(s, i + 1) = EncloserIn(s, e) /\ Enclosed(s, i + 1)
<1>1. /\ e \in 1..(i - 1) /\ s[e].type = "FDT_BEGIN_NODE"
      /\ DepthIn(s, i) = DepthIn(s, e) + 1 /\ DepthIn(s, e) \in Nat
  BY ONLY Enclosed(s, i), Enclosed(s, e), e = EncloserIn(s, i), e # 0 DEF Enclosed
<1>2. DepthIn(s, i + 1) = DepthIn(s, i) - 1
  BY ONLY i \in Nat, i > 0, s[i].type = "FDT_END_NODE", DepthFacts DEF DepthChange
<1>3. DepthIn(s, i + 1) = DepthIn(s, e)
  BY ONLY <1>1, <1>2
<1>4. e \in OpenIn(s, i) /\ \A k \in OpenIn(s, i) : k <= e
  BY ONLY i \in Nat, i > 0, e = EncloserIn(s, i), e # 0, EncloserFacts
<1>5. \A k \in (e + 1)..i : DepthIn(s, k) > DepthIn(s, e)
  BY ONLY <1>4, OpenFacts
<1>6. \A k \in Nat : k > 0 => DepthIn(s, k) \in Int
  BY ONLY DepthIsInt
<1>7. ASSUME NEW j PROVE j \in OpenIn(s, i + 1) <=> j \in OpenIn(s, e)
  <2>1. ASSUME j \in OpenIn(s, i + 1) PROVE j \in OpenIn(s, e)
    <3>1. /\ j \in 1..((i + 1) - 1) /\ s[j].type = "FDT_BEGIN_NODE"
          /\ \A k \in (j + 1)..(i + 1) : DepthIn(s, k) > DepthIn(s, j)
      BY ONLY <2>1, OpenFacts
    <3>2. j # i
      BY ONLY <3>1, s[i].type = "FDT_END_NODE"
    <3>3. /\ j \in 1..(i - 1) /\ (\A k \in (j + 1)..i : k \in (j + 1)..(i + 1))
          /\ i + 1 \in (j + 1)..(i + 1)
      BY ONLY <3>1, <3>2, i \in Nat, i > 0
    <3>4. j \in OpenIn(s, i)
      BY ONLY <3>1, <3>3, OpenFacts
    <3>5. j <= e
      BY ONLY <1>4, <3>4
    <3>6. DepthIn(s, i + 1) > DepthIn(s, j)
      BY ONLY <3>1, <3>3
    <3>7. j # e
      BY ONLY <1>1, <1>3, <3>6
    <3>8. j \in 1..(e - 1) /\ \A k \in (j + 1)..e : k \in (j + 1)..i
      BY ONLY <1>1, <3>3, <3>5, <3>7, i \in Nat
    <3> QED BY ONLY <3>1, <3>3, <3>8, OpenFacts
  <2>2. ASSUME j \in OpenIn(s, e) PROVE j \in OpenIn(s, i + 1)
    <3>1. /\ j \in 1..(e - 1) /\ s[j].type = "FDT_BEGIN_NODE"
          /\ \A k \in (j + 1)..e : DepthIn(s, k) > DepthIn(s, j)
      BY ONLY <2>2, OpenFacts
    <3>2. j \in 1..((i + 1) - 1) /\ e \in (j + 1)..e /\ j \in Nat /\ j > 0 /\ e \in Nat /\ e > 0
      BY ONLY <1>1, <3>1, i \in Nat
    <3>3. \A k \in (j + 1)..(i + 1) : k \in (j + 1)..e \/ k \in (e + 1)..i \/ k = i + 1
      BY ONLY <1>1, <3>1, i \in Nat
    <3>4. PICK a, b : a = DepthIn(s, e) /\ b = DepthIn(s, j) /\ a > b /\ a \in Int /\ b \in Int
      BY ONLY <1>6, <3>1, <3>2
    <3>5. \A k \in (e + 1)..i : DepthIn(s, k) > b
      <4>1. \A k \in (e + 1)..i : k \in Nat /\ k > 0
        BY ONLY <1>1, i \in Nat
      <4>2. \A x \in Int : x > a => x > b
        BY ONLY <3>4
      <4> QED BY ONLY <1>5, <1>6, <3>4, <4>1, <4>2
    <3>6. DepthIn(s, i + 1) > b
      BY ONLY <1>3, <3>4
    <3> QED BY ONLY <3>1, <3>2, <3>3, <3>4, <3>5, <3>6, OpenFacts
  <2> QED BY ONLY <2>1, <2>2
<1>8. OpenIn(s, i + 1) = OpenIn(s, e)
  BY ONLY <1>7
<1>9. EncloserIn(s, i + 1) = EncloserIn(s, e)
  BY ONLY <1>8 DEF EncloserIn
<1>10. \A x : x \in 1..(e - 1) => x \in 1..((i + 1) - 1)
  BY ONLY <1>1, i \in Nat
<1> QED BY ONLY <1>3, <1>9, <1>10, Enclosed(s, e) DEF Enclosed

-----------------------------------------------------------------------------
(* What the parser has tested of the tokens that it has read. *)

Sensible(s, i) ==
    /\ s[i].type # "unknown"
    /\ s[i].type = "FDT_END" => i = Len(s)
    /\ s[i].type \in {"FDT_PROP", "FDT_END_NODE"} => DepthIn(s, i) > 0
    /\ (s[i].type = "FDT_BEGIN_NODE" /\ DepthIn(s, i) = 0) =>
          CountIn(s, "FDT_BEGIN_NODE", i - 1) = 0

Scan(s, n) ==
    /\ n \in Nat /\ n <= Len(s) /\ Len(s) \in Nat
    /\ \A i \in 1..n : Sensible(s, i)
    /\ \A i \in 1..(n + 1) : Enclosed(s, i)

LEMMA ScanStart == ASSUME NEW s, Len(s) \in Nat PROVE Scan(s, 0)
<1>1. \A i \in 1..0 : FALSE
  OBVIOUS
<1>2. Enclosed(s, 1)
  <2>1. OpenIn(s, 1) = {}
    <3>1. \A j : j \in 1..(1 - 1) => FALSE
      OBVIOUS
    <3> QED BY ONLY <3>1 DEF OpenIn
  <2>2. EncloserIn(s, 1) = 0
    BY ONLY <2>1 DEF EncloserIn
  <2>3. DepthIn(s, 1) = 0
    BY ONLY DepthStart
  <2> QED BY ONLY <2>2, <2>3 DEF Enclosed
<1>3. \A i \in 1..(0 + 1) : i = 1
  OBVIOUS
<1> QED BY ONLY <1>1, <1>2, <1>3, Len(s) \in Nat DEF Scan

LEMMA ScanNext ==
    ASSUME NEW s, NEW n, Scan(s, n), n < Len(s), Sensible(s, n + 1)
    PROVE  Scan(s, n + 1)
<1>1. n \in Nat /\ Len(s) \in Nat /\ n + 1 \in Nat /\ n + 1 > 0 /\ n + 1 <= Len(s)
  BY ONLY Scan(s, n), n < Len(s) DEF Scan
<1>2. (\A i \in 1..n : Sensible(s, i)) /\ \A i \in 1..(n + 1) : Enclosed(s, i)
  BY ONLY Scan(s, n) DEF Scan
<1>3. \A i \in 1..(n + 1) : i \in 1..n \/ i = n + 1
  BY ONLY <1>1
<1>4. \A i \in 1..(n + 1) : Sensible(s, i)
  BY ONLY <1>2, <1>3, Sensible(s, n + 1)
<1>5. PICK i : i = n + 1 /\ i \in Nat /\ i > 0 /\ i \in 1..(n + 1)
  BY ONLY <1>1
<1>6. Enclosed(s, i) /\ DepthIn(s, i) \in Nat
  BY ONLY <1>2, <1>5 DEF Enclosed
<1>7. Enclosed(s, i + 1)
  <2>1. CASE s[i].type = "FDT_BEGIN_NODE"
    BY ONLY <1>5, <1>6, <2>1, EnclosedBegin
  <2>2. CASE s[i].type = "FDT_END_NODE"
    <3>1. DepthIn(s, i) > 0
      BY ONLY <1>5, <2>2, Sensible(s, n + 1) DEF Sensible
    <3>2. PICK e : e = EncloserIn(s, i)
      OBVIOUS
    <3>3. e # 0 /\ e \in 1..(i - 1)
      BY ONLY <1>6, <3>1, <3>2 DEF Enclosed
    <3>4. e \in 1..(n + 1)
      BY ONLY <1>1, <1>5, <3>3
    <3>5. Enclosed(s, e)
      BY ONLY <1>2, <3>4
    <3> QED BY ONLY <1>5, <1>6, <2>2, <3>2, <3>3, <3>5, EnclosedEnd
  <2>3. CASE s[i].type # "FDT_BEGIN_NODE" /\ s[i].type # "FDT_END_NODE"
    BY ONLY <1>5, <1>6, <2>3, EnclosedSame
  <2> QED BY ONLY <2>1, <2>2, <2>3
<1>8. \A j \in 1..((n + 1) + 1) : j \in 1..(n + 1) \/ j = i + 1
  BY ONLY <1>1, <1>5
<1>9. \A j \in 1..((n + 1) + 1) : Enclosed(s, j)
  BY ONLY <1>2, <1>7, <1>8
<1> QED BY ONLY <1>1, <1>4, <1>9 DEF Scan

(* current_node, finished_root_node, got_end_token and the next number     *)
(* after n tokens.                                                         *)
At(s, n, m, fin, got, f) ==
    /\ f = ObjectIn(s, n) + 1
    /\ got <=> \E i \in 1..n : s[i].type = "FDT_END"
    /\ m = NULL => CountIn(s, "FDT_BEGIN_NODE", n) = 0 /\ ~fin
    /\ m # NULL => CountIn(s, "FDT_BEGIN_NODE", n) # 0
    /\ fin => EncloserIn(s, n + 1) = 0
    /\ (m # NULL /\ ~fin) => /\ EncloserIn(s, n + 1) # 0
                             /\ m = ObjectIn(s, EncloserIn(s, n + 1))

(* The depth tells whether a node is open. *)
LEMMA AtDepth ==
    ASSUME NEW s, NEW n, NEW m, NEW fin, NEW got, NEW f, Scan(s, n), At(s, n, m, fin, got, f)
    PROVE  /\ (m = NULL \/ fin) <=> EncloserIn(s, n + 1) = 0
           /\ (m = NULL \/ fin) <=> DepthIn(s, n + 1) = 0
           /\ ~(m = NULL \/ fin) <=> DepthIn(s, n + 1) > 0
<1>1. n \in Nat /\ n + 1 \in 1..(n + 1)
  BY ONLY Scan(s, n) DEF Scan
<1>2. Enclosed(s, n + 1)
  BY ONLY <1>1, Scan(s, n) DEF Scan
<1>3. PICK e : e = EncloserIn(s, n + 1)
  OBVIOUS
<1>4. m = NULL => e = 0
  <2>1. SUFFICES ASSUME m = NULL, e # 0 PROVE FALSE
    OBVIOUS
  <2>2. e \in 1..((n + 1) - 1) /\ s[e].type = "FDT_BEGIN_NODE"
    BY ONLY <1>2, <1>3, <2>1 DEF Enclosed
  <2>3. PICK x : x = "FDT_BEGIN_NODE"
    OBVIOUS
  <2>4. CountIn(s, x, n) = 0
    BY ONLY <2>1, <2>3, At(s, n, m, fin, got, f) DEF At
  <2>5. \A k \in 1..n : s[k].type # x
    BY ONLY <1>1, <2>4, CountFacts
  <2>6. e \in 1..n
    BY ONLY <1>1, <2>2
  <2> QED BY ONLY <2>2, <2>3, <2>5, <2>6
<1>5. fin => e = 0
  BY ONLY <1>3, At(s, n, m, fin, got, f) DEF At
<1>6. ~(m = NULL \/ fin) => e # 0
  BY ONLY <1>3, At(s, n, m, fin, got, f) DEF At
<1>7. DepthIn(s, n + 1) \in Nat /\ (e = 0 <=> DepthIn(s, n + 1) = 0)
  <2>1. ASSUME e # 0 PROVE DepthIn(s, n + 1) # 0
    <3>1. e \in 1..((n + 1) - 1) /\ DepthIn(s, n + 1) = DepthIn(s, e) + 1
      BY ONLY <1>2, <1>3, <2>1 DEF Enclosed
    <3>2. e \in 1..(n + 1)
      BY ONLY <1>1, <3>1
    <3>3. DepthIn(s, e) \in Nat
      BY ONLY <3>2, Scan(s, n) DEF Scan, Enclosed
    <3> QED BY ONLY <3>1, <3>3
  <2> QED BY ONLY <1>2, <1>3, <2>1 DEF Enclosed
<1> QED BY ONLY <1>3, <1>4, <1>5, <1>6, <1>7

LEMMA ObjectFacts ==
    ASSUME NEW s, NEW n, n \in Nat
    PROVE  /\ ObjectIn(s, n) \in Nat
           /\ s[n + 1].type \in {"FDT_BEGIN_NODE", "FDT_PROP"} =>
                 ObjectIn(s, n + 1) = ObjectIn(s, n) + 1
           /\ s[n + 1].type \notin {"FDT_BEGIN_NODE", "FDT_PROP"} =>
                 ObjectIn(s, n + 1) = ObjectIn(s, n)
<1>1. PICK x, y : x = "FDT_BEGIN_NODE" /\ y = "FDT_PROP" /\ x # y
  OBVIOUS
<1>2. PICK a, b, c, d : /\ a = CountIn(s, x, n) /\ b = CountIn(s, y, n)
                        /\ c = CountIn(s, x, n + 1) /\ d = CountIn(s, y, n + 1)
  OBVIOUS
<1>3. PICK z : z = s[n + 1].type
  OBVIOUS
<1>4. /\ a \in Nat /\ (z = x => c = a + 1) /\ (z # x => c = a)
      /\ b \in Nat /\ (z = y => d = b + 1) /\ (z # y => d = b)
  BY ONLY <1>2, <1>3, n \in Nat, CountFacts
<1>5. ObjectIn(s, n) = a + b /\ ObjectIn(s, n + 1) = c + d
  BY ONLY <1>1, <1>2 DEF ObjectIn
<1> QED BY ONLY <1>1, <1>3, <1>4, <1>5

(* Reading a token, of each type. *)
LEMMA AtStart ==
    ASSUME NEW s, NEW m, m = NULL
    PROVE  At(s, 0, m, FALSE, FALSE, 1)
<1>1. PICK x, y : x = "FDT_BEGIN_NODE" /\ y = "FDT_PROP"
  OBVIOUS
<1>2. CountIn(s, x, 0) = 0 /\ CountIn(s, y, 0) = 0
  BY ONLY CountNone
<1>3. ObjectIn(s, 0) + 1 = 1
  BY ONLY <1>1, <1>2 DEF ObjectIn
<1>4. \A i \in 1..0 : FALSE
  OBVIOUS
<1> QED BY ONLY <1>1, <1>2, <1>3, <1>4, m = NULL DEF At

LEMMA AtBegin ==
    ASSUME NEW s, NEW n, NEW m, NEW fin, NEW got, NEW f, NEW g, Scan(s, n),
           At(s, n, m, fin, got, f),
           s[n + 1].type = "FDT_BEGIN_NODE", ~fin, g = f + 1
    PROVE  Sensible(s, n + 1) /\ At(s, n + 1, f, fin, got, g)
<1>1. n \in Nat /\ n + 1 \in Nat /\ n + 1 > 0 /\ (n + 1) - 1 = n
  BY ONLY Scan(s, n) DEF Scan
<1>2. DepthIn(s, n + 1) \in Nat
  <2>1. n + 1 \in 1..(n + 1)
    BY ONLY <1>1
  <2> QED BY ONLY <2>1, Scan(s, n) DEF Scan, Enclosed
<1>3. (DepthIn(s, n + 1) = 0) => CountIn(s, "FDT_BEGIN_NODE", n) = 0
  <2>1. DepthIn(s, n + 1) = 0 => m = NULL
    BY ONLY Scan(s, n), At(s, n, m, fin, got, f), ~fin, AtDepth
  <2> QED BY ONLY <2>1, At(s, n, m, fin, got, f) DEF At
<1>4. Sensible(s, n + 1)
  BY ONLY <1>1, <1>3, s[n + 1].type = "FDT_BEGIN_NODE" DEF Sensible
<1>5. EncloserIn(s, (n + 1) + 1) = n + 1
  BY ONLY <1>1, <1>2, s[n + 1].type = "FDT_BEGIN_NODE", EnclosedBegin
<1>6. ObjectIn(s, n + 1) = f /\ f \in Nat
  BY ONLY <1>1, s[n + 1].type = "FDT_BEGIN_NODE", At(s, n, m, fin, got, f), ObjectFacts DEF At
<1>7. CountIn(s, "FDT_BEGIN_NODE", n + 1) # 0
  <2>1. PICK x, a : x = "FDT_BEGIN_NODE" /\ a = CountIn(s, x, n)
    OBVIOUS
  <2>2. a \in Nat /\ CountIn(s, x, n + 1) = a + 1
    BY ONLY <1>1, <2>1, s[n + 1].type = "FDT_BEGIN_NODE", CountFacts
  <2> QED BY ONLY <2>1, <2>2
<1>8. got <=> \E i \in 1..(n + 1) : s[i].type = "FDT_END"
  <2>1. \A i : i \in 1..(n + 1) <=> (i \in 1..n \/ i = n + 1)
    BY ONLY <1>1
  <2> QED BY ONLY <2>1, s[n + 1].type = "FDT_BEGIN_NODE", At(s, n, m, fin, got, f) DEF At
<1>9. f # NULL /\ n + 1 # 0
  BY ONLY <1>1, <1>6, NullFacts
<1> QED BY ONLY <1>4, <1>5, <1>6, <1>7, <1>8, <1>9, ~fin, g = f + 1 DEF At

(* A token that neither opens a node nor closes one. *)
LEMMA AtOther ==
    ASSUME NEW s, NEW n, NEW m, NEW fin, NEW got, NEW f, NEW g, NEW end, Scan(s, n),
           At(s, n, m, fin, got, f),
           s[n + 1].type \in {"FDT_PROP", "FDT_NOP", "FDT_END"},
           s[n + 1].type = "FDT_PROP" => ~(m = NULL \/ fin),
           s[n + 1].type = "FDT_END" => n + 1 = Len(s),
           g = IF s[n + 1].type = "FDT_PROP" THEN f + 1 ELSE f,
           end <=> (got \/ s[n + 1].type = "FDT_END")
    PROVE  Sensible(s, n + 1) /\ At(s, n + 1, m, fin, end, g)
<1>1. n \in Nat /\ n + 1 \in Nat /\ n + 1 > 0 /\ (n + 1) - 1 = n
  BY ONLY Scan(s, n) DEF Scan
<1>2. PICK z : z = s[n + 1].type
  OBVIOUS
<1>3. z \in {"FDT_PROP", "FDT_NOP", "FDT_END"} /\ z # "FDT_BEGIN_NODE" /\ z # "FDT_END_NODE"
      /\ z # "unknown"
  BY ONLY <1>2, s[n + 1].type \in {"FDT_PROP", "FDT_NOP", "FDT_END"}
<1>4. Sensible(s, n + 1)
  <2>1. z = "FDT_PROP" => DepthIn(s, n + 1) > 0
    BY ONLY <1>2, Scan(s, n), At(s, n, m, fin, got, f), AtDepth,
            s[n + 1].type = "FDT_PROP" => ~(m = NULL \/ fin)
  <2> QED BY ONLY <1>2, <1>3, <2>1, s[n + 1].type = "FDT_END" => n + 1 = Len(s) DEF Sensible
<1>5. EncloserIn(s, (n + 1) + 1) = EncloserIn(s, n + 1)
  <2>1. n + 1 \in 1..(n + 1)
    BY ONLY <1>1
  <2>2. Enclosed(s, n + 1)
    BY ONLY <2>1, Scan(s, n) DEF Scan
  <2> QED BY ONLY <1>1, <1>2, <1>3, <2>2, EnclosedSame
<1>6. g = ObjectIn(s, n + 1) + 1
  BY ONLY <1>1, <1>2, <1>3, At(s, n, m, fin, got, f), ObjectFacts,
          g = IF s[n + 1].type = "FDT_PROP" THEN f + 1 ELSE f DEF At
<1>7. CountIn(s, "FDT_BEGIN_NODE", n + 1) = CountIn(s, "FDT_BEGIN_NODE", n)
  <2>1. PICK x : x = "FDT_BEGIN_NODE"
    OBVIOUS
  <2>2. CountIn(s, x, n + 1) = CountIn(s, x, n)
    BY ONLY <1>1, <1>2, <1>3, <2>1, CountFacts
  <2> QED BY ONLY <2>1, <2>2
<1>8. end <=> \E i \in 1..(n + 1) : s[i].type = "FDT_END"
  <2>1. \A i : i \in 1..(n + 1) <=> (i \in 1..n \/ i = n + 1)
    BY ONLY <1>1
  <2>2. got <=> \E i \in 1..n : s[i].type = "FDT_END"
    BY ONLY At(s, n, m, fin, got, f) DEF At
  <2> QED BY ONLY <2>1, <2>2, end <=> (got \/ s[n + 1].type = "FDT_END")
<1> QED BY ONLY <1>4, <1>5, <1>6, <1>7, <1>8, At(s, n, m, fin, got, f) DEF At

(* The end of the node that is open: the one around it is open again. *)
LEMMA AtEnd ==
    ASSUME NEW s, NEW n, NEW m, NEW fin, NEW got, NEW f, NEW e, NEW k, NEW last, Scan(s, n),
           At(s, n, m, fin, got, f),
           s[n + 1].type = "FDT_END_NODE", m # NULL, ~fin, e = EncloserIn(s, EncloserIn(s, n + 1)),
           last <=> e = 0, k = IF e = 0 THEN m ELSE ObjectIn(s, e)
    PROVE  Sensible(s, n + 1) /\ At(s, n + 1, k, last, got, f)
<1>1. n \in Nat /\ n + 1 \in Nat /\ n + 1 > 0 /\ (n + 1) - 1 = n /\ n + 1 \in 1..(n + 1)
  BY ONLY Scan(s, n) DEF Scan
<1>2. DepthIn(s, n + 1) > 0 /\ EncloserIn(s, n + 1) # 0
  BY ONLY Scan(s, n), At(s, n, m, fin, got, f), m # NULL, ~fin, AtDepth
<1>3. Sensible(s, n + 1)
  BY ONLY <1>1, <1>2, s[n + 1].type = "FDT_END_NODE" DEF Sensible
<1>4. PICK d : d = EncloserIn(s, n + 1)
  OBVIOUS
<1>5. Enclosed(s, n + 1)
  BY ONLY <1>1, Scan(s, n) DEF Scan
<1>6. d \in 1..((n + 1) - 1) /\ d # 0
  BY ONLY <1>2, <1>4, <1>5 DEF Enclosed
<1>7. Enclosed(s, d)
  <2>1. d \in 1..(n + 1)
    BY ONLY <1>1, <1>6
  <2> QED BY ONLY <2>1, Scan(s, n) DEF Scan
<1>8. EncloserIn(s, (n + 1) + 1) = e
  BY ONLY <1>1, <1>4, <1>5, <1>6, <1>7, s[n + 1].type = "FDT_END_NODE", EnclosedEnd,
          e = EncloserIn(s, EncloserIn(s, n + 1))
<1>9. f = ObjectIn(s, n + 1) + 1
  BY ONLY <1>1, s[n + 1].type = "FDT_END_NODE", At(s, n, m, fin, got, f), ObjectFacts DEF At
<1>10. CountIn(s, "FDT_BEGIN_NODE", n + 1) # 0
  <2>1. PICK x : x = "FDT_BEGIN_NODE"
    OBVIOUS
  <2>2. CountIn(s, x, n + 1) = CountIn(s, x, n)
    BY ONLY <1>1, <2>1, s[n + 1].type = "FDT_END_NODE", CountFacts
  <2> QED BY ONLY <2>1, <2>2, m # NULL, At(s, n, m, fin, got, f) DEF At
<1>11. got <=> \E i \in 1..(n + 1) : s[i].type = "FDT_END"
  <2>1. \A i : i \in 1..(n + 1) <=> (i \in 1..n \/ i = n + 1)
    BY ONLY <1>1
  <2> QED BY ONLY <2>1, s[n + 1].type = "FDT_END_NODE", At(s, n, m, fin, got, f) DEF At
<1>12. e # 0 => ObjectIn(s, e) \in Nat
  <2>1. e # 0 => e \in 1..(d - 1)
    BY ONLY <1>4, <1>7, e = EncloserIn(s, EncloserIn(s, n + 1)) DEF Enclosed
  <2>2. e # 0 => e \in Nat
    BY ONLY <1>1, <1>6, <2>1
  <2> QED BY ONLY <2>2, ObjectFacts
<1>13. k # NULL
  BY ONLY <1>12, NullFacts, m # NULL, k = IF e = 0 THEN m ELSE ObjectIn(s, e)
<1> QED BY ONLY <1>3, <1>8, <1>9, <1>10, <1>11, <1>13, last <=> e = 0,
               k = IF e = 0 THEN m ELSE ObjectIn(s, e) DEF At

(* The end of the structure block. *)
Sane(s) ==
    LET n == Len(s)
    IN  /\ n > 0 /\ \A i \in 1..n : (s[i].type = "FDT_END") <=> (i = n)
        /\ \E i \in 1..n : s[i].type = "FDT_BEGIN_NODE"
        /\ DepthIn(s, n) = 0
        /\ \A i \in 1..n :
              /\ s[i].type # "unknown"
              /\ s[i].type \in {"FDT_PROP", "FDT_END_NODE"} => DepthIn(s, i) > 0
              /\ (s[i].type = "FDT_BEGIN_NODE" /\ DepthIn(s, i) = 0) =>
                    CountIn(s, "FDT_BEGIN_NODE", i - 1) = 0

(* All of it has been read: it is accepted if it is well-formed, and only  *)
(* then.                                                                   *)
LEMMA AtTheEnd ==
    ASSUME NEW s, NEW n, NEW m, NEW fin, NEW got, NEW f, Scan(s, n), At(s, n, m, fin, got, f),
           n = Len(s), n > 0
    PROVE  (got /\ m # NULL /\ fin) <=> Sane(s)
<1>1. n \in Nat /\ n \in 1..n /\ \A i \in 1..n : Sensible(s, i)
  BY ONLY Scan(s, n), n > 0 DEF Scan
<1>2. s[n].type = "FDT_END" => DepthIn(s, n + 1) = DepthIn(s, n)
  BY ONLY <1>1, n > 0, DepthFacts DEF DepthChange
<1>3. PICK x : x = "FDT_BEGIN_NODE"
  OBVIOUS
<1>4. CountIn(s, x, n) = 0 <=> \A k \in 1..n : s[k].type # x
  BY ONLY <1>1, CountFacts
<1>5. m = NULL <=> \A k \in 1..n : s[k].type # "FDT_BEGIN_NODE"
  BY ONLY <1>3, <1>4, At(s, n, m, fin, got, f) DEF At
<1>6. (m = NULL \/ fin) <=> DepthIn(s, n + 1) = 0
  BY ONLY Scan(s, n), At(s, n, m, fin, got, f), AtDepth
<1>7. got <=> \E i \in 1..n : s[i].type = "FDT_END"
  BY ONLY At(s, n, m, fin, got, f) DEF At
<1>8. ASSUME got, m # NULL, fin PROVE Sane(s)
  <2>1. \A i \in 1..n : s[i].type = "FDT_END" => i = n
    BY ONLY <1>1, n = Len(s) DEF Sensible
  <2>2. s[n].type = "FDT_END"
    BY ONLY <1>7, <1>8, <2>1
  <2>3. DepthIn(s, n) = 0
    BY ONLY <1>2, <1>6, <1>8, <2>2
  <2>4. \E i \in 1..n : s[i].type = "FDT_BEGIN_NODE"
    BY ONLY <1>5, <1>8
  <2>5. \A i \in 1..n :
           /\ s[i].type # "unknown"
           /\ s[i].type \in {"FDT_PROP", "FDT_END_NODE"} => DepthIn(s, i) > 0
           /\ (s[i].type = "FDT_BEGIN_NODE" /\ DepthIn(s, i) = 0) =>
                 CountIn(s, "FDT_BEGIN_NODE", i - 1) = 0
    BY ONLY <1>1 DEF Sensible
  <2> QED BY ONLY <2>1, <2>2, <2>3, <2>4, <2>5, n = Len(s), n > 0 DEF Sane
<1>9. ASSUME Sane(s) PROVE got /\ m # NULL /\ fin
  <2>1. s[n].type = "FDT_END" /\ DepthIn(s, n) = 0
        /\ \E i \in 1..n : s[i].type = "FDT_BEGIN_NODE"
    BY ONLY <1>1, <1>9, n = Len(s) DEF Sane
  <2>2. got /\ m # NULL
    BY ONLY <1>1, <1>5, <1>7, <2>1
  <2> QED BY ONLY <1>2, <1>6, <2>1, <2>2
<1> QED BY ONLY <1>8, <1>9

(* Each token that is refused tells that the block is not well-formed. *)
LEMMA Refused ==
    ASSUME NEW s, NEW n, NEW m, NEW fin, NEW got, NEW f, Scan(s, n), At(s, n, m, fin, got, f),
           n < Len(s),
           \/ s[n + 1].type = "FDT_BEGIN_NODE" /\ fin
           \/ s[n + 1].type \in {"FDT_END_NODE", "FDT_PROP"} /\ (m = NULL \/ fin)
           \/ s[n + 1].type = "FDT_END" /\ n + 1 # Len(s)
           \/ s[n + 1].type = "unknown"
    PROVE  ~Sane(s)
<1>1. n \in Nat /\ n + 1 \in 1..Len(s) /\ (n + 1) - 1 = n
  BY ONLY Scan(s, n), n < Len(s) DEF Scan
<1>2. SUFFICES ASSUME Sane(s) PROVE FALSE
  OBVIOUS
<1>3. PICK z, d : z = s[n + 1].type /\ d = DepthIn(s, n + 1)
  OBVIOUS
<1>4. /\ z # "unknown" /\ (z = "FDT_END" <=> n + 1 = Len(s))
      /\ z \in {"FDT_PROP", "FDT_END_NODE"} => d > 0
      /\ (z = "FDT_BEGIN_NODE" /\ d = 0) => CountIn(s, "FDT_BEGIN_NODE", n) = 0
  BY ONLY <1>1, <1>2, <1>3 DEF Sane
<1>5. (m = NULL \/ fin) => d = 0
  BY ONLY <1>3, Scan(s, n), At(s, n, m, fin, got, f), AtDepth
<1>6. fin => CountIn(s, "FDT_BEGIN_NODE", n) # 0
  BY ONLY At(s, n, m, fin, got, f) DEF At
<1> QED BY ONLY <1>3, <1>4, <1>5, <1>6,
           \/ s[n + 1].type = "FDT_BEGIN_NODE" /\ fin
           \/ s[n + 1].type \in {"FDT_END_NODE", "FDT_PROP"} /\ (m = NULL \/ fin)
           \/ s[n + 1].type = "FDT_END" /\ n + 1 # Len(s)
           \/ s[n + 1].type = "unknown"

-----------------------------------------------------------------------------
(* What the parser has made of the tokens that it has read. *)

Above(s, i) == IF EncloserIn(s, i) = 0 THEN NULL ELSE ObjectIn(s, EncloserIn(s, i))

NodeMade(s, i, t) ==
    LET n == ObjectIn(s, i)
    IN  n \in DOMAIN t.parent /\ t.name[n] = s[i].name /\ t.parent[n] = Above(s, i)

PropMade(s, i, t) ==
    LET n == ObjectIn(s, EncloserIn(s, i))
    IN  n \in DOMAIN t.parent
        /\ In([id |-> ObjectIn(s, i), name |-> s[i].name, value |-> s[i].value], t.props[n])

IdsAscend(l) == \A i \in 1..(Len(l) - 1) : l[i].id < l[i + 1].id

InOrder(t, m) == IsSeqn(t.props[m]) /\ Ascending(t.children[m]) /\ IdsAscend(t.props[m])

Built(s, n, t) ==
    /\ \A i \in 1..n : /\ s[i].type = "FDT_BEGIN_NODE" => NodeMade(s, i, t)
                       /\ s[i].type = "FDT_PROP" => PropMade(s, i, t)
    /\ \A m \in DOMAIN t.parent : InOrder(t, m)

LEMMA AppendAscends ==
    ASSUME NEW l, NEW n, IsSeqn(l), Ascending(l), n \in Nat, \A x : In(x, l) => x < n
    PROVE  Ascending(Append(l, n))
<1>1. PICK u, k : u = Append(l, n) /\ k = Len(l)
  OBVIOUS
<1>2. /\ Len(u) = k + 1 /\ k \in Nat /\ u[k + 1] = n /\ \A i \in 1..k : u[i] = l[i]
  BY ONLY <1>1, Appended, IsSeqn(l)
<1>3. \A i \in 1..(k - 1) : l[i] < l[i + 1]
  BY ONLY <1>1, Ascending(l) DEF Ascending
<1>4. \A i \in 1..k : l[i] < n
  BY ONLY <1>1, \A x : In(x, l) => x < n DEF In
<1>5. ASSUME NEW i \in 1..((k + 1) - 1) PROVE u[i] < u[i + 1]
  <2>1. CASE i = k
    <3>1. u[i] = l[i] /\ l[i] < n /\ u[i + 1] = n
      BY ONLY <1>2, <1>4, <2>1, i \in 1..((k + 1) - 1)
    <3> QED BY ONLY <3>1
  <2>2. CASE i # k
    <3>1. i \in 1..(k - 1) /\ i \in 1..k /\ i + 1 \in 1..k
      BY ONLY <1>2, <2>2, i \in 1..((k + 1) - 1)
    <3>2. u[i] = l[i] /\ u[i + 1] = l[i + 1] /\ l[i] < l[i + 1]
      BY ONLY <1>2, <1>3, <3>1
    <3> QED BY ONLY <3>2
  <2> QED BY ONLY <2>1, <2>2
<1> QED BY ONLY <1>1, <1>2, <1>5 DEF Ascending

LEMMA AppendIdsAscend ==
    ASSUME NEW l, NEW e, NEW f, IsSeqn(l), IdsAscend(l), f = e.id, \A x : In(x, l) => x.id < f
    PROVE  IdsAscend(Append(l, e))
<1>1. PICK u, k : u = Append(l, e) /\ k = Len(l)
  OBVIOUS
<1>2. /\ Len(u) = k + 1 /\ k \in Nat /\ u[k + 1] = e /\ \A i \in 1..k : u[i] = l[i]
  BY ONLY <1>1, Appended, IsSeqn(l)
<1>3. \A i \in 1..(k - 1) : l[i].id < l[i + 1].id
  BY ONLY <1>1, IdsAscend(l) DEF IdsAscend
<1>4. \A i \in 1..k : l[i].id < f
  BY ONLY <1>1, \A x : In(x, l) => x.id < f DEF In
<1>5. ASSUME NEW i \in 1..((k + 1) - 1) PROVE u[i].id < u[i + 1].id
  <2>1. CASE i = k
    <3>1. u[i] = l[i] /\ l[i].id < f /\ u[i + 1] = e
      BY ONLY <1>2, <1>4, <2>1, i \in 1..((k + 1) - 1)
    <3> QED BY ONLY <3>1, f = e.id
  <2>2. CASE i # k
    <3>1. i \in 1..(k - 1) /\ i \in 1..k /\ i + 1 \in 1..k
      BY ONLY <1>2, <2>2, i \in 1..((k + 1) - 1)
    <3>2. u[i] = l[i] /\ u[i + 1] = l[i + 1] /\ l[i].id < l[i + 1].id
      BY ONLY <1>2, <1>3, <3>1
    <3> QED BY ONLY <3>2
  <2> QED BY ONLY <2>1, <2>2
<1> QED BY ONLY <1>1, <1>2, <1>5 DEF IdsAscend

LEMMA NoneAscend == Ascending(<<>>) /\ IdsAscend(<<>>)
<1>1. \A i \in 1..(0 - 1) : FALSE
  OBVIOUS
<1> QED BY ONLY <1>1, NoElements DEF Ascending, IdsAscend

LEMMA BuiltStart == ASSUME NEW s, NEW t, DOMAIN t.parent = {} PROVE Built(s, 0, t)
<1>1. \A i \in 1..0 : FALSE
  OBVIOUS
<1> QED BY ONLY <1>1, DOMAIN t.parent = {} DEF Built

(* The next token makes no object. *)
LEMMA BuiltSame ==
    ASSUME NEW s, NEW n, NEW t, n \in Nat, Built(s, n, t),
           s[n + 1].type \notin {"FDT_BEGIN_NODE", "FDT_PROP"}
    PROVE  Built(s, n + 1, t)
<1>1. \A i \in 1..(n + 1) : i \in 1..n \/ i = n + 1
  BY ONLY n \in Nat
<1> QED BY ONLY <1>1, Built(s, n, t), s[n + 1].type \notin {"FDT_BEGIN_NODE", "FDT_PROP"} DEF Built

LEMMA BuiltNode ==
    ASSUME NEW s, NEW n, NEW t, NEW L, NEW u, NEW f, NEW m, NEW fin, NEW got, NEW name,
           Scan(s, n), At(s, n, m, fin, got, f), Built(s, n, t), ~fin,
           s[n + 1].type = "FDT_BEGIN_NODE", TreeInv(t), HeapInv(t, f, L), Slot(t, m),
           name = s[n + 1].name, u = AddNode(t, f, m, name)
    PROVE  Built(s, n + 1, u)
<1>1. n \in Nat /\ n + 1 \in Nat /\ n + 1 \in 1..(n + 1)
  BY ONLY Scan(s, n) DEF Scan
<1>2. PICK D, r : D = DOMAIN t.parent /\ r = t.props
  OBVIOUS
<1>3. Owned(D, r, f)
  BY ONLY <1>2, HeapInv(t, f, L) DEF HeapInv, Props
<1>4. f \in Nat /\ (\A x \in D : x < f) /\ f \notin D
  <2>1. f \in Nat /\ (\A x \in D : x < f)
    BY ONLY <1>3 DEF Owned
  <2> QED BY ONLY <2>1
<1>5. m \in DOMAIN t.parent \/ (m = NULL /\ DOMAIN t.parent = {})
  BY ONLY Slot(t, m) DEF Slot
<1>6. \A x \in DOMAIN t.parent : x < f
  BY ONLY <1>2, <1>4
<1>7. /\ DOMAIN u.parent = DOMAIN t.parent \cup {f} /\ u.parent[f] = m
      /\ u.name[f] = name /\ u.children[f] = <<>> /\ u.props[f] = <<>>
      /\ \A x \in DOMAIN t.parent :
            /\ u.parent[x] = t.parent[x] /\ u.name[x] = t.name[x] /\ u.props[x] = t.props[x]
            /\ x = m => u.children[x] = Append(t.children[x], f)
            /\ x # m => u.children[x] = t.children[x]
  BY ONLY <1>4, <1>5, <1>6, TreeInv(t), u = AddNode(t, f, m, name), AddNodeLemma
<1>8. ObjectIn(s, n + 1) = f
  BY ONLY <1>1, <1>4, s[n + 1].type = "FDT_BEGIN_NODE", At(s, n, m, fin, got, f), ObjectFacts DEF At
<1>9. m = Above(s, n + 1)
  <2>1. m = NULL <=> EncloserIn(s, n + 1) = 0
    BY ONLY Scan(s, n), At(s, n, m, fin, got, f), ~fin, AtDepth
  <2> QED BY ONLY <2>1, ~fin, At(s, n, m, fin, got, f) DEF At, Above
<1>10. NodeMade(s, n + 1, u)
  BY ONLY <1>7, <1>8, <1>9, name = s[n + 1].name DEF NodeMade
<1>11. ASSUME NEW i, NodeMade(s, i, t) PROVE NodeMade(s, i, u)
  BY ONLY <1>7, <1>11 DEF NodeMade
<1>12. ASSUME NEW i, PropMade(s, i, t) PROVE PropMade(s, i, u)
  BY ONLY <1>7, <1>12 DEF PropMade
<1>13. ASSUME NEW x \in DOMAIN u.parent PROVE InOrder(u, x)
  <2>1. CASE x = f
    BY ONLY <1>7, <2>1, NoneAscend, NoElements DEF InOrder
  <2>2. CASE x # f
    <3>1. x \in D /\ u.props[x] = t.props[x]
      BY ONLY <1>2, <1>7, <2>2, x \in DOMAIN u.parent
    <3>2. InOrder(t, x)
      BY ONLY <1>2, <3>1, Built(s, n, t) DEF Built
    <3>3. PICK l : l = t.children[x]
      OBVIOUS
    <3>4. Ascending(l)
      BY ONLY <3>2, <3>3 DEF InOrder
    <3>5. IsSeqn(l) /\ \A y : In(y, l) => y < f
      <4>1. IsSeqn(l) /\ \A y : In(y, l) => y \in D
        BY ONLY <1>2, <3>1, <3>3, TreeInv(t) DEF TreeInv, Links, Kids
      <4> QED BY ONLY <1>4, <4>1
    <3>6. Ascending(Append(l, f))
      BY ONLY <1>4, <3>4, <3>5, AppendAscends
    <3>7. u.children[x] = l \/ u.children[x] = Append(l, f)
      BY ONLY <1>2, <1>7, <3>1, <3>3
    <3>8. Ascending(u.children[x])
      BY ONLY <3>4, <3>6, <3>7
    <3> QED BY ONLY <3>1, <3>2, <3>8 DEF InOrder
  <2> QED BY ONLY <2>1, <2>2
<1>14. \A i \in 1..(n + 1) : i \in 1..n \/ i = n + 1
  BY ONLY <1>1
<1> QED BY ONLY <1>10, <1>11, <1>12, <1>13, <1>14, Built(s, n, t), s[n + 1].type = "FDT_BEGIN_NODE"
           DEF Built

LEMMA BuiltProp ==
    ASSUME NEW s, NEW n, NEW t, NEW L, NEW u, NEW f, NEW m, NEW fin, NEW got, NEW e,
           Scan(s, n), At(s, n, m, fin, got, f), Built(s, n, t), ~(m = NULL \/ fin),
           s[n + 1].type = "FDT_PROP", TreeInv(t), HeapInv(t, f, L), m \in DOMAIN t.parent,
           e = [id |-> f, name |-> s[n + 1].name, value |-> s[n + 1].value], u = AddProp(t, m, e)
    PROVE  Built(s, n + 1, u)
<1>1. n \in Nat /\ n + 1 \in Nat /\ n + 1 \in 1..(n + 1)
  BY ONLY Scan(s, n) DEF Scan
<1>2. PICK D, r : D = DOMAIN t.parent /\ r = t.props
  OBVIOUS
<1>3. Owned(D, r, f)
  BY ONLY <1>2, HeapInv(t, f, L) DEF HeapInv, Props
<1>4. f \in Nat /\ IsSeqn(r[m]) /\ \A x : In(x, r[m]) => x.id < f
  BY ONLY <1>2, <1>3, m \in DOMAIN t.parent DEF Owned
<1>5. /\ u.parent = t.parent /\ u.name = t.name /\ u.children = t.children
      /\ u.props[m] = Append(t.props[m], e)
      /\ \A x \in DOMAIN t.parent : x # m => u.props[x] = t.props[x]
  BY ONLY TreeInv(t), m \in DOMAIN t.parent, u = AddProp(t, m, e), AddPropLemma
<1>6. ObjectIn(s, n + 1) = f
  BY ONLY <1>1, <1>4, s[n + 1].type = "FDT_PROP", At(s, n, m, fin, got, f), ObjectFacts DEF At
<1>7. m = ObjectIn(s, EncloserIn(s, n + 1))
  BY ONLY ~(m = NULL \/ fin), At(s, n, m, fin, got, f) DEF At
<1>8. PICK l : l = r[m]
  OBVIOUS
<1>9. \A x : In(x, Append(l, e)) <=> (In(x, l) \/ x = e)
  BY ONLY <1>4, <1>8, AppendedIn
<1>10. u.props[m] = Append(l, e)
  BY ONLY <1>2, <1>5, <1>8
<1>11. PropMade(s, n + 1, u)
  <2>1. In(e, u.props[m])
    BY ONLY <1>9, <1>10
  <2> QED BY ONLY <1>5, <1>6, <1>7, <2>1, m \in DOMAIN t.parent,
                  e = [id |-> f, name |-> s[n + 1].name, value |-> s[n + 1].value] DEF PropMade
<1>12. ASSUME NEW i, NodeMade(s, i, t) PROVE NodeMade(s, i, u)
  BY ONLY <1>5, <1>12 DEF NodeMade
<1>13. ASSUME NEW i, PropMade(s, i, t) PROVE PropMade(s, i, u)
  <2>1. PICK k, x : /\ k = ObjectIn(s, EncloserIn(s, i))
                    /\ x = [id |-> ObjectIn(s, i), name |-> s[i].name, value |-> s[i].value]
    OBVIOUS
  <2>2. k \in DOMAIN t.parent /\ In(x, t.props[k])
    BY ONLY <1>13, <2>1 DEF PropMade
  <2>3. In(x, u.props[k])
    <3>1. CASE k = m
      BY ONLY <1>2, <1>8, <1>9, <1>10, <2>2, <3>1
    <3>2. CASE k # m
      BY ONLY <1>5, <2>2, <3>2
    <3> QED BY ONLY <3>1, <3>2
  <2> QED BY ONLY <1>5, <2>1, <2>2, <2>3 DEF PropMade
<1>14. ASSUME NEW x \in DOMAIN u.parent PROVE InOrder(u, x)
  <2>1. x \in DOMAIN t.parent /\ InOrder(t, x) /\ InOrder(t, m)
    BY ONLY <1>5, Built(s, n, t), x \in DOMAIN u.parent, m \in DOMAIN t.parent DEF Built
  <2>2. IdsAscend(l) /\ f = e.id
    BY ONLY <1>2, <1>8, <2>1, e = [id |-> f, name |-> s[n + 1].name, value |-> s[n + 1].value]
       DEF InOrder
  <2>3. IdsAscend(Append(l, e))
    <3>1. IsSeqn(l) /\ \A y : In(y, l) => y.id < f
      BY ONLY <1>4, <1>8
    <3> QED BY ONLY <2>2, <3>1, AppendIdsAscend
  <2>4. IsSeqn(u.props[x]) /\ IdsAscend(u.props[x])
    <3>1. IsSeqn(l)
      BY ONLY <1>4, <1>8
    <3>2. IsSeqn(Append(l, e))
      BY ONLY <3>1, Appended
    <3> QED BY ONLY <1>5, <1>10, <2>1, <2>3, <3>2 DEF InOrder
  <2> QED BY ONLY <1>5, <2>1, <2>4 DEF InOrder
<1>15. \A i \in 1..(n + 1) : i \in 1..n \/ i = n + 1
  BY ONLY <1>1
<1> QED BY ONLY <1>11, <1>12, <1>13, <1>14, <1>15, Built(s, n, t), s[n + 1].type = "FDT_PROP"
           DEF Built

-----------------------------------------------------------------------------
(* The invariant of the reader: while it is in the structure block, the    *)
(* tree is what was read of it; it leaves the block only when that is      *)
(* well-formed, and gives up only when it is not or memory is short.       *)
ReadSoFar ==
    /\ Scan(Tokens, here)
    /\ At(Tokens, here, node, finished, gotEnd, fresh)
    /\ Built(Tokens, here, T)

(* devicetree_add_reservation has found the cells that it needs. *)
Usable(t, n) ==
    LET cells == devicetree_address_size_cells(t, n)
    IN  cells # NULL /\ cells[1] \in 1..2 /\ cells[2] \in 1..2

ReadInv ==
    /\ Len(Tokens) \in Nat
    /\ pc = "header" => /\ here = 0 /\ node = NULL /\ finished = FALSE /\ gotEnd = FALSE
                        /\ fresh = 1 /\ DOMAIN T.parent = {}
    /\ pc = "struct" => ReadSoFar
    /\ pc = "reserved-memory" => here = 0 /\ Built(Tokens, Len(Tokens), T)
    /\ pc \in {"reserved-memory", "reservations", "parsed"} => Sane(Tokens)
    /\ (pc = "reservations" /\ here > 0) => Usable(T, node)
    /\ (~oom /\ here > 0 /\ (pc = "free" \/ (pc = "struct" /\ fate = "panic"))) => ~Sane(Tokens)

LEMMA ReadStart == DtInit => ReadInv
<1> SUFFICES ASSUME DtInit PROVE ReadInv
  OBVIOUS
<1>1. /\ pc = "header" /\ here = 0 /\ node = NULL /\ finished = FALSE /\ gotEnd = FALSE
      /\ fresh = 1 /\ T = EmptyTree /\ blob \in Blobs
  BY DEF DtInit
<1>2. PICK e : e = <<>> /\ DOMAIN e = {}
  OBVIOUS
<1>3. T = [parent |-> e, name |-> e, children |-> e, props |-> e]
  BY ONLY <1>1, <1>2 DEF EmptyTree
<1>4. DOMAIN T.parent = {}
  BY ONLY <1>2, <1>3
<1>5. Len(Tokens) \in Nat
  BY ONLY <1>1, DevicetreeConstants DEF DevicetreeConstants, Tokens
<1> QED BY ONLY <1>1, <1>4, <1>5 DEF ReadInv

(* What has been read stays as it is. *)
LEMMA ReadStays ==
    ASSUME ReadInv, pc' = pc, blob' = blob,
           UNCHANGED <<here, T, node, finished, gotEnd, fresh>>,
           (~oom' /\ here > 0 /\ (pc = "free" \/ (pc = "struct" /\ fate' = "panic")))
              => ~Sane(Tokens)
    PROVE  ReadInv'
<1>1. Tokens' = Tokens
  BY ONLY blob' = blob DEF Tokens
<1>2. UNCHANGED <<here, T, node, finished, gotEnd, fresh>>
  OBVIOUS
<1>3. ReadSoFar => ReadSoFar'
  BY ONLY <1>1, <1>2 DEF ReadSoFar
<1> QED BY ONLY <1>1, <1>2, <1>3, ReadInv, pc' = pc,
               (~oom' /\ here > 0 /\ (pc = "free" \/ (pc = "struct" /\ fate' = "panic")))
                  => ~Sane(Tokens) DEF ReadInv

(* The reader gives up. *)
LEMMA ReadFails ==
    ASSUME NEW n, ReadInv, StartFree(n), blob' = blob, pc # "free",
           (~oom' /\ here > 0) => ~Sane(Tokens)
    PROVE  ReadInv'
<1>1. Tokens' = Tokens
  BY ONLY blob' = blob DEF Tokens
<1>2. CASE n # NULL /\ T.parent[n] # NULL
  <2>1. UNCHANGED <<pc, here, T, node, finished, gotEnd, fresh>>
    BY ONLY <1>2, StartFree(n) DEF StartFree, Panic
  <2> QED BY ONLY <2>1, ReadInv, blob' = blob, pc # "free",
                 (~oom' /\ here > 0) => ~Sane(Tokens), ReadStays
<1>3. CASE ~(n # NULL /\ T.parent[n] # NULL)
  <2>1. pc' = "free" /\ here' = here
    BY ONLY <1>3, StartFree(n) DEF StartFree, Goto
  <2>2. Len(Tokens) \in Nat
    BY DEF ReadInv
  <2> QED BY ONLY <1>1, <2>1, <2>2, (~oom' /\ here > 0) => ~Sane(Tokens) DEF ReadInv
<1> QED BY ONLY <1>2, <1>3

LEMMA ReadOn ==
    ASSUME ReadInv, pc' = "struct", blob' = blob, fate' # "panic", ReadSoFar'
    PROVE  ReadInv'
<1>1. Tokens' = Tokens
  BY ONLY blob' = blob DEF Tokens
<1>2. Len(Tokens) \in Nat
  BY DEF ReadInv
<1> QED BY ONLY <1>1, <1>2, pc' = "struct", fate' # "panic", ReadSoFar' DEF ReadInv

LEMMA ParseHeaderReads == ASSUME DtInv, ReadInv, ParseHeader PROVE ReadInv'
<1>1. fate = "ok" /\ pc = "header" /\ blob' = blob
  BY DEF ParseHeader, Running
<1>2. /\ here = 0 /\ node = NULL /\ finished = FALSE /\ gotEnd = FALSE
      /\ fresh = 1 /\ DOMAIN T.parent = {} /\ Len(Tokens) \in Nat
  BY ONLY <1>1, ReadInv DEF ReadInv
<1>3. CASE Refuse(NULL)
  <2>1. StartFree(NULL)
    BY ONLY <1>3 DEF Refuse
  <2>2. ~(here > 0)
    BY ONLY <1>2
  <2> QED BY ONLY <1>1, <2>1, <2>2, ReadInv, ReadFails
<1>4. CASE ~Refuse(NULL)
  <2>1. pc' = "struct" /\ UNCHANGED <<here, T, node, finished, gotEnd, fresh, fate>>
    BY ONLY <1>4, ParseHeader DEF ParseHeader, Goto
  <2>2. Tokens' = Tokens
    BY ONLY <1>1 DEF Tokens
  <2>3. PICK s, t, m : s = Tokens /\ t = T /\ m = NULL
    OBVIOUS
  <2>4. Scan(s, 0) /\ At(s, 0, m, FALSE, FALSE, 1) /\ Built(s, 0, t)
    BY ONLY <1>2, <2>3, ScanStart, AtStart, BuiltStart
  <2>5. ReadSoFar'
    BY ONLY <1>2, <2>1, <2>2, <2>3, <2>4 DEF ReadSoFar
  <2> QED BY ONLY <1>1, <2>1, <2>5, ReadInv, ReadOn
<1> QED BY ONLY <1>3, <1>4

(* A token is read. *)
LEMMA Reads ==
    ASSUME NEW type, ReadInv, Reading(type)
    PROVE  /\ fate = "ok" /\ pc = "struct" /\ ReadSoFar /\ here < Len(Tokens)
           /\ Tokens[here + 1].type = type /\ Token = Tokens[here + 1]
<1>1. /\ fate = "ok" /\ pc = "struct" /\ here < Len(Tokens)
      /\ Tokens[here + 1].type = type /\ Token = Tokens[here + 1]
  BY DEF Reading, Running, Token, Tokens
<1> QED BY ONLY <1>1, ReadInv DEF ReadInv

LEMMA BeginNodeReads == ASSUME DtInv, ReadInv, BeginNode PROVE ReadInv'
<1>1. PICK z : z = "FDT_BEGIN_NODE"
  OBVIOUS
<1>2. Reading(z) /\ blob' = blob
  BY ONLY <1>1, BeginNode DEF BeginNode
<1>3. /\ fate = "ok" /\ pc = "struct" /\ ReadSoFar /\ here < Len(Tokens)
      /\ Tokens[here + 1].type = z /\ Token = Tokens[here + 1]
  BY ONLY <1>2, ReadInv, Reads
<1>4. PICK s, n, m, f, t : s = Tokens /\ n = here /\ m = node /\ f = fresh /\ t = T
  OBVIOUS
<1>5. Scan(s, n) /\ At(s, n, m, finished, gotEnd, f) /\ Built(s, n, t)
  BY ONLY <1>3, <1>4 DEF ReadSoFar
<1>6. n < Len(s) /\ s[n + 1].type = "FDT_BEGIN_NODE"
  BY ONLY <1>1, <1>3, <1>4
<1>7. CASE finished /\ Refuse(node)
  <2>1. ~Sane(s)
    BY ONLY <1>5, <1>6, <1>7, Refused
  <2>2. StartFree(node)
    BY ONLY <1>7 DEF Refuse
  <2> QED BY ONLY <1>2, <1>3, <1>4, <2>1, <2>2, ReadInv, ReadFails
<1>8. CASE OutOfMemory(NodeObjects(fresh)) /\ StartFree(node)
  <2>1. oom'
    BY ONLY <1>8 DEF OutOfMemory
  <2> QED BY ONLY <1>2, <1>3, <1>8, <2>1, ReadInv, ReadFails
<1>9. CASE /\ ~finished
           /\ T' = AddNode(T, fresh, node, Token.name)
           /\ node' = fresh /\ fresh' = fresh + 1 /\ here' = here + 1
           /\ UNCHANGED <<pc, finished, gotEnd, fate>>
  <2>1. PICK a, u, g, k, L : /\ a = s[n + 1].name /\ u = AddNode(t, f, m, a) /\ g = f + 1
                             /\ k = n + 1 /\ L = live
    OBVIOUS
  <2>2. Sensible(s, k) /\ At(s, k, f, finished, gotEnd, g)
    BY ONLY <1>5, <1>6, <1>9, <2>1, AtBegin
  <2>3. Scan(s, k)
    BY ONLY <1>5, <1>6, <2>1, <2>2, ScanNext
  <2>4. TreeInv(t) /\ HeapInv(t, f, L)
    BY ONLY <1>3, <1>4, <2>1, DtInv DEF DtInv
  <2>5. Slot(t, m)
    BY ONLY <1>3, <1>4, DtInv, StructNode DEF Slot, Nodes
  <2>6. Built(s, k, u)
    BY ONLY <1>5, <1>6, <1>9, <2>1, <2>4, <2>5, BuiltNode
  <2>7. /\ Tokens' = s /\ here' = k /\ node' = f /\ fresh' = g /\ T' = u /\ finished' = finished
        /\ gotEnd' = gotEnd
    BY ONLY <1>2, <1>3, <1>4, <1>9, <2>1 DEF Tokens
  <2>8. ReadSoFar'
    BY ONLY <2>2, <2>3, <2>6, <2>7 DEF ReadSoFar
  <2> QED BY ONLY <1>2, <1>3, <1>9, <2>8, ReadInv, ReadOn
<1> QED BY ONLY <1>7, <1>8, <1>9, BeginNode DEF BeginNode

(* The node around the current one is the one that encloses its token. *)
LEMMA Outside ==
    ASSUME NEW s, NEW n, NEW m, NEW fin, NEW got, NEW f, NEW t, NEW e, Scan(s, n),
           At(s, n, m, fin, got, f), Built(s, n, t), m # NULL, ~fin,
           e = EncloserIn(s, EncloserIn(s, n + 1))
    PROVE  /\ t.parent[m] = NULL <=> e = 0
           /\ e # 0 => t.parent[m] = ObjectIn(s, e)
<1>1. n \in Nat /\ n + 1 \in 1..(n + 1)
  BY ONLY Scan(s, n) DEF Scan
<1>2. PICK d : d = EncloserIn(s, n + 1)
  OBVIOUS
<1>3. d # 0 /\ m = ObjectIn(s, d)
  BY ONLY <1>2, At(s, n, m, fin, got, f), m # NULL, ~fin DEF At
<1>4. Enclosed(s, n + 1)
  BY ONLY <1>1, Scan(s, n) DEF Scan
<1>5. d \in 1..((n + 1) - 1) /\ s[d].type = "FDT_BEGIN_NODE"
  BY ONLY <1>2, <1>3, <1>4 DEF Enclosed
<1>6. d \in 1..n /\ d \in 1..(n + 1)
  BY ONLY <1>1, <1>5
<1>7. NodeMade(s, d, t)
  BY ONLY <1>5, <1>6, Built(s, n, t) DEF Built
<1>8. t.parent[m] = IF e = 0 THEN NULL ELSE ObjectIn(s, e)
  BY ONLY <1>2, <1>3, <1>7, e = EncloserIn(s, EncloserIn(s, n + 1)) DEF NodeMade, Above
<1>9. Enclosed(s, d)
  BY ONLY <1>6, Scan(s, n) DEF Scan
<1>10. e = EncloserIn(s, d)
  BY ONLY <1>2, e = EncloserIn(s, EncloserIn(s, n + 1))
<1>11. e # 0 => e \in 1..(d - 1)
  BY ONLY <1>9, <1>10 DEF Enclosed
<1>12. e # 0 => e \in Nat
  BY ONLY <1>1, <1>6, <1>11
<1>13. e # 0 => ObjectIn(s, e) \in Nat
  BY ONLY <1>12, ObjectFacts
<1> QED BY ONLY <1>8, <1>13, NullFacts

LEMMA EndNodeReads == ASSUME DtInv, ReadInv, EndNode PROVE ReadInv'
<1>1. PICK z : z = "FDT_END_NODE"
  OBVIOUS
<1>2. Reading(z) /\ blob' = blob
  BY ONLY <1>1, EndNode DEF EndNode
<1>3. /\ fate = "ok" /\ pc = "struct" /\ ReadSoFar /\ here < Len(Tokens)
      /\ Tokens[here + 1].type = z /\ Token = Tokens[here + 1]
  BY ONLY <1>2, ReadInv, Reads
<1>4. PICK s, n, m, f, t : s = Tokens /\ n = here /\ m = node /\ f = fresh /\ t = T
  OBVIOUS
<1>5. Scan(s, n) /\ At(s, n, m, finished, gotEnd, f) /\ Built(s, n, t)
  BY ONLY <1>3, <1>4 DEF ReadSoFar
<1>6. n < Len(s) /\ s[n + 1].type = "FDT_END_NODE"
  BY ONLY <1>1, <1>3, <1>4
<1>7. CASE (node = NULL \/ finished) /\ Refuse(node)
  <2>1. ~Sane(s)
    BY ONLY <1>4, <1>5, <1>6, <1>7, Refused
  <2>2. StartFree(node)
    BY ONLY <1>7 DEF Refuse
  <2> QED BY ONLY <1>2, <1>3, <1>4, <2>1, <2>2, ReadInv, ReadFails
<1>8. CASE /\ ~(node = NULL \/ finished)
           /\ IF T.parent[node] # NULL
              THEN node' = T.parent[node] /\ UNCHANGED finished
              ELSE finished' = TRUE /\ UNCHANGED node
           /\ here' = here + 1
           /\ UNCHANGED <<pc, T, gotEnd, fresh, fate>>
  <2>1. PICK e, d, k, j : /\ e = EncloserIn(s, EncloserIn(s, n + 1)) /\ d = finished'
                          /\ k = node' /\ j = n + 1
    OBVIOUS
  <2>2. (t.parent[m] = NULL <=> e = 0) /\ (e # 0 => t.parent[m] = ObjectIn(s, e))
    BY ONLY <1>4, <1>5, <1>8, <2>1, Outside
  <2>3. (d <=> e = 0) /\ k = IF e = 0 THEN m ELSE ObjectIn(s, e)
    BY ONLY <1>4, <1>8, <2>1, <2>2
  <2>4. Sensible(s, j) /\ At(s, j, k, d, gotEnd, f)
    BY ONLY <1>4, <1>5, <1>6, <1>8, <2>1, <2>3, AtEnd
  <2>5. Scan(s, j)
    BY ONLY <1>5, <1>6, <2>1, <2>4, ScanNext
  <2>6. n \in Nat
    BY ONLY <1>5 DEF Scan
  <2>7. Built(s, j, t)
    BY ONLY <1>5, <1>6, <2>1, <2>6, BuiltSame
  <2>8. /\ Tokens' = s /\ here' = j /\ node' = k /\ fresh' = f /\ T' = t /\ finished' = d
        /\ gotEnd' = gotEnd
    BY ONLY <1>2, <1>3, <1>4, <1>8, <2>1 DEF Tokens
  <2>9. ReadSoFar'
    BY ONLY <2>4, <2>5, <2>7, <2>8 DEF ReadSoFar
  <2> QED BY ONLY <1>2, <1>3, <1>8, <2>9, ReadInv, ReadOn
<1> QED BY ONLY <1>7, <1>8, EndNode DEF EndNode

LEMMA PropReads == ASSUME DtInv, ReadInv, Prop PROVE ReadInv'
<1>1. PICK z : z = "FDT_PROP"
  OBVIOUS
<1>2. Reading(z) /\ blob' = blob
  BY ONLY <1>1, Prop DEF Prop
<1>3. /\ fate = "ok" /\ pc = "struct" /\ ReadSoFar /\ here < Len(Tokens)
      /\ Tokens[here + 1].type = z /\ Token = Tokens[here + 1]
  BY ONLY <1>2, ReadInv, Reads
<1>4. PICK s, n, m, f, t : s = Tokens /\ n = here /\ m = node /\ f = fresh /\ t = T
  OBVIOUS
<1>5. Scan(s, n) /\ At(s, n, m, finished, gotEnd, f) /\ Built(s, n, t)
  BY ONLY <1>3, <1>4 DEF ReadSoFar
<1>6. n < Len(s) /\ s[n + 1].type = "FDT_PROP"
  BY ONLY <1>1, <1>3, <1>4
<1>7. CASE (node = NULL \/ finished) /\ Refuse(node)
  <2>1. ~Sane(s)
    BY ONLY <1>4, <1>5, <1>6, <1>7, Refused
  <2>2. StartFree(node)
    BY ONLY <1>7 DEF Refuse
  <2> QED BY ONLY <1>2, <1>3, <1>4, <2>1, <2>2, ReadInv, ReadFails
<1>8. CASE OutOfMemory(PropObjects(fresh)) /\ StartFree(node)
  <2>1. oom'
    BY ONLY <1>8 DEF OutOfMemory
  <2> QED BY ONLY <1>2, <1>3, <1>8, <2>1, ReadInv, ReadFails
<1>9. CASE /\ ~(node = NULL \/ finished)
           /\ T' = AddProp(T, node, [id |-> fresh, name |-> Token.name, value |-> Token.value])
           /\ fresh' = fresh + 1 /\ here' = here + 1
           /\ UNCHANGED <<pc, node, finished, gotEnd, fate>>
  <2>1. PICK e : e = [id |-> f, name |-> s[n + 1].name, value |-> s[n + 1].value]
    OBVIOUS
  <2>2. PICK u, g, k, L : /\ u = AddProp(t, m, e) /\ g = f + 1 /\ k = n + 1 /\ L = live
    OBVIOUS
  <2>3. g = IF s[n + 1].type = "FDT_PROP" THEN f + 1 ELSE f
    BY ONLY <1>6, <2>2
  <2>4. Sensible(s, k) /\ At(s, k, m, finished, gotEnd, g)
    <3>1. s[n + 1].type = "FDT_PROP" => ~(m = NULL \/ finished)
      BY ONLY <1>4, <1>9
    <3>2. s[n + 1].type = "FDT_END" => n + 1 = Len(s)
      BY ONLY <1>6
    <3>3. gotEnd <=> (gotEnd \/ s[n + 1].type = "FDT_END")
      BY ONLY <1>6
    <3>4. s[n + 1].type \in {"FDT_PROP", "FDT_NOP", "FDT_END"}
      BY ONLY <1>6
    <3> QED BY ONLY <1>5, <2>2, <2>3, <3>1, <3>2, <3>3, <3>4, AtOther
  <2>5. Scan(s, k)
    BY ONLY <1>5, <1>6, <2>2, <2>4, ScanNext
  <2>6. TreeInv(t) /\ HeapInv(t, f, L)
    BY ONLY <1>3, <1>4, <2>2, DtInv DEF DtInv
  <2>7. m \in DOMAIN t.parent
    BY ONLY <1>3, <1>4, <1>9, DtInv, StructNode DEF Nodes
  <2>8. Built(s, k, u)
    BY ONLY <1>4, <1>5, <1>6, <1>9, <2>1, <2>2, <2>6, <2>7, BuiltProp
  <2>9. /\ Tokens' = s /\ here' = k /\ node' = m /\ fresh' = g /\ T' = u /\ finished' = finished
        /\ gotEnd' = gotEnd
    BY ONLY <1>2, <1>3, <1>4, <1>9, <2>1, <2>2 DEF Tokens
  <2>10. ReadSoFar'
    BY ONLY <2>4, <2>5, <2>8, <2>9 DEF ReadSoFar
  <2> QED BY ONLY <1>2, <1>3, <1>9, <2>10, ReadInv, ReadOn
<1> QED BY ONLY <1>7, <1>8, <1>9, Prop DEF Prop

(* A token of no consequence to the tree. *)
LEMMA ReadsOther ==
    ASSUME NEW type, ReadInv, Reading(type), type \in {"FDT_NOP", "FDT_END"}, blob' = blob,
           type = "FDT_END" => here + 1 = Len(Tokens),
           gotEnd' <=> (gotEnd \/ type = "FDT_END"), here' = here + 1,
           UNCHANGED <<pc, T, node, finished, fresh, fate>>
    PROVE  ReadInv'
<1>3. /\ fate = "ok" /\ pc = "struct" /\ ReadSoFar /\ here < Len(Tokens)
      /\ Tokens[here + 1].type = type
  BY ONLY ReadInv, Reading(type), Reads
<1>4. PICK s, n, m, f, t, j : s = Tokens /\ n = here /\ m = node /\ f = fresh /\ t = T /\ j = n + 1
  OBVIOUS
<1>5. Scan(s, n) /\ At(s, n, m, finished, gotEnd, f) /\ Built(s, n, t)
  BY ONLY <1>3, <1>4 DEF ReadSoFar
<1>6. n < Len(s) /\ s[n + 1].type = type /\ n \in Nat
  BY ONLY <1>3, <1>4, <1>5 DEF Scan
<1>7. /\ f = IF s[n + 1].type = "FDT_PROP" THEN f + 1 ELSE f
      /\ s[n + 1].type \in {"FDT_PROP", "FDT_NOP", "FDT_END"}
      /\ s[n + 1].type \notin {"FDT_BEGIN_NODE", "FDT_PROP"}
  BY ONLY <1>6, type \in {"FDT_NOP", "FDT_END"}
<1>8. PICK end : end = gotEnd'
  OBVIOUS
<1>9. /\ s[n + 1].type = "FDT_PROP" => ~(m = NULL \/ finished)
      /\ s[n + 1].type = "FDT_END" => n + 1 = Len(s)
      /\ end <=> (gotEnd \/ s[n + 1].type = "FDT_END")
  BY ONLY <1>4, <1>6, <1>7, <1>8, type = "FDT_END" => here + 1 = Len(Tokens),
          gotEnd' <=> (gotEnd \/ type = "FDT_END")
<1>10. Sensible(s, j) /\ At(s, j, m, finished, end, f)
  BY ONLY <1>4, <1>5, <1>7, <1>9, AtOther
<1>11. Scan(s, j)
  BY ONLY <1>4, <1>5, <1>6, <1>10, ScanNext
<1>12. Built(s, j, t)
  BY ONLY <1>4, <1>5, <1>6, <1>7, BuiltSame
<1>13. /\ Tokens' = s /\ here' = j /\ node' = m /\ fresh' = f /\ T' = t /\ finished' = finished
       /\ gotEnd' = end
  BY ONLY <1>4, <1>8, blob' = blob, here' = here + 1,
          UNCHANGED <<pc, T, node, finished, fresh, fate>> DEF Tokens
<1>14. ReadSoFar'
  BY ONLY <1>10, <1>11, <1>12, <1>13 DEF ReadSoFar
<1>15. pc' = "struct" /\ fate' # "panic"
  BY ONLY <1>3, UNCHANGED <<pc, T, node, finished, fresh, fate>>
<1> QED BY ONLY <1>14, <1>15, ReadInv, blob' = blob, ReadOn

LEMMA NopReads == ASSUME ReadInv, Nop PROVE ReadInv'
<1>1. PICK z : z = "FDT_NOP"
  OBVIOUS
<1>2. /\ Reading(z) /\ blob' = blob /\ here' = here + 1
      /\ UNCHANGED <<pc, T, node, finished, fresh, fate>>
  BY ONLY <1>1, Nop DEF Nop
<1>3. gotEnd' <=> (gotEnd \/ z = "FDT_END")
  BY ONLY <1>1, Nop DEF Nop
<1>4. z \in {"FDT_NOP", "FDT_END"} /\ (z = "FDT_END" => here + 1 = Len(Tokens))
  BY ONLY <1>1
<1> QED BY ONLY <1>2, <1>3, <1>4, ReadInv, ReadsOther

LEMMA EndReads == ASSUME ReadInv, End PROVE ReadInv'
<1>1. PICK z : z = "FDT_END"
  OBVIOUS
<1>2. Reading(z) /\ blob' = blob
  BY ONLY <1>1, End DEF End
<1>3. CASE here + 1 # Len(blob.tokens) /\ Refuse(node)
  <2>1. /\ fate = "ok" /\ pc = "struct" /\ ReadSoFar /\ here < Len(Tokens)
        /\ Tokens[here + 1].type = z
    BY ONLY <1>2, ReadInv, Reads
  <2>2. PICK s, n, m, f : s = Tokens /\ n = here /\ m = node /\ f = fresh
    OBVIOUS
  <2>3. Scan(s, n) /\ At(s, n, m, finished, gotEnd, f)
    BY ONLY <2>1, <2>2 DEF ReadSoFar
  <2>4. n < Len(s) /\ s[n + 1].type = "FDT_END" /\ n + 1 # Len(s)
    BY ONLY <1>1, <1>3, <2>1, <2>2 DEF Tokens
  <2>5. ~Sane(s)
    BY ONLY <2>3, <2>4, Refused
  <2>6. StartFree(node)
    BY ONLY <1>3 DEF Refuse
  <2> QED BY ONLY <1>2, <2>1, <2>2, <2>5, <2>6, ReadInv, ReadFails
<1>4. CASE /\ here + 1 = Len(blob.tokens) /\ gotEnd' = TRUE /\ here' = here + 1
           /\ UNCHANGED <<pc, T, node, finished, fresh, fate>>
  <2>1. gotEnd' <=> (gotEnd \/ z = "FDT_END")
    BY ONLY <1>1, <1>4
  <2>2. z \in {"FDT_NOP", "FDT_END"} /\ (z = "FDT_END" => here + 1 = Len(Tokens))
    BY ONLY <1>1, <1>4 DEF Tokens
  <2> QED BY ONLY <1>2, <1>4, <2>1, <2>2, ReadInv, ReadsOther
<1> QED BY ONLY <1>3, <1>4, End DEF End

LEMMA UnknownTokenReads == ASSUME ReadInv, UnknownToken PROVE ReadInv'
<1>1. PICK z : z = "unknown"
  OBVIOUS
<1>2. /\ Reading(z) /\ blob' = blob /\ UNCHANGED <<pc, here, T, node, finished, gotEnd, fresh>>
  BY ONLY <1>1, UnknownToken DEF UnknownToken, Panic
<1>3. /\ fate = "ok" /\ pc = "struct" /\ ReadSoFar /\ here < Len(Tokens)
      /\ Tokens[here + 1].type = z
  BY ONLY <1>2, ReadInv, Reads
<1>4. PICK s, n, m, f : s = Tokens /\ n = here /\ m = node /\ f = fresh
  OBVIOUS
<1>5. Scan(s, n) /\ At(s, n, m, finished, gotEnd, f)
  BY ONLY <1>3, <1>4 DEF ReadSoFar
<1>6. n < Len(s) /\ s[n + 1].type = "unknown"
  BY ONLY <1>1, <1>3, <1>4
<1>7. ~Sane(s)
  BY ONLY <1>5, <1>6, Refused
<1>8. ~Sane(Tokens)
  BY ONLY <1>4, <1>7
<1> QED BY ONLY <1>2, <1>8, ReadInv, ReadStays

LEMMA StructEndReads == ASSUME ReadInv, StructEnd PROVE ReadInv'
<1>1. fate = "ok" /\ pc = "struct" /\ here = Len(Tokens) /\ blob' = blob
  BY DEF StructEnd, Running, Tokens
<1>2. PICK s, n, m, f, t : s = Tokens /\ n = here /\ m = node /\ f = fresh /\ t = T
  OBVIOUS
<1>3. Scan(s, n) /\ At(s, n, m, finished, gotEnd, f) /\ Built(s, n, t) /\ n = Len(s) /\ n \in Nat
  BY ONLY <1>1, <1>2, ReadInv DEF ReadInv, ReadSoFar, Scan
<1>4. n > 0 => ((gotEnd /\ m # NULL /\ finished) <=> Sane(s))
  BY ONLY <1>3, AtTheEnd
<1>5. CASE ~(gotEnd /\ node # NULL /\ finished) /\ Refuse(node)
  <2>1. here > 0 => ~Sane(Tokens)
    BY ONLY <1>2, <1>4, <1>5
  <2>2. StartFree(node) /\ pc # "free"
    BY ONLY <1>1, <1>5 DEF Refuse
  <2> QED BY ONLY <1>1, <2>1, <2>2, ReadInv, ReadFails
<1>6. CASE /\ gotEnd /\ node # NULL /\ finished
           /\ pc' = "reserved-memory" /\ here' = 0 /\ T' = T
  <2>1. n > 0
    <3>1. gotEnd => \E i \in 1..n : s[i].type = "FDT_END"
      BY ONLY <1>3 DEF At
    <3>2. \E i \in 1..n : TRUE
      BY ONLY <1>6, <3>1
    <3> QED BY ONLY <1>3, <3>2
  <2>2. Sane(s)
    BY ONLY <1>2, <1>4, <1>6, <2>1
  <2>3. Tokens' = s /\ Len(s) \in Nat /\ T' = t /\ Built(s, Len(s), t)
    BY ONLY <1>1, <1>2, <1>3, <1>6 DEF Tokens
  <2>4. pc' = "reserved-memory" /\ here' = 0 /\ ~(here' > 0)
    BY ONLY <1>6
  <2> QED BY ONLY <2>2, <2>3, <2>4 DEF ReadInv
<1> QED BY ONLY <1>5, <1>6, StructEnd DEF StructEnd, Goto

LEMMA ReservedMemoryReads == ASSUME ReadInv, ReservedMemory PROVE ReadInv'
<1>1. fate = "ok" /\ pc = "reserved-memory" /\ blob' = blob
  BY DEF ReservedMemory, Running
<1>2. here = 0 /\ Sane(Tokens) /\ Len(Tokens) \in Nat /\ Tokens' = Tokens
  BY ONLY <1>1, ReadInv DEF ReadInv, Tokens
<1>3. CASE StartFree(root)
  <2>1. ~(here > 0)
    BY ONLY <1>2
  <2> QED BY ONLY <1>1, <1>3, <2>1, ReadInv, ReadFails
<1>4. CASE here' = here /\ pc' = "free"
  <2>1. ~(here' > 0)
    BY ONLY <1>2, <1>4
  <2> QED BY ONLY <1>2, <1>4, <2>1 DEF ReadInv
<1>5. CASE here' = here /\ pc' = "reservations"
  <2>1. ~(here' > 0)
    BY ONLY <1>2, <1>5
  <2> QED BY ONLY <1>2, <1>5, <2>1 DEF ReadInv
<1> QED BY ONLY <1>3, <1>4, <1>5, ReservedMemory DEF ReservedMemory, Goto

LEMMA SameCells ==
    ASSUME NEW t, NEW u, NEW n, u.props[n] = t.props[n], Usable(t, n)
    PROVE  Usable(u, n)
<1>1. ASSUME NEW nm PROVE devicetree_prop(u, n, nm) = devicetree_prop(t, n, nm)
  BY ONLY u.props[n] = t.props[n] DEF devicetree_prop
<1>2. devicetree_address_size_cells(u, n) = devicetree_address_size_cells(t, n)
  <2>1. PICK a, b : a = "#address-cells" /\ b = "#size-cells"
    OBVIOUS
  <2>2. devicetree_prop(u, n, a) = devicetree_prop(t, n, a)
        /\ devicetree_prop(u, n, b) = devicetree_prop(t, n, b)
    BY ONLY <1>1
  <2> QED BY ONLY <2>1, <2>2 DEF devicetree_address_size_cells
<1> QED BY ONLY <1>2, Usable(t, n) DEF Usable

LEMMA AddReservationReads == ASSUME DtInv, ReadInv, AddReservation PROVE ReadInv'
<1>1. fate = "ok" /\ pc = "reservations" /\ blob' = blob
  BY DEF AddReservation, Running
<1>2. /\ Sane(Tokens) /\ Len(Tokens) \in Nat /\ Tokens' = Tokens
      /\ here > 0 => Usable(T, node)
  BY ONLY <1>1, ReadInv DEF ReadInv, Tokens
<1>3. CASE ~Usable(T, node) /\ Refuse(root)
  <2>1. StartFree(root) /\ ~(here > 0)
    BY ONLY <1>2, <1>3 DEF Refuse
  <2> QED BY ONLY <1>1, <2>1, ReadInv, ReadFails
<1>4. CASE oom' /\ StartFree(root)
  BY ONLY <1>1, <1>4, ReadInv, ReadFails
<1>5. CASE oom' /\ UNCHANGED <<pc, here, T, node, finished, gotEnd, fresh>>
  BY ONLY <1>1, <1>5, ReadInv, ReadStays
<1>6. ASSUME NEW nm, NEW reg, Usable(T, node),
             T' = AddProp(AddNode(T, fresh, node, nm), fresh, reg),
             pc' = pc, node' = node
      PROVE  ReadInv'
  <2>1. node \in DOMAIN T.parent /\ TreeInv(T)
    BY ONLY <1>1, DtInv DEF DtInv, Placed, Nodes
  <2>2. fresh \in Nat /\ \A x \in DOMAIN T.parent : x < fresh
    BY ONLY <1>1, DtInv, FreshFacts DEF Nodes
  <2>3. PICK f, m, a, b : /\ f = fresh /\ m = node /\ a = AddNode(T, f, m, nm)
                          /\ b = AddProp(a, f, reg)
    OBVIOUS
  <2>4. /\ TreeInv(a) /\ DOMAIN a.parent = DOMAIN T.parent \cup {f}
        /\ \A x \in DOMAIN T.parent : a.props[x] = T.props[x]
    <3>1. m \in DOMAIN T.parent \/ (m = NULL /\ DOMAIN T.parent = {})
      BY ONLY <2>1, <2>3
    <3>2. f \in Nat /\ \A x \in DOMAIN T.parent : x < f
      BY ONLY <2>2, <2>3
    <3> QED BY ONLY <2>1, <2>3, <3>1, <3>2, AddNodeLemma
  <2>5. f \in DOMAIN a.parent
    BY ONLY <2>4
  <2>6. \A x \in DOMAIN a.parent : x # f => b.props[x] = a.props[x]
    BY ONLY <2>3, <2>4, <2>5, AddPropLemma
  <2>7. m \in Nat /\ f \in Nat /\ m < f
    BY ONLY <1>1, <2>1, <2>2, <2>3, DtInv, FreshFacts DEF Nodes
  <2>8. m # f
    BY ONLY <2>7
  <2>9. m \in DOMAIN T.parent
    BY ONLY <2>1, <2>3
  <2>10. b.props[m] = T.props[m]
    BY ONLY <2>4, <2>6, <2>8, <2>9
  <2>11. Usable(b, m)
    BY ONLY <1>6, <2>3, <2>10, SameCells
  <2>12. T' = b /\ node' = m
    BY ONLY <1>6, <2>3
  <2> QED BY ONLY <1>1, <1>2, <1>6, <2>11, <2>12 DEF ReadInv
<1>7. \/ ~Usable(T, node) /\ Refuse(root)
      \/ oom' /\ StartFree(root)
      \/ oom' /\ UNCHANGED <<pc, here, T, node, finished, gotEnd, fresh>>
      \/ \E nm, reg : /\ Usable(T, node)
                      /\ T' = AddProp(AddNode(T, fresh, node, nm), fresh, reg)
                      /\ pc' = pc /\ node' = node
  <2> DEFINE cells == devicetree_address_size_cells(T, node)
             value == CellsOf(Reservation.address, cells[1]) \o CellsOf(Reservation.size, cells[2])
             reg == [id |-> fresh + 1, name |-> "reg", value |-> value]
             name == BlockName(NextNumber)
             valid == cells[1] \in 1..2 /\ cells[2] \in 1..2
  <2>1. \/ cells = NULL /\ Refuse(root)
        \/ oom' /\ StartFree(root)
        \/ oom' /\ UNCHANGED <<pc, here, T, node, finished, gotEnd, fresh>>
        \/ ~valid /\ Refuse(root)
        \/ /\ cells # NULL /\ valid
           /\ T' = AddProp(AddNode(T, fresh, node, name), fresh, reg)
           /\ pc' = pc /\ node' = node
    BY ONLY AddReservation DEF AddReservation, OutOfMemory
  <2>2. Usable(T, node) <=> cells # NULL /\ valid
    BY DEF Usable
  <2> HIDE DEF reg, name, cells, valid
  <2> QED BY ONLY <2>1, <2>2
<1> QED BY ONLY <1>3, <1>4, <1>5, <1>6, <1>7

(* In these steps there is nothing more to be claimed than before. *)
LEMMA ReadsNothing ==
    ASSUME ReadInv, blob' = blob, pc' \notin {"header", "struct", "reserved-memory", "reservations"},
           pc' = "parsed" => pc = "reservations",
           pc' = "free" => pc = "free" /\ here' = here /\ oom' = oom
    PROVE  ReadInv'
<1>1. Tokens' = Tokens
  BY ONLY blob' = blob DEF Tokens
<1> QED BY ONLY <1>1, ReadInv, pc' = "parsed" => pc = "reservations",
               pc' \notin {"header", "struct", "reserved-memory", "reservations"},
               pc' = "free" => pc = "free" /\ here' = here /\ oom' = oom DEF ReadInv

LEMMA ParseReads == ASSUME DtInv, ReadInv, Parse PROVE ReadInv'
<1>1. CASE ParseEnd
  <2>1. blob' = blob /\ pc = "reservations" /\ pc' = "parsed"
    BY ONLY <1>1 DEF ParseEnd, Running, Goto
  <2> QED BY ONLY <2>1, ReadInv, ReadsNothing
<1>2. CASE FreeNode
  <2>1. blob' = blob /\ pc = "free" /\ pc' = pc /\ here' = here /\ oom' = oom
    BY ONLY <1>2 DEF FreeNode, Running
  <2> QED BY ONLY <2>1, ReadInv, ReadsNothing
<1>3. CASE FreeEnd
  <2>1. blob' = blob /\ pc' = "failed"
    BY ONLY <1>3 DEF FreeEnd, Goto
  <2> QED BY ONLY <2>1, ReadInv, ReadsNothing
<1> QED BY ONLY <1>1, <1>2, <1>3, DtInv, ReadInv, Parse, ParseHeaderReads, BeginNodeReads,
               EndNodeReads, PropReads, NopReads, EndReads, UnknownTokenReads, StructEndReads,
               ReservedMemoryReads, AddReservationReads DEF Parse

LEMMA BootReads == ASSUME DtInv, ReadInv, Boot PROVE ReadInv'
<1>1. CASE Parse
  BY ONLY <1>1, DtInv, ReadInv, ParseReads
<1>2. CASE devicetree_add_entropy
  <2>1. blob' = blob /\ pc' = "initializers"
    BY ONLY <1>2 DEF devicetree_add_entropy, Goto
  <2> QED BY ONLY <2>1, ReadInv, ReadsNothing
<1>3. CASE Calm
  <2>1. blob' = blob /\ pc' \in {"initializers", "enumerate", "print", "done"}
    BY ONLY <1>3 DEF Calm, MainPcs
  <2> QED BY ONLY <2>1, ReadInv, ReadsNothing
<1> QED BY ONLY <1>1, <1>2, <1>3, Boot, StartInitializersCalm, RunInitializerCalm,
               StartEnumerateCalm, DescendCalm, LeaveCalm, CallHandlerCalm, MoveCalm,
               EnumerateEndCalm, PrintDeviceCalm DEF Boot

LEMMA ReadStutter == ASSUME ReadInv, UNCHANGED vars PROVE ReadInv'
<1>1. UNCHANGED <<blob, pc, here, T, node, finished, gotEnd, fresh, oom, fate>>
  BY DEF vars, dtvars
<1>2. (~oom' /\ here > 0 /\ (pc = "free" \/ (pc = "struct" /\ fate' = "panic")))
         => ~Sane(Tokens)
  BY ONLY <1>1, ReadInv DEF ReadInv
<1> QED BY ONLY <1>1, <1>2, ReadInv, ReadStays

LEMMA ReadAlways == Spec => [](DtInv /\ ReadInv)
<1>1. Init => DtInv /\ ReadInv
  BY DtStart, ReadStart DEF Init
<1>2. DtInv /\ ReadInv /\ [Next]_vars => DtInv' /\ ReadInv'
  <2> SUFFICES ASSUME DtInv, ReadInv, [Next]_vars PROVE DtInv' /\ ReadInv'
    OBVIOUS
  <2>1. Boot \/ UNCHANGED vars
    BY DEF Next, Halt
  <2> QED BY ONLY <2>1, DtInv, ReadInv, BootStep, DtStutter, BootReads, ReadStutter
<1> QED BY <1>1, <1>2, PTL DEF Spec

-----------------------------------------------------------------------------
(* What has been shown of the tokens, in the words of Devicetree. *)

LEMMA CountSame == ASSUME NEW type, NEW j PROVE Count(type, 1, j) = CountIn(Tokens, type, j)
BY DEF Count, CountIn

LEMMA DepthSame == ASSUME NEW i PROVE Depth(i) = DepthIn(Tokens, i)
<1>1. PICK x, y, j : x = "FDT_BEGIN_NODE" /\ y = "FDT_END_NODE" /\ j = i - 1
  OBVIOUS
<1>2. Count(x, 1, j) = CountIn(Tokens, x, j) /\ Count(y, 1, j) = CountIn(Tokens, y, j)
  BY ONLY CountSame
<1> QED BY ONLY <1>1, <1>2 DEF Depth, DepthIn

LEMMA ObjectSame == ASSUME NEW i PROVE ObjectOf(i) = ObjectIn(Tokens, i)
<1>1. PICK x, y : x = "FDT_BEGIN_NODE" /\ y = "FDT_PROP"
  OBVIOUS
<1>2. Count(x, 1, i) = CountIn(Tokens, x, i) /\ Count(y, 1, i) = CountIn(Tokens, y, i)
  BY ONLY CountSame
<1> QED BY ONLY <1>1, <1>2 DEF ObjectOf, ObjectIn

LEMMA EncloserSame == ASSUME NEW i PROVE Encloser(i) = EncloserIn(Tokens, i)
<1>1. PICK S : S = {j \in 1..(i - 1) : /\ Tokens[j].type = "FDT_BEGIN_NODE"
                                       /\ \A k \in (j + 1)..i : Depth(k) > Depth(j)}
  OBVIOUS
<1>2. \A k : Depth(k) = DepthIn(Tokens, k)
  BY ONLY DepthSame
<1>3. \A j : j \in S <=> j \in OpenIn(Tokens, i)
  BY ONLY <1>1, <1>2, OpenFacts
<1>4. S = OpenIn(Tokens, i)
  BY ONLY <1>3
<1>5. Encloser(i) = IF S = {} THEN 0 ELSE CHOOSE j \in S : \A k \in S : k <= j
  BY ONLY <1>1 DEF Encloser
<1> QED BY ONLY <1>4, <1>5 DEF EncloserIn, Greatest

LEMMA WellFormedSame == WellFormed <=> Sane(Tokens)
<1>1. \A i : Depth(i) = DepthIn(Tokens, i)
  BY ONLY DepthSame
<1>2. \A i : Count("FDT_BEGIN_NODE", 1, i - 1) = CountIn(Tokens, "FDT_BEGIN_NODE", i - 1)
  <2>1. PICK x : x = "FDT_BEGIN_NODE"
    OBVIOUS
  <2>2. \A i : Count(x, 1, i - 1) = CountIn(Tokens, x, i - 1)
    BY ONLY CountSame
  <2> QED BY ONLY <2>1, <2>2
<1> QED BY ONLY <1>1, <1>2 DEF WellFormed, Sane

(* devicetree_parse_structure_block, which remembers no more than a node   *)
(* and two flags, accepts a structure block only if it is well-formed, and *)
(* refuses a well-formed one only for want of memory.                      *)
THEOREM AcceptsWellFormedTheorem == Spec => []AcceptsWellFormed
<1>1. ReadInv => AcceptsWellFormed
  BY ONLY WellFormedSame DEF ReadInv, AcceptsWellFormed
<1> QED BY <1>1, ReadAlways, PTL

LEMMA IdsAscendSame ==
    ASSUME NEW l, IsSeqn(l), IdsAscend(l)
    PROVE  Ascending([i \in DOMAIN l |-> l[i].id])
<1>1. PICK k : k = [i \in DOMAIN l |-> l[i].id]
  OBVIOUS
<1>2. DOMAIN l = 1..Len(l) /\ Len(l) \in Nat
  BY ONLY IsSeqn(l), SeqnFacts
<1>3. IsSeqn(k) /\ Len(k) = Len(l) /\ \A i \in 1..Len(l) : k[i] = l[i].id
  <2>1. DOMAIN k = 1..Len(l) /\ k = [i \in 1..Len(l) |-> k[i]]
    BY ONLY <1>1, <1>2
  <2>2. IsSeqn(k) /\ Len(k) = Len(l)
    BY ONLY <1>1, <1>2, <2>1, FunctionIsSeqn
  <2> QED BY ONLY <1>1, <1>2, <2>2
<1>4. \A i \in 1..(Len(l) - 1) : i \in 1..Len(l) /\ i + 1 \in 1..Len(l)
  BY ONLY <1>2
<1>5. Ascending(k)
  BY ONLY <1>3, <1>4, IdsAscend(l) DEF Ascending, IdsAscend
<1> QED BY ONLY <1>1, <1>5

LEMMA TreeIsRead ==
    ASSUME DtInv, ReadInv
    PROVE  TreeIsWhatWasRead
<1>1. LinksAgree
  BY LinksHold
<1>2. ASSUME pc \in {"struct", "reserved-memory"}
      PROVE  Built(Tokens, IF pc = "struct" THEN here ELSE Len(Tokens), T)
  BY ONLY <1>2, ReadInv DEF ReadInv, ReadSoFar
<1>3. PICK read : read = IF pc = "struct" THEN here ELSE Len(Tokens)
  OBVIOUS
<1>4. ASSUME pc \in {"struct", "reserved-memory"}, NEW n \in Nodes
      PROVE  /\ Ascending(T.children[n])
             /\ Ascending([i \in DOMAIN T.props[n] |-> T.props[n][i].id])
  <2>1. InOrder(T, n)
    BY ONLY <1>2, <1>4 DEF Built, Nodes
  <2>2. PICK l : l = T.props[n]
    OBVIOUS
  <2>3. IsSeqn(l) /\ IdsAscend(l) /\ Ascending(T.children[n])
    BY ONLY <2>1, <2>2 DEF InOrder
  <2>4. Ascending([i \in DOMAIN l |-> l[i].id])
    BY ONLY <2>3, IdsAscendSame
  <2> QED BY ONLY <2>2, <2>3, <2>4
<1>5. ASSUME pc \in {"struct", "reserved-memory"}, NEW i \in 1..read
      PROVE  /\ Tokens[i].type = "FDT_BEGIN_NODE" =>
                   /\ T.name[ObjectOf(i)] = Tokens[i].name
                   /\ T.parent[ObjectOf(i)] = IF Encloser(i) = 0 THEN NULL
                                              ELSE ObjectOf(Encloser(i))
             /\ Tokens[i].type = "FDT_PROP" =>
                   [id |-> ObjectOf(i), name |-> Tokens[i].name, value |-> Tokens[i].value]
                      \in Range(T.props[ObjectOf(Encloser(i))])
  <2>1. PICK s, n, d : s = Tokens /\ n = ObjectIn(s, i) /\ d = EncloserIn(s, i)
    OBVIOUS
  <2>2. ObjectOf(i) = n /\ Encloser(i) = d /\ ObjectOf(d) = ObjectIn(s, d)
    BY ONLY <2>1, ObjectSame, EncloserSame
  <2>3. Built(s, read, T)
    BY ONLY <1>2, <1>3, <1>5, <2>1
  <2>4. /\ s[i].type = "FDT_BEGIN_NODE" => NodeMade(s, i, T)
        /\ s[i].type = "FDT_PROP" => PropMade(s, i, T)
        /\ \A m \in DOMAIN T.parent : IsSeqn(T.props[m])
    BY ONLY <2>3, i \in 1..read DEF Built, InOrder
  <2>5. s[i].type = "FDT_BEGIN_NODE" =>
           /\ T.name[n] = s[i].name
           /\ T.parent[n] = IF d = 0 THEN NULL ELSE ObjectIn(s, d)
    BY ONLY <2>1, <2>4 DEF NodeMade, Above
  <2>6. s[i].type = "FDT_PROP" =>
           [id |-> n, name |-> s[i].name, value |-> s[i].value] \in Range(T.props[ObjectIn(s, d)])
    <3>1. PICK x, k : /\ x = [id |-> n, name |-> s[i].name, value |-> s[i].value]
                      /\ k = ObjectIn(s, d)
      OBVIOUS
    <3>2. s[i].type = "FDT_PROP" => k \in DOMAIN T.parent /\ In(x, T.props[k])
      BY ONLY <2>1, <2>4, <3>1 DEF PropMade
    <3>3. s[i].type = "FDT_PROP" => x \in Range(T.props[k])
      BY ONLY <2>4, <3>2, InRange
    <3> QED BY ONLY <3>1, <3>3
  <2> QED BY ONLY <2>1, <2>2, <2>5, <2>6
<1> QED BY ONLY <1>1, <1>3, <1>4, <1>5 DEF TreeIsWhatWasRead

(* The tree has the nodes and properties that the tokens describe, each    *)
(* below the node whose tokens enclose it, in the order of the tokens.     *)
THEOREM TreeIsWhatWasReadTheorem == Spec => []TreeIsWhatWasRead
<1>1. DtInv /\ ReadInv => TreeIsWhatWasRead
  BY TreeIsRead
<1> QED BY <1>1, ReadAlways, PTL

-----------------------------------------------------------------------------
(* The initializers are sorted, whatever their layout. *)

(* k is the first index of the least element of p, among i to m. *)
LeastFirst(p, i, m, k) ==
    /\ k \in i..m
    /\ \A j \in i..m : p[k] <= p[j]
    /\ \A j \in i..(k - 1) : p[k] < p[j]

LEMMA HasLeast ==
    ASSUME NEW p, NEW i, NEW m, i \in Nat, m \in Nat, i <= m, \A j \in i..m : p[j] \in Int
    PROVE  \E k : LeastFirst(p, i, m, k)
<1> DEFINE S == {n \in Nat : i + n <= m => \E k : LeastFirst(p, i, i + n, k)}
<1>1. 0 \in S
  <2>1. \A j \in i..(i + 0) : j = i
    BY ONLY i \in Nat
  <2>2. i \in i..(i + 0) /\ p[i] \in Int /\ \A j \in i..(i - 1) : FALSE
    BY ONLY i \in Nat, m \in Nat, i <= m, \A j \in i..m : p[j] \in Int
  <2>3. p[i] <= p[i]
    BY ONLY <2>2
  <2>4. LeastFirst(p, i, i + 0, i)
    BY ONLY <2>1, <2>2, <2>3 DEF LeastFirst
  <2> QED BY <2>4
<1>2. ASSUME NEW n \in Nat, n \in S PROVE n + 1 \in S
  <2> SUFFICES ASSUME i + (n + 1) <= m PROVE \E k : LeastFirst(p, i, i + (n + 1), k)
    OBVIOUS
  <2>1. i + n <= m /\ n + 1 \in Nat
    BY ONLY i + (n + 1) <= m, n \in Nat, i \in Nat, m \in Nat
  <2>2. PICK k : LeastFirst(p, i, i + n, k)
    BY <1>2, <2>1
  <2>3. PICK a, b : a = i + n /\ b = a + 1 /\ b = i + (n + 1) /\ a \in Nat /\ b <= m /\ i <= a
    BY ONLY <2>1, i + (n + 1) <= m, n \in Nat, i \in Nat, m \in Nat
  <2>4. k \in i..a /\ (\A j \in i..a : p[k] <= p[j]) /\ \A j \in i..(k - 1) : p[k] < p[j]
    BY ONLY <2>2, <2>3 DEF LeastFirst
  <2>5. \A j \in i..b : j \in i..a \/ j = b
    BY ONLY <2>3, i \in Nat
  <2>6. b \in i..b /\ k \in i..b /\ \A j \in i..b : p[j] \in Int
    BY ONLY <2>3, <2>4, i \in Nat, m \in Nat, \A j \in i..m : p[j] \in Int
  <2>7. CASE p[k] <= p[b]
    <3>1. LeastFirst(p, i, b, k)
      BY ONLY <2>4, <2>5, <2>6, <2>7 DEF LeastFirst
    <3> QED BY ONLY <2>3, <3>1
  <2>8. CASE p[b] < p[k]
    <3>1. \A j \in i..a : p[b] < p[j]
      <4>1. \A j \in i..a : j \in i..b
        BY ONLY <2>3, i \in Nat
      <4> QED BY ONLY <2>4, <2>6, <2>8, <4>1
    <3>2. \A j \in i..b : p[b] <= p[j]
      BY ONLY <2>5, <2>6, <3>1
    <3>3. b - 1 = a
      BY ONLY <2>3
    <3>4. LeastFirst(p, i, b, b)
      BY ONLY <2>6, <3>1, <3>2, <3>3 DEF LeastFirst
    <3> QED BY ONLY <2>3, <3>4
  <2> QED BY ONLY <2>6, <2>7, <2>8
<1>3. \A n \in Nat : n \in S
  <2> HIDE DEF S
  <2> QED BY ONLY <1>1, <1>2, SetInduction
<1>4. m - i \in Nat /\ i + (m - i) = m
  BY ONLY i \in Nat, m \in Nat, i <= m
<1> QED BY ONLY <1>3, <1>4, m \in Nat

(* A layout of the initializers, and what is made of it. *)
Times(s, x) == Cardinality({i \in DOMAIN s : s[i] = x})

Prioritized(s) == IsSeqn(s) /\ \A i \in 1..Len(s) : s[i].priority \in Int

LEMMA BagSame ==
    ASSUME NEW s, NEW t, Range(s) = Range(t), \A x : Times(s, x) = Times(t, x)
    PROVE  ToBag(s) = ToBag(t)
<1>1. ToBag(s) = [x \in Range(s) |-> Times(s, x)] /\ ToBag(t) = [x \in Range(t) |-> Times(t, x)]
  BY DEF ToBag, Times
<1> QED BY ONLY <1>1, Range(s) = Range(t), \A x : Times(s, x) = Times(t, x)

Exchanged(s, t, i, k) == t = [s EXCEPT ![i] = s[k], ![k] = s[i]]

(* Two elements are exchanged. *)
Exchange(s, t, i, k) ==
    /\ IsSeqn(t) /\ Len(t) = Len(s)
    /\ t[i] = s[k] /\ t[k] = s[i] /\ \A j \in 1..Len(s) : (j # i /\ j # k) => t[j] = s[j]

LEMMA ExchangeFacts ==
    ASSUME NEW s, NEW t, NEW i, NEW k, IsSeqn(s), i \in 1..Len(s), k \in 1..Len(s),
           Exchanged(s, t, i, k)
    PROVE  Exchange(s, t, i, k)
<1>1. Len(s) \in Nat /\ DOMAIN s = 1..Len(s)
  BY ONLY IsSeqn(s), SeqnFacts
<1>2. PICK S : s \in Seq(S)
  BY ONLY IsSeqn(s) DEF IsSeqn
<1>3. DOMAIN t = 1..Len(s) /\ t \in Seq(S) /\ Len(t) = Len(s)
  BY ONLY <1>1, <1>2, i \in 1..Len(s), k \in 1..Len(s), Exchanged(s, t, i, k) DEF Exchanged
<1>4. IsSeqn(t) /\ Len(t) = Len(s)
  BY ONLY <1>3 DEF IsSeqn
<1>5. t[i] = s[k] /\ t[k] = s[i] /\ \A j \in 1..Len(s) : (j # i /\ j # k) => t[j] = s[j]
  BY ONLY <1>1, i \in 1..Len(s), k \in 1..Len(s), Exchanged(s, t, i, k) DEF Exchanged
<1> QED BY ONLY <1>4, <1>5 DEF Exchange

LEMMA ExchangeTimes ==
    ASSUME NEW s, NEW t, NEW i, NEW k, IsSeqn(s), i \in 1..Len(s), k \in 1..Len(s),
           Exchange(s, t, i, k), NEW x
    PROVE  Times(t, x) = Times(s, x)
<1>1. Len(s) \in Nat /\ DOMAIN s = 1..Len(s) /\ DOMAIN t = 1..Len(s)
  BY ONLY IsSeqn(s), Exchange(s, t, i, k), SeqnFacts DEF Exchange
<1>2. PICK n : n = Len(s) /\ n \in Nat
  BY ONLY <1>1
<1>3. PICK A, B : A = {j \in 1..n : s[j] = x} /\ B = {j \in 1..n : t[j] = x}
  OBVIOUS
<1>4. Times(s, x) = Cardinality(A) /\ Times(t, x) = Cardinality(B)
  BY ONLY <1>1, <1>2, <1>3 DEF Times
<1>5. IsFiniteSet(A)
  <2>1. IsFiniteSet(1..n)
    BY ONLY <1>2, FS_Interval
  <2>2. A \subseteq 1..n
    BY ONLY <1>3
  <2> QED BY ONLY <2>1, <2>2, FS_Subset
<1>6. PICK f : f = [j \in A |-> IF j = i THEN k ELSE IF j = k THEN i ELSE j]
  OBVIOUS
<1>7. /\ t[i] = s[k] /\ t[k] = s[i] /\ i \in 1..n /\ k \in 1..n
      /\ \A j \in 1..n : (j # i /\ j # k) => t[j] = s[j]
  BY ONLY <1>2, Exchange(s, t, i, k), i \in 1..Len(s), k \in 1..Len(s) DEF Exchange
<1>8. f \in [A -> B]
  <2>1. ASSUME NEW j \in A PROVE f[j] \in B
    BY ONLY <1>3, <1>6, <1>7, <2>1
  <2> QED BY ONLY <1>6, <2>1
<1>9. \A a, b \in A : f[a] = f[b] => a = b
  BY ONLY <1>6
<1>10. \A b \in B : \E a \in A : f[a] = b
  <2>1. ASSUME NEW b \in B PROVE \E a \in A : f[a] = b
    <3>1. CASE b = i
      <4>1. k \in A
        BY ONLY <1>3, <1>7, <2>1, <3>1
      <4>2. f[k] = i
        BY ONLY <1>6, <4>1
      <4> QED BY ONLY <3>1, <4>1, <4>2
    <3>2. CASE b = k
      <4>1. i \in A
        BY ONLY <1>3, <1>7, <2>1, <3>2
      <4>2. f[i] = k
        BY ONLY <1>6, <4>1
      <4> QED BY ONLY <3>2, <4>1, <4>2
    <3>3. CASE b # i /\ b # k
      <4>1. b \in A
        BY ONLY <1>3, <1>7, <2>1, <3>3
      <4>2. f[b] = b
        BY ONLY <1>6, <3>3, <4>1
      <4> QED BY ONLY <4>1, <4>2
    <3> QED BY ONLY <3>1, <3>2, <3>3
  <2> QED BY ONLY <2>1
<1>11. ExistsBijection(A, B)
  <2>1. f \in Injection(A, B)
    BY ONLY <1>8, <1>9 DEF Injection, IsInjective
  <2>2. f \in Surjection(A, B)
    BY ONLY <1>8, <1>10 DEF Surjection
  <2> QED BY ONLY <2>1, <2>2 DEF ExistsBijection, Bijection
<1>12. Cardinality(B) = Cardinality(A)
  BY ONLY <1>5, <1>11, FS_Bijection
<1> QED BY ONLY <1>4, <1>12

LEMMA ExchangeBag ==
    ASSUME NEW s, NEW t, NEW i, NEW k, IsSeqn(s), i \in 1..Len(s), k \in 1..Len(s),
           Exchange(s, t, i, k)
    PROVE  ToBag(t) = ToBag(s)
<1>1. \A x : Times(t, x) = Times(s, x)
  BY ONLY IsSeqn(s), i \in 1..Len(s), k \in 1..Len(s), Exchange(s, t, i, k), ExchangeTimes
<1>2. IsSeqn(t) /\ Len(t) = Len(s) /\ t[i] = s[k] /\ t[k] = s[i]
      /\ \A j \in 1..Len(s) : (j # i /\ j # k) => t[j] = s[j]
  BY ONLY Exchange(s, t, i, k) DEF Exchange
<1>3. \A x : In(x, t) <=> In(x, s)
  <2>1. ASSUME NEW x, In(x, t) PROVE In(x, s)
    BY ONLY <1>2, <2>1, i \in 1..Len(s), k \in 1..Len(s) DEF In
  <2>2. ASSUME NEW x, In(x, s) PROVE In(x, t)
    BY ONLY <1>2, <2>2, i \in 1..Len(s), k \in 1..Len(s) DEF In
  <2> QED BY ONLY <2>1, <2>2
<1>4. \A x : x \in Range(t) <=> x \in Range(s)
  BY ONLY <1>2, <1>3, IsSeqn(s), InRange
<1>5. Range(t) = Range(s)
  BY ONLY <1>4
<1> QED BY ONLY <1>1, <1>5, BagSame

Swapped(t, i) == [t EXCEPT ![i] = t[MinIndex(t, i)], ![MinIndex(t, i)] = t[i]]

(* The first i elements are in their final places. *)
Ordered(t, i) == \A a \in 1..i : \A b \in a..Len(t) : t[a].priority <= t[b].priority

LEMMA MinIndexFacts ==
    ASSUME NEW t, NEW i, Prioritized(t), i \in 1..Len(t)
    PROVE  /\ MinIndex(t, i) \in i..Len(t)
           /\ \A j \in i..Len(t) : t[MinIndex(t, i)].priority <= t[j].priority
<1>1. Len(t) \in Nat /\ \A j \in 1..Len(t) : t[j].priority \in Int
  BY ONLY Prioritized(t), SeqnFacts DEF Prioritized
<1>2. PICK p, m : m = Len(t) /\ p = [j \in 1..m |-> t[j].priority]
  OBVIOUS
<1>3. i \in Nat /\ m \in Nat /\ i <= m /\ \A j \in i..m : j \in 1..m /\ p[j] \in Int
  BY ONLY <1>1, <1>2, i \in 1..Len(t)
<1>4. \E k : LeastFirst(p, i, m, k)
  BY ONLY <1>3, HasLeast
<1>5. \A j \in i..m : p[j] = t[j].priority
  BY ONLY <1>2, <1>3
<1>6. \E k \in i..m : /\ \A j \in i..m : t[k].priority <= t[j].priority
                      /\ \A j \in i..(k - 1) : t[k].priority < t[j].priority
  <2>1. PICK k : LeastFirst(p, i, m, k)
    BY ONLY <1>4
  <2>2. /\ k \in i..m /\ \A j \in i..m : p[k] <= p[j]
        /\ \A j \in i..(k - 1) : p[k] < p[j]
    BY ONLY <2>1 DEF LeastFirst
  <2>3. \A j \in i..(k - 1) : j \in i..m
    BY ONLY <1>3, <2>2
  <2> QED BY ONLY <1>5, <2>2, <2>3
<1> QED BY ONLY <1>2, <1>6 DEF MinIndex

LEMMA SwappedFacts ==
    ASSUME NEW t, NEW i, NEW u, Prioritized(t), i \in 1..Len(t), Ordered(t, i - 1), u = Swapped(t, i)
    PROVE  Prioritized(u) /\ Len(u) = Len(t) /\ Ordered(u, i) /\ ToBag(u) = ToBag(t)
<1>1. PICK n, k : n = Len(t) /\ k = MinIndex(t, i)
  OBVIOUS
<1>2. n \in Nat /\ i \in 1..n /\ \A j \in 1..n : t[j].priority \in Int
  BY ONLY <1>1, Prioritized(t), i \in 1..Len(t), SeqnFacts DEF Prioritized
<1>3. k \in i..n /\ \A j \in i..n : t[k].priority <= t[j].priority
  BY ONLY <1>1, Prioritized(t), i \in 1..Len(t), MinIndexFacts
<1>4. k \in 1..n /\ i \in Nat /\ i - 1 \in Nat
  BY ONLY <1>2, <1>3
<1>5. IsSeqn(t) /\ Exchanged(t, u, i, k)
  BY ONLY <1>1, Prioritized(t), u = Swapped(t, i) DEF Prioritized, Swapped, Exchanged
<1>6. Exchange(t, u, i, k)
  BY ONLY <1>1, <1>2, <1>4, <1>5, ExchangeFacts
<1>7. ToBag(u) = ToBag(t)
  BY ONLY <1>1, <1>2, <1>4, <1>5, <1>6, ExchangeBag
<1>8. /\ IsSeqn(u) /\ Len(u) = n /\ u[i] = t[k] /\ u[k] = t[i]
      /\ \A j \in 1..n : (j # i /\ j # k) => u[j] = t[j]
  BY ONLY <1>1, <1>6 DEF Exchange
<1>9. ASSUME NEW b \in 1..n
      PROVE  \E c \in 1..n : u[b] = t[c] /\ (b >= i => c >= i) /\ (b < i => c = b)
  BY ONLY <1>2, <1>3, <1>4, <1>8, <1>9
<1>10. \A a \in 1..(i - 1) : \A b \in a..n : t[a].priority <= t[b].priority
  BY ONLY <1>1, Ordered(t, i - 1) DEF Ordered
<1>11. ASSUME NEW a \in 1..i, NEW b \in a..n PROVE u[a].priority <= u[b].priority
  <2>1. a \in 1..n /\ b \in 1..n /\ a <= b
    BY ONLY <1>2, <1>11
  <2>2. PICK c : c \in 1..n /\ u[b] = t[c] /\ (b >= i => c >= i) /\ (b < i => c = b)
    BY ONLY <1>9, <2>1
  <2>3. CASE a = i
    <3>1. c \in i..n
      BY ONLY <1>4, <2>1, <2>2, <2>3
    <3> QED BY ONLY <1>3, <1>8, <2>2, <2>3, <3>1
  <2>4. CASE a # i
    <3>1. a \in 1..(i - 1) /\ a # k /\ c \in a..n
      BY ONLY <1>3, <1>4, <1>11, <2>1, <2>2, <2>4
    <3>2. u[a] = t[a]
      BY ONLY <1>8, <2>1, <2>4, <3>1
    <3> QED BY ONLY <1>10, <2>2, <3>1, <3>2
  <2> QED BY ONLY <2>3, <2>4
<1>12. Ordered(u, i)
  BY ONLY <1>8, <1>11 DEF Ordered
<1>13. \A b \in 1..n : u[b].priority \in Int
  BY ONLY <1>2, <1>9
<1>14. Prioritized(u)
  BY ONLY <1>8, <1>13 DEF Prioritized
<1> QED BY ONLY <1>1, <1>7, <1>8, <1>12, <1>14

(* The loop of sort_initializers. *)
SortRun(g, s, n) == g = [i \in 0..n |-> IF i = 0 THEN s ELSE Swapped(g[i - 1], i)]

LEMMA SortRuns ==
    ASSUME NEW s, NEW m, m \in Nat
    PROVE  \E g : SortRun(g, s, m)
<1> DEFINE S == {n \in Nat : \E g : SortRun(g, s, n)}
<1>1. 0 \in S
  <2>1. PICK g : g = [i \in 0..0 |-> s]
    OBVIOUS
  <2>2. g = [i \in 0..0 |-> IF i = 0 THEN s ELSE Swapped(g[i - 1], i)]
    <3>1. \A i \in 0..0 : i = 0
      OBVIOUS
    <3> QED BY ONLY <2>1, <3>1
  <2> QED BY <2>2 DEF SortRun
<1>2. ASSUME NEW n \in Nat, n \in S PROVE n + 1 \in S
  <2>1. PICK g : SortRun(g, s, n)
    BY <1>2
  <2>2. PICK k : k = n + 1 /\ k \in Nat /\ k # 0 /\ k - 1 = n /\ n \in 0..n /\ k \notin 0..n
    BY ONLY n \in Nat
  <2>3. \A i \in 0..k : i = k \/ (i \in 0..n /\ (i # 0 => i - 1 \in 0..n))
    BY ONLY <2>2, n \in Nat
  <2>4. PICK x : x = Swapped(g[n], k)
    OBVIOUS
  <2>5. PICK h : h = [i \in 0..k |-> IF i = k THEN x ELSE g[i]]
    OBVIOUS
  <2>6. \A i \in 0..n : h[i] = g[i] /\ i \in 0..k
    BY ONLY <2>2, <2>5, n \in Nat
  <2>7. ASSUME NEW i \in 0..k PROVE h[i] = IF i = 0 THEN s ELSE Swapped(h[i - 1], i)
    <3>1. CASE i = k
      <4>1. h[k] = x /\ h[k - 1] = g[n]
        BY ONLY <2>2, <2>5, <2>6, <2>7, <3>1
      <4> QED BY ONLY <2>2, <2>4, <3>1, <4>1
    <3>2. CASE i # k
      <4>1. i \in 0..n /\ (i # 0 => i - 1 \in 0..n)
        BY ONLY <2>3, <2>7, <3>2
      <4>2. g[i] = IF i = 0 THEN s ELSE Swapped(g[i - 1], i)
        BY ONLY <2>1, <4>1 DEF SortRun
      <4>3. h[i] = g[i] /\ (i # 0 => h[i - 1] = g[i - 1])
        BY ONLY <2>6, <4>1
      <4> QED BY ONLY <4>2, <4>3
    <3> QED BY ONLY <3>1, <3>2
  <2>8. DOMAIN h = 0..k /\ h = [i \in 0..k |-> h[i]]
    BY ONLY <2>5
  <2>9. SortRun(h, s, k)
    BY ONLY <2>7, <2>8 DEF SortRun
  <2> QED BY <2>2, <2>9
<1>3. \A n \in Nat : n \in S
  <2> HIDE DEF S
  <2> QED BY ONLY <1>1, <1>2, SetInduction
<1> QED BY <1>3

LEMMA SortFacts ==
    ASSUME NEW s, NEW u, Prioritized(s), u = sort_initializers(s)
    PROVE  /\ Prioritized(u) /\ ToBag(u) = ToBag(s)
           /\ \A i \in 1..(Len(u) - 1) : u[i].priority <= u[i + 1].priority
<1>1. PICK n : n = Len(s) /\ n \in Nat
  BY ONLY Prioritized(s), SeqnFacts DEF Prioritized
<1>2. PICK g : g = CHOOSE f : SortRun(f, s, n)
  OBVIOUS
<1>3. SortRun(g, s, n)
  BY ONLY <1>1, <1>2, SortRuns
<1>4. u = g[n]
  BY ONLY <1>1, <1>2, u = sort_initializers(s) DEF sort_initializers, SortRun, Swapped
<1>5. \A i \in 0..n : g[i] = IF i = 0 THEN s ELSE Swapped(g[i - 1], i)
  BY ONLY <1>3 DEF SortRun
<1> DEFINE Good(t, i) == Prioritized(t) /\ Len(t) = n /\ Ordered(t, i) /\ ToBag(t) = ToBag(s)
           S == {i \in Nat : i <= n => Good(g[i], i)}
<1>6. 0 \in S
  <2>1. g[0] = s
    BY ONLY <1>1, <1>5
  <2>2. \A a \in 1..0 : FALSE
    OBVIOUS
  <2>3. Ordered(s, 0)
    BY ONLY <2>2 DEF Ordered
  <2> QED BY ONLY <1>1, <2>1, <2>3, Prioritized(s)
<1>7. ASSUME NEW i \in Nat, i \in S PROVE i + 1 \in S
  <2> SUFFICES ASSUME i + 1 <= n PROVE Good(g[i + 1], i + 1)
    OBVIOUS
  <2>1. PICK k : k = i + 1 /\ k \in 1..n /\ k - 1 = i /\ k \in 0..n /\ i <= n /\ k # 0
    BY ONLY <1>1, i + 1 <= n, i \in Nat
  <2>2. PICK t, v : t = g[i] /\ v = g[k]
    OBVIOUS
  <2>3. v = Swapped(t, k)
    BY ONLY <1>5, <2>1, <2>2
  <2>4. Prioritized(t) /\ Len(t) = n /\ Ordered(t, i) /\ ToBag(t) = ToBag(s)
    BY ONLY <1>7, <2>1, <2>2
  <2>5. Prioritized(v) /\ Len(v) = n /\ Ordered(v, k) /\ ToBag(v) = ToBag(s)
    BY ONLY <2>1, <2>3, <2>4, SwappedFacts
  <2> QED BY ONLY <2>1, <2>2, <2>5
<1>8. \A i \in Nat : i \in S
  <2> HIDE DEF S
  <2> QED BY ONLY <1>6, <1>7, SetInduction
<1>9. n \in S /\ n <= n
  BY ONLY <1>1, <1>8
<1>10. Prioritized(u) /\ Len(u) = n /\ Ordered(u, n) /\ ToBag(u) = ToBag(s)
  BY ONLY <1>4, <1>9
<1>11. ASSUME NEW i \in 1..(Len(u) - 1) PROVE u[i].priority <= u[i + 1].priority
  <2>1. i \in 1..n /\ i + 1 \in i..Len(u)
    BY ONLY <1>1, <1>10, <1>11
  <2> QED BY ONLY <1>10, <2>1 DEF Ordered
<1> QED BY ONLY <1>10, <1>11

(* The handlers that the first k initializers of s register. *)
Took(l, func) == IF func = "root_device" THEN l ELSE Append(l, func)

TakeRun(g, s, k) == g = [i \in 0..k |-> IF i = 0 THEN <<>> ELSE Took(g[i - 1], s[i].func)]

RegisteredBy(s, k) == (CHOOSE f : TakeRun(f, s, k))[k]

LEMMA TakeRuns ==
    ASSUME NEW s, NEW m, m \in Nat
    PROVE  \E g : TakeRun(g, s, m)
<1> DEFINE S == {n \in Nat : \E g : TakeRun(g, s, n)}
<1>1. 0 \in S
  <2>1. PICK g : g = [i \in 0..0 |-> <<>>]
    OBVIOUS
  <2>2. g = [i \in 0..0 |-> IF i = 0 THEN <<>> ELSE Took(g[i - 1], s[i].func)]
    <3>1. \A i \in 0..0 : i = 0
      OBVIOUS
    <3> QED BY ONLY <2>1, <3>1
  <2> QED BY <2>2 DEF TakeRun
<1>2. ASSUME NEW n \in Nat, n \in S PROVE n + 1 \in S
  <2>1. PICK g : TakeRun(g, s, n)
    BY <1>2
  <2>2. PICK k : k = n + 1 /\ k \in Nat /\ k # 0 /\ k - 1 = n /\ n \in 0..n /\ k \notin 0..n
    BY ONLY n \in Nat
  <2>3. \A i \in 0..k : i = k \/ (i \in 0..n /\ (i # 0 => i - 1 \in 0..n))
    BY ONLY <2>2, n \in Nat
  <2>4. PICK x : x = Took(g[n], s[k].func)
    OBVIOUS
  <2>5. PICK h : h = [i \in 0..k |-> IF i = k THEN x ELSE g[i]]
    OBVIOUS
  <2>6. \A i \in 0..n : h[i] = g[i] /\ i \in 0..k
    BY ONLY <2>2, <2>5, n \in Nat
  <2>7. ASSUME NEW i \in 0..k PROVE h[i] = IF i = 0 THEN <<>> ELSE Took(h[i - 1], s[i].func)
    <3>1. CASE i = k
      <4>1. h[k] = x /\ h[k - 1] = g[n]
        BY ONLY <2>2, <2>5, <2>6, <2>7, <3>1
      <4> QED BY ONLY <2>2, <2>4, <3>1, <4>1
    <3>2. CASE i # k
      <4>1. i \in 0..n /\ (i # 0 => i - 1 \in 0..n)
        BY ONLY <2>3, <2>7, <3>2
      <4>2. g[i] = IF i = 0 THEN <<>> ELSE Took(g[i - 1], s[i].func)
        BY ONLY <2>1, <4>1 DEF TakeRun
      <4>3. h[i] = g[i] /\ (i # 0 => h[i - 1] = g[i - 1])
        BY ONLY <2>6, <4>1
      <4> QED BY ONLY <4>2, <4>3
    <3> QED BY ONLY <3>1, <3>2
  <2>8. DOMAIN h = 0..k /\ h = [i \in 0..k |-> h[i]]
    BY ONLY <2>5
  <2>9. TakeRun(h, s, k)
    BY ONLY <2>7, <2>8 DEF TakeRun
  <2> QED BY <2>2, <2>9
<1>3. \A n \in Nat : n \in S
  <2> HIDE DEF S
  <2> QED BY ONLY <1>1, <1>2, SetInduction
<1> QED BY <1>3

LEMMA TakeRunsAgree ==
    ASSUME NEW s, NEW g, NEW h, NEW k, NEW m, k \in Nat, m \in Nat, k <= m,
           TakeRun(g, s, k), TakeRun(h, s, m)
    PROVE  h[k] = g[k]
<1> DEFINE S == {i \in Nat : i <= k => h[i] = g[i]}
<1>1. /\ \A i \in 0..k : g[i] = IF i = 0 THEN <<>> ELSE Took(g[i - 1], s[i].func)
      /\ \A i \in 0..m : h[i] = IF i = 0 THEN <<>> ELSE Took(h[i - 1], s[i].func)
  BY ONLY TakeRun(g, s, k), TakeRun(h, s, m) DEF TakeRun
<1>2. 0 \in S
  BY ONLY <1>1, k \in Nat, m \in Nat
<1>3. ASSUME NEW n \in Nat, n \in S PROVE n + 1 \in S
  <2> SUFFICES ASSUME n + 1 <= k PROVE h[n + 1] = g[n + 1]
    OBVIOUS
  <2>1. PICK i : i = n + 1 /\ i \in 0..k /\ i \in 0..m /\ i # 0 /\ i - 1 = n /\ n <= k
    BY ONLY n \in Nat, k \in Nat, m \in Nat, k <= m, n + 1 <= k
  <2>2. h[n] = g[n]
    BY ONLY <1>3, <2>1
  <2>3. g[i] = Took(g[n], s[i].func) /\ h[i] = Took(h[n], s[i].func)
    BY ONLY <1>1, <2>1
  <2> QED BY ONLY <2>1, <2>2, <2>3
<1>4. \A n \in Nat : n \in S
  <2> HIDE DEF S
  <2> QED BY ONLY <1>2, <1>3, SetInduction
<1>5. k \in S /\ k <= k
  BY ONLY <1>4, k \in Nat
<1> QED BY ONLY <1>5

LEMMA RegisteredByFacts ==
    ASSUME NEW s, NEW k, k \in Nat
    PROVE  /\ RegisteredBy(s, 0) = <<>>
           /\ k > 0 => RegisteredBy(s, k) = Took(RegisteredBy(s, k - 1), s[k].func)
<1>1. ASSUME NEW n, n \in Nat
      PROVE  \E g : TakeRun(g, s, n) /\ RegisteredBy(s, n) = g[n]
  <2>1. PICK g : g = CHOOSE f : TakeRun(f, s, n)
    OBVIOUS
  <2>2. TakeRun(g, s, n)
    BY ONLY <1>1, <2>1, TakeRuns
  <2> QED BY ONLY <2>1, <2>2 DEF RegisteredBy
<1>2. RegisteredBy(s, 0) = <<>>
  <2>1. PICK g : TakeRun(g, s, 0) /\ RegisteredBy(s, 0) = g[0]
    BY ONLY <1>1
  <2>2. 0 \in 0..0
    OBVIOUS
  <2> QED BY ONLY <2>1, <2>2 DEF TakeRun
<1>3. ASSUME k > 0
      PROVE  RegisteredBy(s, k) = Took(RegisteredBy(s, k - 1), s[k].func)
  <2>1. PICK j : j = k - 1 /\ j \in Nat /\ j <= k /\ k \in 0..k /\ k # 0
    BY ONLY <1>3, k \in Nat
  <2>2. PICK g : TakeRun(g, s, k) /\ RegisteredBy(s, k) = g[k]
    BY ONLY <1>1, k \in Nat
  <2>3. PICK h : TakeRun(h, s, j) /\ RegisteredBy(s, j) = h[j]
    BY ONLY <1>1, <2>1
  <2>4. g[j] = h[j]
    BY ONLY <2>1, <2>2, <2>3, k \in Nat, TakeRunsAgree
  <2>5. g[k] = Took(g[j], s[k].func)
    BY ONLY <2>1, <2>2 DEF TakeRun
  <2> QED BY ONLY <2>1, <2>2, <2>3, <2>4, <2>5
<1> QED BY ONLY <1>2, <1>3

LEMMA RegisteredSame == ASSUME NEW k PROVE Registered(k) = RegisteredBy(inits, k)
BY DEF Registered, RegisteredBy, TakeRun, Took

-----------------------------------------------------------------------------
(* The invariant of the registration. *)

FuncsOf(l) == [i \in DOMAIN l |-> l[i].func]

(* The handlers are those of the initializers that have run.               *)
DriversInv ==
    /\ Prioritized(inits) /\ ran \in Nat
    /\ ran = 0 => inits \in Initializers /\ handlers = <<>>
    /\ ran > 0 => /\ \A i \in 1..(Len(inits) - 1) : inits[i].priority <= inits[i + 1].priority
                  /\ \E s \in Initializers : ToBag(s) = ToBag(inits)
                  /\ FuncsOf(handlers) = RegisteredBy(inits, ran - 1)
    /\ IsSeqn(handlers) /\ handlersCap \in Nat /\ Len(handlers) <= handlersCap

LEMMA DriversStart == Init => DriversInv
<1> SUFFICES ASSUME Init PROVE DriversInv
  OBVIOUS
<1>1. inits \in Initializers /\ ran = 0 /\ handlers = <<>> /\ handlersCap = 0
  BY DEF Init
<1>2. Prioritized(inits)
  <2>1. inits \in Seq([func : STRING, priority : Int])
    BY ONLY <1>1, DevicesConstants DEF DevicesConstants
  <2>2. IsSeqn(inits)
    BY ONLY <2>1 DEF IsSeqn
  <2>3. PICK S : S = [func : STRING, priority : Int]
    OBVIOUS
  <2>4. \A x \in S : x.priority \in Int
    BY ONLY <2>3
  <2>5. inits \in Seq(S)
    BY ONLY <2>1, <2>3
  <2>6. \A i \in 1..Len(inits) : inits[i] \in S
    BY ONLY <2>5
  <2> QED BY ONLY <2>2, <2>4, <2>6 DEF Prioritized
<1> QED BY ONLY <1>1, <1>2, NoElements DEF DriversInv

LEMMA DriversStay ==
    ASSUME DriversInv, UNCHANGED <<inits, ran, handlers, handlersCap>>
    PROVE  DriversInv'
BY DEF DriversInv, FuncsOf, Prioritized

LEMMA StartInitializersRegister == ASSUME DriversInv, StartInitializers PROVE DriversInv'
<1>1. /\ ran = 0 /\ inits' = sort_initializers(inits) /\ ran' = 1
      /\ handlers' = handlers /\ handlersCap' = handlersCap
  BY DEF StartInitializers
<1>2. /\ Prioritized(inits) /\ inits \in Initializers /\ handlers = <<>>
      /\ IsSeqn(handlers) /\ handlersCap \in Nat /\ Len(handlers) <= handlersCap
  BY ONLY <1>1, DriversInv DEF DriversInv
<1>3. PICK s, u : s = inits /\ u = inits'
  OBVIOUS
<1>4. /\ Prioritized(u) /\ ToBag(u) = ToBag(s)
      /\ \A i \in 1..(Len(u) - 1) : u[i].priority <= u[i + 1].priority
  BY ONLY <1>1, <1>2, <1>3, SortFacts
<1>5. RegisteredBy(u, 0) = <<>>
  BY ONLY RegisteredByFacts
<1>6. FuncsOf(handlers) = <<>>
  BY ONLY <1>2 DEF FuncsOf
<1>7. ran' \in Nat /\ ran' # 0 /\ ran' - 1 = 0
  BY ONLY <1>1
<1>8. \E x \in Initializers : ToBag(x) = ToBag(u)
  BY ONLY <1>2, <1>3, <1>4
<1>9. FuncsOf(handlers') = RegisteredBy(u, ran' - 1)
  BY ONLY <1>1, <1>5, <1>6, <1>7
<1> QED BY ONLY <1>1, <1>2, <1>3, <1>4, <1>7, <1>8, <1>9 DEF DriversInv

LEMMA FuncsAppended ==
    ASSUME NEW l, NEW e, NEW func, IsSeqn(l), func = e.func
    PROVE  FuncsOf(Append(l, e)) = Append(FuncsOf(l), func)
<1>1. PICK n, u, a, b : n = Len(l) /\ u = Append(l, e) /\ a = FuncsOf(l) /\ b = FuncsOf(u)
  OBVIOUS
<1>2. n \in Nat /\ DOMAIN l = 1..n
  BY ONLY <1>1, IsSeqn(l), SeqnFacts
<1>3. IsSeqn(u) /\ Len(u) = n + 1 /\ (\A i \in 1..n : u[i] = l[i]) /\ u[n + 1] = e
  BY ONLY <1>1, IsSeqn(l), Appended
<1>4. DOMAIN u = 1..(n + 1)
  BY ONLY <1>3, SeqnFacts
<1>5. IsSeqn(a) /\ Len(a) = n /\ \A i \in 1..n : a[i] = l[i].func
  <2>1. DOMAIN a = 1..n /\ a = [i \in DOMAIN a |-> a[i]] /\ \A i \in 1..n : a[i] = l[i].func
    BY ONLY <1>1, <1>2 DEF FuncsOf
  <2> QED BY ONLY <1>2, <2>1, FunctionIsSeqn
<1>6. PICK m : m = n + 1 /\ m \in Nat /\ m \in 1..m /\ \A i \in 1..m : i \in 1..n \/ i = m
  BY ONLY <1>2
<1>7. IsSeqn(b) /\ Len(b) = m /\ \A i \in 1..m : b[i] = u[i].func
  <2>1. DOMAIN b = 1..m /\ b = [i \in DOMAIN b |-> b[i]] /\ \A i \in 1..m : b[i] = u[i].func
    BY ONLY <1>1, <1>4, <1>6 DEF FuncsOf
  <2> QED BY ONLY <1>6, <2>1, FunctionIsSeqn
<1>8. PICK c : c = Append(a, func)
  OBVIOUS
<1>9. IsSeqn(c) /\ Len(c) = m /\ (\A i \in 1..n : c[i] = a[i]) /\ c[m] = func
  BY ONLY <1>5, <1>6, <1>8, Appended
<1>10. \A i \in 1..m : b[i] = c[i]
  <2>1. ASSUME NEW i \in 1..m PROVE b[i] = c[i]
    <3>1. CASE i = m
      BY ONLY <1>3, <1>6, <1>7, <1>9, <3>1, func = e.func
    <3>2. CASE i \in 1..n
      BY ONLY <1>3, <1>5, <1>6, <1>7, <1>9, <2>1, <3>2
    <3> QED BY ONLY <1>6, <2>1, <3>1, <3>2
  <2> QED BY ONLY <2>1
<1>11. b = c
  BY ONLY <1>7, <1>9, <1>10, SeqSame
<1> QED BY ONLY <1>1, <1>8, <1>11

LEMMA RunInitializerRegisters == ASSUME DriversInv, RunInitializer PROVE DriversInv'
<1>1. ran > 0 /\ inits' = inits
  BY ONLY RunInitializer, DriversInv DEF RunInitializer, DriversInv
<1>2. /\ Prioritized(inits) /\ ran \in Nat
      /\ \A i \in 1..(Len(inits) - 1) : inits[i].priority <= inits[i + 1].priority
      /\ \E s \in Initializers : ToBag(s) = ToBag(inits)
      /\ FuncsOf(handlers) = RegisteredBy(inits, ran - 1)
      /\ IsSeqn(handlers) /\ handlersCap \in Nat /\ Len(handlers) <= handlersCap
  BY ONLY <1>1, DriversInv DEF DriversInv
<1>3. PICK func : func = inits[ran].func
  OBVIOUS
<1>4. RegisteredBy(inits, ran) = Took(RegisteredBy(inits, ran - 1), func)
  BY ONLY <1>1, <1>2, <1>3, RegisteredByFacts
<1>5. CASE func = "root_device" /\ ran' = ran + 1 /\ handlers' = handlers
           /\ handlersCap' = handlersCap
  <2>1. ran' \in Nat /\ ran' # 0 /\ ran' - 1 = ran
    BY ONLY <1>2, <1>5
  <2>2. FuncsOf(handlers') = RegisteredBy(inits, ran' - 1)
    BY ONLY <1>2, <1>4, <1>5, <2>1 DEF Took
  <2> QED BY ONLY <1>1, <1>2, <1>5, <2>1, <2>2 DEF DriversInv
<1>6. ASSUME NEW e, e.func = func, func # "root_device", handlers' = Append(handlers, e),
             handlersCap' = NewCap, ran' = ran + 1
      PROVE  DriversInv'
  <2>1. ran' \in Nat /\ ran' # 0 /\ ran' - 1 = ran
    BY ONLY <1>2, <1>6
  <2>2. FuncsOf(handlers') = Append(FuncsOf(handlers), func)
    BY ONLY <1>2, <1>6, FuncsAppended
  <2>3. FuncsOf(handlers') = RegisteredBy(inits, ran' - 1)
    BY ONLY <1>2, <1>4, <1>6, <2>1, <2>2 DEF Took
  <2>4. IsSeqn(handlers') /\ Len(handlers') = Len(handlers) + 1 /\ Len(handlers) \in Nat
    BY ONLY <1>2, <1>6, Appended
  <2>5. HandlersCap \in Nat \ {0}
    BY ONLY DevicesConstants DEF DevicesConstants
  <2>6. handlersCap' \in Nat /\ Len(handlers') <= handlersCap'
    BY ONLY <1>2, <1>6, <2>4, <2>5 DEF NewCap
  <2> QED BY ONLY <1>1, <1>2, <2>1, <2>3, <2>4, <2>6 DEF DriversInv
<1>7. CASE UNCHANGED <<ran, handlers, handlersCap>>
  BY ONLY <1>1, <1>7, DriversInv, DriversStay
<1>8. \/ func = "root_device" /\ ran' = ran + 1 /\ handlers' = handlers /\ handlersCap' = handlersCap
      \/ \E e : /\ e.func = func /\ func # "root_device" /\ handlers' = Append(handlers, e)
                /\ handlersCap' = NewCap /\ ran' = ran + 1
      \/ UNCHANGED <<ran, handlers, handlersCap>>
  <2> DEFINE e == [compatible |-> IF func = "ns16550a" THEN NS16550A ELSE OtherDriver,
                   func |-> func]
  <2>1. \/ func = "root_device" /\ ran' = ran + 1 /\ handlers' = handlers
           /\ handlersCap' = handlersCap
        \/ /\ func # "root_device" /\ handlers' = Append(handlers, e)
           /\ handlersCap' = NewCap /\ ran' = ran + 1
        \/ UNCHANGED <<ran, handlers>> /\ handlersCap' = handlersCap
    BY ONLY <1>3, RunInitializer DEF RunInitializer, devicetree_register
  <2>2. e.func = func
    OBVIOUS
  <2> HIDE DEF e
  <2> QED BY ONLY <2>1, <2>2
<1> QED BY ONLY <1>5, <1>6, <1>7, <1>8

LEMMA DriversStep == ASSUME DriversInv, [Next]_vars PROVE DriversInv'
<1>1. CASE StartInitializers
  BY ONLY <1>1, DriversInv, StartInitializersRegister
<1>2. CASE RunInitializer
  BY ONLY <1>2, DriversInv, RunInitializerRegisters
<1>3. CASE UNCHANGED <<inits, ran, handlers, handlersCap>>
  BY ONLY <1>3, DriversInv, DriversStay
<1> QED BY ONLY <1>1, <1>2, <1>3, [Next]_vars DEF Next, Boot, Halt, vars, bootvars,
       devicetree_add_entropy, StartEnumerate, Descend, Leave, CallHandler, Move, EnumerateEnd,
       PrintDevice

LEMMA DriversAlways == Spec => []DriversInv
<1>1. Init => DriversInv
  BY DriversStart
<1>2. DriversInv /\ [Next]_vars => DriversInv'
  BY DriversStep
<1> QED BY <1>1, <1>2, PTL DEF Spec

(* In whatever order the linker puts the initializers, they run by         *)
(* priority, each once, and the handlers vector has room for all of them.  *)
THEOREM DriversAreRegisteredTheorem == Spec => []DriversAreRegistered
<1>1. DriversInv => DriversAreRegistered
  BY RegisteredSame DEF DriversInv, DriversAreRegistered, FuncsOf
<1> QED BY <1>1, DriversAlways, PTL

-----------------------------------------------------------------------------
(* The walk of devicetree_enumerate over a tree: n is the current node, d  *)
(* what is to be done with it, v are the nodes that have been left, and A  *)
(* is the path from the root to n.                                         *)

(* Of the children of the parent of a, those behind a are still to come. *)
Behind(p, c, a, v) ==
    p[a] # NULL => \A j \in 1..Len(c[p[a]]) : \A k \in 1..Len(c[p[a]]) :
                      (c[p[a]][k] = a /\ k < j) => ~In(c[p[a]][j], v)

Path(D, p, n, A) ==
    /\ A \subseteq D /\ n \in A
    /\ \A a \in A : (p[a] = NULL \/ p[a] \in A) /\ p[a] # n
    /\ \A a \in A : \A b \in A : p[a] = p[b] => a = b

Along(D, p, c, n, d, v, A) ==
    /\ Path(D, p, n, A)
    /\ \A a \in A : In(a, v) => (d = "handlers" /\ a = n)
    /\ d = "handlers" => In(n, v) /\ p[n] # NULL
    /\ \A x : In(x, v) => x \in D /\ (p[x] \in A \/ In(p[x], v))
    /\ \A a \in A : Behind(p, c, a, v)
    /\ d = "down" => \A x : In(x, v) => p[x] # n

LEMMA AlongUp ==
    ASSUME NEW D, NEW p, NEW c, NEW n, NEW v, NEW A, Along(D, p, c, n, "down", v, A)
    PROVE  Along(D, p, c, n, "up", v, A)
BY ONLY Along(D, p, c, n, "down", v, A) DEF Along

LEMMA AlongStart ==
    ASSUME NEW D, NEW p, NEW c, NEW n, NEW v, n \in D, p[n] = NULL, NULL \notin D, v = <<>>
    PROVE  Along(D, p, c, n, "down", v, {n})
<1>1. \A x : ~In(x, v)
  BY ONLY v = <<>>, NoneIn
<1>2. Path(D, p, n, {n})
  BY ONLY n \in D, p[n] = NULL, NULL \notin D DEF Path
<1>3. Behind(p, c, n, v)
  BY ONLY p[n] = NULL DEF Behind
<1> QED BY ONLY <1>1, <1>2, <1>3 DEF Along

(* To the first child. *)
LEMMA AlongDown ==
    ASSUME NEW D, NEW p, NEW c, NEW n, NEW v, NEW A, NEW h, NEW B, Links(D, p, c),
           Along(D, p, c, n, "down", v, A), h \in D, p[h] = n, B = A \cup {h}
    PROVE  Along(D, p, c, h, "down", v, B)
<1>1. Path(D, p, n, A)
  BY ONLY Along(D, p, c, n, "down", v, A) DEF Along
<1>2. /\ A \subseteq D /\ n \in A
      /\ \A a \in A : (p[a] = NULL \/ p[a] \in A) /\ p[a] # n
      /\ \A a \in A : \A b \in A : p[a] = p[b] => a = b
  BY ONLY <1>1 DEF Path
<1>3. /\ \A a \in A : ~In(a, v)
      /\ \A x : In(x, v) => x \in D /\ (p[x] \in A \/ In(p[x], v))
      /\ \A a \in A : Behind(p, c, a, v)
      /\ \A x : In(x, v) => p[x] # n
  BY ONLY Along(D, p, c, n, "down", v, A) DEF Along
<1>4. D \subseteq Nat /\ Up(D, p) /\ Kids(D, p, c)
  BY ONLY Links(D, p, c) DEF Links
<1>5. h # NULL /\ n # NULL /\ h \notin A /\ p[h] # h
  <2>1. h \in Nat /\ n \in Nat
    BY ONLY <1>2, <1>4, h \in D
  <2>2. p[h] < h
    BY ONLY <1>4, <2>1, h \in D, p[h] = n, NullFacts DEF Up
  <2>3. p[h] # h
    BY ONLY <2>1, <2>2, p[h] = n
  <2> QED BY ONLY <1>2, <2>1, <2>3, p[h] = n, NullFacts
<1>6. ~In(h, v)
  BY ONLY <1>3, p[h] = n
<1>7. Path(D, p, h, B)
  <2>1. B \subseteq D /\ h \in B
    BY ONLY <1>2, h \in D, B = A \cup {h}
  <2>2. \A a \in B : (p[a] = NULL \/ p[a] \in B) /\ p[a] # h
    BY ONLY <1>2, <1>5, p[h] = n, B = A \cup {h}
  <2>3. \A a \in B : \A b \in B : p[a] = p[b] => a = b
    BY ONLY <1>2, p[h] = n, B = A \cup {h}
  <2> QED BY ONLY <2>1, <2>2, <2>3 DEF Path
<1>8. Behind(p, c, h, v)
  <2>1. \A x : In(x, c[n]) => p[x] = n
    BY ONLY <1>2, <1>4 DEF Kids
  <2>2. \A j \in 1..Len(c[n]) : In(c[n][j], c[n])
    BY DEF In
  <2>3. \A j \in 1..Len(c[n]) : ~In(c[n][j], v)
    BY ONLY <1>3, <2>1, <2>2
  <2> QED BY ONLY <2>3, p[h] = n DEF Behind
<1>9. \A x : In(x, v) => p[x] # h
  BY ONLY <1>3, <1>5, <1>6
<1>10. \A a \in B : ~In(a, v) /\ Behind(p, c, a, v)
  BY ONLY <1>3, <1>6, <1>8, B = A \cup {h}
<1>11. \A x : In(x, v) => x \in D /\ (p[x] \in B \/ In(p[x], v))
  BY ONLY <1>3, B = A \cup {h}
<1> QED BY ONLY <1>7, <1>9, <1>10, <1>11 DEF Along

(* The node is left. *)
LEMMA AlongLeave ==
    ASSUME NEW D, NEW p, NEW c, NEW n, NEW v, NEW A, NEW w, Links(D, p, c), IsSeqn(v),
           Along(D, p, c, n, "up", v, A), p[n] # NULL, w = Append(v, n)
    PROVE  Along(D, p, c, n, "handlers", w, A) /\ ~In(n, v)
<1>1. Path(D, p, n, A)
  BY ONLY Along(D, p, c, n, "up", v, A) DEF Along
<1>2. /\ A \subseteq D /\ n \in A
      /\ \A a \in A : (p[a] = NULL \/ p[a] \in A) /\ p[a] # n
  BY ONLY <1>1 DEF Path
<1>3. /\ \A a \in A : ~In(a, v)
      /\ \A x : In(x, v) => x \in D /\ (p[x] \in A \/ In(p[x], v))
      /\ \A a \in A : Behind(p, c, a, v)
  BY ONLY Along(D, p, c, n, "up", v, A) DEF Along
<1>4. \A x : In(x, w) <=> (In(x, v) \/ x = n)
  BY ONLY IsSeqn(v), w = Append(v, n), AppendedIn
<1>5. ASSUME NEW a \in A PROVE Behind(p, c, a, w)
  <2> SUFFICES ASSUME p[a] # NULL, NEW j \in 1..Len(c[p[a]]), NEW k \in 1..Len(c[p[a]]),
                      c[p[a]][k] = a, k < j
               PROVE  ~In(c[p[a]][j], w)
    BY DEF Behind
  <2>1. PICK q, l : q = p[a] /\ l = c[q]
    OBVIOUS
  <2>2. ~In(l[j], v)
    BY ONLY <1>3, <2>1, p[a] # NULL, j \in 1..Len(c[p[a]]), k \in 1..Len(c[p[a]]),
            c[p[a]][k] = a, k < j, a \in A DEF Behind
  <2>3. l[j] # n
    <3> SUFFICES ASSUME l[j] = n PROVE FALSE
      OBVIOUS
    <3>1. q \in D
      BY ONLY <1>2, <2>1, p[a] # NULL, a \in A
    <3>2. IsSeqn(l) /\ Distinct(l) /\ \A x : In(x, l) <=> (x \in D /\ p[x] = q)
      BY ONLY <2>1, <3>1, Links(D, p, c) DEF Links, Kids
    <3>3. In(n, l)
      BY ONLY <2>1, l[j] = n, j \in 1..Len(c[p[a]]) DEF In
    <3>4. p[n] = p[a]
      BY ONLY <2>1, <3>2, <3>3
    <3>5. n = a
      BY ONLY <1>1, <1>2, <3>4, a \in A DEF Path
    <3>6. l[j] = l[k]
      BY ONLY <2>1, <3>5, l[j] = n, c[p[a]][k] = a
    <3>7. j = k
      BY ONLY <2>1, <3>2, <3>6, j \in 1..Len(c[p[a]]), k \in 1..Len(c[p[a]]) DEF Distinct
    <3>8. Len(l) \in Nat
      BY ONLY <3>2, SeqnFacts
    <3>9. k \in Int
      BY ONLY <2>1, <3>8, k \in 1..Len(c[p[a]])
    <3> QED BY ONLY <3>7, <3>9, k < j
  <2> QED BY ONLY <1>4, <2>1, <2>2, <2>3
<1>6. \A x : In(x, w) => x \in D /\ (p[x] \in A \/ In(p[x], w))
  BY ONLY <1>2, <1>3, <1>4, p[n] # NULL
<1>7. \A a \in A : In(a, w) => a = n
  BY ONLY <1>3, <1>4
<1> QED BY ONLY <1>1, <1>2, <1>3, <1>4, <1>5, <1>6, <1>7, p[n] # NULL DEF Along

(* To the parent. *)
LEMMA AlongParent ==
    ASSUME NEW D, NEW p, NEW c, NEW n, NEW v, NEW A, NEW m, NEW B, Links(D, p, c),
           Along(D, p, c, n, "handlers", v, A), m = p[n], B = A \ {n}
    PROVE  Along(D, p, c, m, "up", v, B)
<1>1. Path(D, p, n, A)
  BY ONLY Along(D, p, c, n, "handlers", v, A) DEF Along
<1>2. /\ A \subseteq D /\ n \in A
      /\ \A a \in A : (p[a] = NULL \/ p[a] \in A) /\ p[a] # n
      /\ \A a \in A : \A b \in A : p[a] = p[b] => a = b
  BY ONLY <1>1 DEF Path
<1>3. /\ \A a \in A : In(a, v) => a = n
      /\ In(n, v) /\ p[n] # NULL
      /\ \A x : In(x, v) => x \in D /\ (p[x] \in A \/ In(p[x], v))
      /\ \A a \in A : Behind(p, c, a, v)
  BY ONLY Along(D, p, c, n, "handlers", v, A) DEF Along
<1>4. Path(D, p, m, B)
  <2>1. B \subseteq D /\ m \in B
    BY ONLY <1>2, <1>3, m = p[n], B = A \ {n}
  <2>2. \A a \in B : (p[a] = NULL \/ p[a] \in B) /\ p[a] # m
    BY ONLY <1>2, m = p[n], B = A \ {n}
  <2>3. \A a \in B : \A b \in B : p[a] = p[b] => a = b
    BY ONLY <1>2, B = A \ {n}
  <2> QED BY ONLY <2>1, <2>2, <2>3 DEF Path
<1>5. \A a \in B : ~In(a, v) /\ Behind(p, c, a, v)
  BY ONLY <1>3, B = A \ {n}
<1>6. \A x : In(x, v) => x \in D /\ (p[x] \in B \/ In(p[x], v))
  BY ONLY <1>3, B = A \ {n}
<1> QED BY ONLY <1>4, <1>5, <1>6 DEF Along

(* To the next sibling. *)
LEMMA AlongSibling ==
    ASSUME NEW D, NEW p, NEW c, NEW n, NEW v, NEW A, NEW l, NEW i, NEW m, NEW B, Links(D, p, c),
           Along(D, p, c, n, "handlers", v, A), l = c[p[n]], i \in 1..Len(l), i + 1 \in 1..Len(l),
           l[i] = n, m = l[i + 1], B = (A \ {n}) \cup {m}
    PROVE  Along(D, p, c, m, "down", v, B)
<1>1. Path(D, p, n, A)
  BY ONLY Along(D, p, c, n, "handlers", v, A) DEF Along
<1>2. /\ A \subseteq D /\ n \in A
      /\ \A a \in A : (p[a] = NULL \/ p[a] \in A) /\ p[a] # n
      /\ \A a \in A : \A b \in A : p[a] = p[b] => a = b
  BY ONLY <1>1 DEF Path
<1>3. /\ \A a \in A : In(a, v) => a = n
      /\ In(n, v) /\ p[n] # NULL
      /\ \A x : In(x, v) => x \in D /\ (p[x] \in A \/ In(p[x], v))
      /\ \A a \in A : Behind(p, c, a, v)
  BY ONLY Along(D, p, c, n, "handlers", v, A) DEF Along
<1>4. D \subseteq Nat /\ Up(D, p) /\ Kids(D, p, c)
  BY ONLY Links(D, p, c) DEF Links
<1>5. PICK q : q = p[n] /\ q \in A /\ q \in D
  BY ONLY <1>2, <1>3
<1>6. IsSeqn(l) /\ Distinct(l) /\ \A x : In(x, l) <=> (x \in D /\ p[x] = q)
  BY ONLY <1>4, <1>5, l = c[p[n]] DEF Kids
<1>7. Len(l) \in Nat /\ i \in Int /\ i < i + 1
  <2>1. Len(l) \in Nat
    BY ONLY <1>6, SeqnFacts
  <2> QED BY ONLY <2>1, i \in 1..Len(l)
<1>8. m \in D /\ p[m] = q
  <2>1. In(m, l)
    BY ONLY m = l[i + 1], i + 1 \in 1..Len(l) DEF In
  <2> QED BY ONLY <1>6, <2>1
<1>9. \A j \in 1..Len(l) : i < j => ~In(l[j], v)
  BY ONLY <1>2, <1>3, i \in 1..Len(l), l[i] = n, l = c[p[n]] DEF Behind
<1>10. ~In(m, v) /\ m # n
  BY ONLY <1>3, <1>7, <1>9, m = l[i + 1], i + 1 \in 1..Len(l)
<1>11. m # NULL /\ p[m] # m /\ m \notin A
  <2>1. m \in Nat /\ q \in Nat
    BY ONLY <1>4, <1>5, <1>8
  <2>2. q < m
    BY ONLY <1>4, <1>8, <2>1, NullFacts DEF Up
  <2>3. q # m
    BY ONLY <2>1, <2>2
  <2> QED BY ONLY <1>2, <1>5, <1>8, <1>10, <2>1, <2>3, NullFacts
<1>12. Path(D, p, m, B)
  <2>1. B \subseteq D /\ m \in B
    BY ONLY <1>2, <1>8, B = (A \ {n}) \cup {m}
  <2>2. q \in B
    BY ONLY <1>2, <1>5, B = (A \ {n}) \cup {m}
  <2>3. \A a \in B : (p[a] = NULL \/ p[a] \in B) /\ p[a] # m
    BY ONLY <1>2, <1>8, <1>11, <2>2, B = (A \ {n}) \cup {m}
  <2>4. \A a \in B : \A b \in B : p[a] = p[b] => a = b
    BY ONLY <1>2, <1>5, <1>8, B = (A \ {n}) \cup {m}
  <2> QED BY ONLY <2>1, <2>3, <2>4 DEF Path
<1>13. Behind(p, c, m, v)
  <2>1. ASSUME NEW j \in 1..Len(l), NEW k \in 1..Len(l), l[k] = m, k < j PROVE ~In(l[j], v)
    <3>1. k = i + 1
      BY ONLY <1>6, <2>1, m = l[i + 1], i + 1 \in 1..Len(l) DEF Distinct
    <3>2. i < j
      BY ONLY <1>7, <2>1, <3>1
    <3> QED BY ONLY <1>9, <2>1, <3>2
  <2> QED BY ONLY <1>5, <1>8, <2>1, l = c[p[n]] DEF Behind
<1>14. \A a \in B : ~In(a, v) /\ Behind(p, c, a, v)
  BY ONLY <1>3, <1>10, <1>13, B = (A \ {n}) \cup {m}
<1>15. \A x : In(x, v) => x \in D /\ (p[x] \in B \/ In(p[x], v))
  BY ONLY <1>3, B = (A \ {n}) \cup {m}
<1>16. \A x : In(x, v) => p[x] # m
  BY ONLY <1>3, <1>10, <1>11
<1> QED BY ONLY <1>12, <1>14, <1>15, <1>16 DEF Along

(* Of the children of the parent of a, those ahead of a have been left. *)
Ahead(p, c, a, v) ==
    p[a] # NULL => \A j \in 1..Len(c[p[a]]) : \A k \in 1..Len(c[p[a]]) :
                      (c[p[a]][k] = a /\ j < k) => In(c[p[a]][j], v)

(* What has been done on the way to n: going up, all children of n are left. *)
Sofar(D, p, c, n, d, v, A) ==
    /\ \A a \in A : Ahead(p, c, a, v)
    /\ d = "up" => \A y \in D : p[y] = n => In(y, v)

(* Every node is left once, and after its children; the root is not. *)
Left(D, p, v) ==
    /\ Distinct(v) /\ \A x : In(x, v) => p[x] # NULL
    /\ \A i \in 1..Len(v) : \A y \in D :
          p[y] = v[i] => \E j \in 1..Len(v) : j < i /\ v[j] = y

LEMMA SofarStart ==
    ASSUME NEW D, NEW p, NEW c, NEW n, NEW v, p[n] = NULL, v = <<>>
    PROVE  Sofar(D, p, c, n, "down", v, {n}) /\ Left(D, p, v)
<1>1. Ahead(p, c, n, v)
  BY ONLY p[n] = NULL DEF Ahead
<1>2. Sofar(D, p, c, n, "down", v, {n})
  BY ONLY <1>1 DEF Sofar
<1>3. IsSeqn(v) /\ Len(v) = 0 /\ Distinct(v) /\ \A x : ~In(x, v)
  BY ONLY v = <<>>, NoElements, NoneIn
<1>4. Left(D, p, v)
  BY ONLY <1>3 DEF Left
<1> QED BY ONLY <1>2, <1>4

(* There are no children. *)
LEMMA SofarUp ==
    ASSUME NEW D, NEW p, NEW c, NEW n, NEW v, NEW A, Sofar(D, p, c, n, "down", v, A),
           Links(D, p, c), n \in D, c[n] = <<>>
    PROVE  Sofar(D, p, c, n, "up", v, A)
<1>1. \A x : In(x, c[n]) <=> (x \in D /\ p[x] = n)
  BY ONLY Links(D, p, c), n \in D DEF Links, Kids
<1>2. \A x : ~In(x, c[n])
  BY ONLY c[n] = <<>>, NoneIn
<1> QED BY ONLY <1>1, <1>2, Sofar(D, p, c, n, "down", v, A) DEF Sofar

LEMMA SofarDown ==
    ASSUME NEW D, NEW p, NEW c, NEW n, NEW v, NEW A, NEW h, NEW B, Links(D, p, c),
           Sofar(D, p, c, n, "down", v, A), n \in D, c[n] # <<>>, h = Head(c[n]), p[h] = n,
           B = A \cup {h}
    PROVE  Sofar(D, p, c, h, "down", v, B)
<1>1. PICK l : l = c[n] /\ IsSeqn(l) /\ Distinct(l)
  BY ONLY Links(D, p, c), n \in D DEF Links, Kids
<1>2. PICK N : N = Len(l) /\ N \in Nat /\ N > 0
  BY ONLY <1>1, c[n] # <<>>, SeqnFacts
<1>3. l[1] = h /\ 1 \in 1..N
  <2>1. PICK S : l \in Seq(S)
    BY ONLY <1>1 DEF IsSeqn
  <2>2. Head(l) = l[1]
    BY ONLY <1>2, <2>1
  <2> QED BY ONLY <1>1, <1>2, <2>2, h = Head(c[n])
<1>4. \A k \in 1..N : l[k] = h => k = 1
  BY ONLY <1>1, <1>2, <1>3 DEF Distinct
<1>5. \A j \in 1..N : ~(j < 1)
  BY ONLY <1>2
<1>6. Ahead(p, c, h, v)
  BY ONLY <1>1, <1>2, <1>4, <1>5, p[h] = n DEF Ahead
<1> QED BY ONLY <1>6, Sofar(D, p, c, n, "down", v, A), B = A \cup {h} DEF Sofar

LEMMA SofarLeave ==
    ASSUME NEW D, NEW p, NEW c, NEW n, NEW v, NEW A, NEW w, IsSeqn(v), Left(D, p, v),
           Sofar(D, p, c, n, "up", v, A), p[n] # NULL, w = Append(v, n), ~In(n, v)
    PROVE  Sofar(D, p, c, n, "handlers", w, A) /\ Left(D, p, w)
<1>1. IsSeqn(w) /\ Distinct(w) /\ \A x : In(x, w) <=> (In(x, v) \/ x = n)
  BY ONLY IsSeqn(v), w = Append(v, n), ~In(n, v), Left(D, p, v), AppendedIn DEF Left
<1>2. ASSUME NEW a \in A PROVE Ahead(p, c, a, w)
  <2>1. Ahead(p, c, a, v)
    BY ONLY Sofar(D, p, c, n, "up", v, A), a \in A DEF Sofar
  <2> QED BY ONLY <1>1, <2>1 DEF Ahead
<1>3. Sofar(D, p, c, n, "handlers", w, A)
  BY ONLY <1>2 DEF Sofar
<1>4. \A x : In(x, w) => p[x] # NULL
  BY ONLY <1>1, p[n] # NULL, Left(D, p, v) DEF Left
<1>5. PICK N, M : /\ N = Len(v) /\ M = Len(w) /\ M = N + 1 /\ N \in Nat
                  /\ (\A i \in 1..N : w[i] = v[i]) /\ w[M] = n
  BY ONLY IsSeqn(v), w = Append(v, n), Appended
<1>6. ASSUME NEW i \in 1..M, NEW y \in D, p[y] = w[i]
      PROVE  \E j \in 1..M : j < i /\ w[j] = y
  <2>1. \E j \in 1..N : j < i /\ v[j] = y
    <3>1. CASE i = M
      <4>1. In(y, v)
        BY ONLY <1>5, <1>6, <3>1, Sofar(D, p, c, n, "up", v, A) DEF Sofar
      <4>2. PICK j \in 1..N : v[j] = y
        BY ONLY <1>5, <4>1 DEF In
      <4>3. j < i
        BY ONLY <1>5, <3>1
      <4> QED BY ONLY <4>2, <4>3
    <3>2. CASE i # M
      <4>1. i \in 1..N
        BY ONLY <1>5, <3>2
      <4>2. p[y] = v[i]
        BY ONLY <1>5, <1>6, <4>1
      <4> QED BY ONLY <1>5, <4>1, <4>2, y \in D, Left(D, p, v) DEF Left
    <3> QED BY ONLY <3>1, <3>2
  <2>2. PICK j \in 1..N : j < i /\ v[j] = y
    BY ONLY <2>1
  <2>3. j \in 1..M /\ w[j] = y
    BY ONLY <1>5, <2>2
  <2> QED BY ONLY <2>2, <2>3
<1> QED BY ONLY <1>1, <1>3, <1>4, <1>5, <1>6 DEF Left

LEMMA SofarParent ==
    ASSUME NEW D, NEW p, NEW c, NEW n, NEW v, NEW A, NEW m, NEW B, NEW l, Links(D, p, c),
           Sofar(D, p, c, n, "handlers", v, A), n \in A, m = p[n], m # NULL, m \in D, In(n, v),
           l = c[m], l[Len(l)] = n, B = A \ {n}
    PROVE  Sofar(D, p, c, m, "up", v, B)
<1>1. IsSeqn(l) /\ Distinct(l) /\ \A x : In(x, l) <=> (x \in D /\ p[x] = m)
  BY ONLY Links(D, p, c), m \in D, l = c[m] DEF Links, Kids
<1>2. PICK N : N = Len(l) /\ N \in Nat
  BY ONLY <1>1, SeqnFacts
<1>3. Ahead(p, c, n, v)
  BY ONLY Sofar(D, p, c, n, "handlers", v, A), n \in A DEF Sofar
<1>4. ASSUME NEW y \in D, p[y] = m PROVE In(y, v)
  <2>1. PICK j \in 1..N : l[j] = y
    BY ONLY <1>1, <1>2, <1>4 DEF In
  <2>2. CASE j = N
    BY ONLY <1>2, <2>1, <2>2, l[Len(l)] = n, In(n, v)
  <2>3. CASE j # N
    <3>1. j < N /\ N \in 1..N
      BY ONLY <1>2, <2>3
    <3> QED BY ONLY <1>2, <1>3, <2>1, <3>1, m = p[n], m # NULL, l = c[m], l[Len(l)] = n DEF Ahead
  <2> QED BY ONLY <2>2, <2>3
<1> QED BY ONLY <1>4, Sofar(D, p, c, n, "handlers", v, A), B = A \ {n} DEF Sofar

LEMMA SofarSibling ==
    ASSUME NEW D, NEW p, NEW c, NEW n, NEW v, NEW A, NEW l, NEW i, NEW m, NEW B, Links(D, p, c),
           Sofar(D, p, c, n, "handlers", v, A), n \in A, p[n] \in D, p[n] # NULL, In(n, v),
           l = c[p[n]], i \in 1..Len(l), i + 1 \in 1..Len(l), l[i] = n, m = l[i + 1],
           B = (A \ {n}) \cup {m}
    PROVE  Sofar(D, p, c, m, "down", v, B)
<1>1. PICK q : q = p[n] /\ q \in D /\ q # NULL /\ l = c[q]
  BY ONLY p[n] \in D, p[n] # NULL, l = c[p[n]]
<1>2. IsSeqn(l) /\ Distinct(l) /\ \A x : In(x, l) <=> (x \in D /\ p[x] = q)
  BY ONLY <1>1, Links(D, p, c) DEF Links, Kids
<1>3. PICK N, o : N = Len(l) /\ N \in Nat /\ o = i + 1 /\ o \in 1..N /\ l[o] = m /\ i \in 1..N
  BY ONLY <1>2, i \in 1..Len(l), i + 1 \in 1..Len(l), m = l[i + 1], SeqnFacts
<1>4. p[m] = q
  BY ONLY <1>2, <1>3 DEF In
<1>5. Ahead(p, c, n, v)
  BY ONLY Sofar(D, p, c, n, "handlers", v, A), n \in A DEF Sofar
<1>6. ASSUME NEW j \in 1..N, NEW k \in 1..N, l[k] = m, j < k PROVE In(l[j], v)
  <2>1. k = o
    BY ONLY <1>2, <1>3, <1>6 DEF Distinct
  <2>2. j = i \/ j < i
    BY ONLY <1>3, <1>6, <2>1
  <2>3. CASE j = i
    BY ONLY <2>3, l[i] = n, In(n, v)
  <2>4. CASE j < i
    BY ONLY <1>1, <1>3, <1>5, <2>4, j \in 1..N, l[i] = n DEF Ahead
  <2> QED BY ONLY <2>2, <2>3, <2>4
<1>7. Ahead(p, c, m, v)
  BY ONLY <1>1, <1>3, <1>4, <1>6 DEF Ahead
<1> QED BY ONLY <1>7, Sofar(D, p, c, n, "handlers", v, A), B = (A \ {n}) \cup {m} DEF Sofar

(* Back at the root, everything below it has been left. *)
LEMMA AllAreLeft ==
    ASSUME NEW D, NEW p, NEW c, NEW n, NEW v, NEW A, Links(D, p, c), Left(D, p, v),
           Sofar(D, p, c, n, "up", v, A), n \in D, p[n] = NULL
    PROVE  \A x \in D : p[x] # NULL => In(x, v)
<1> SUFFICES ASSUME NEW x \in D, p[x] # NULL, ~In(x, v) PROVE FALSE
  OBVIOUS
<1>1. D \subseteq Nat /\ Up(D, p) /\ OneRoot(D, p)
  BY ONLY Links(D, p, c) DEF Links
<1>2. PICK S : S = {y \in D : p[y] # NULL /\ ~In(y, v)}
  OBVIOUS
<1>3. S \subseteq Nat /\ x \in S
  BY ONLY <1>1, <1>2, x \in D, p[x] # NULL, ~In(x, v)
<1>4. PICK m : m \in S /\ \A y \in S : m <= y
  BY ONLY <1>3, FirstOfLeast
<1>5. m \in D /\ p[m] # NULL /\ ~In(m, v)
  BY ONLY <1>2, <1>4
<1>6. PICK q : q = p[m] /\ q \in D /\ q < m
  BY ONLY <1>1, <1>5 DEF Up
<1>7. q \notin S
  <2>1. q \in Nat /\ m \in Nat
    BY ONLY <1>1, <1>5, <1>6
  <2>2. ~(m <= q)
    BY ONLY <1>6, <2>1
  <2> QED BY ONLY <1>4, <2>2
<1>8. CASE p[q] = NULL
  <2>1. q = n
    BY ONLY <1>1, <1>6, <1>8, n \in D, p[n] = NULL DEF OneRoot
  <2> QED BY ONLY <1>5, <1>6, <2>1, Sofar(D, p, c, n, "up", v, A) DEF Sofar
<1>9. CASE In(q, v)
  <2>1. PICK i \in 1..Len(v) : v[i] = q
    BY ONLY <1>9 DEF In
  <2>2. \E j \in 1..Len(v) : v[j] = m
    BY ONLY <1>5, <1>6, <2>1, Left(D, p, v) DEF Left
  <2> QED BY ONLY <1>5, <2>2 DEF In
<1> QED BY ONLY <1>2, <1>6, <1>7, <1>8, <1>9

-----------------------------------------------------------------------------
(* The devices, and what is printed of them. *)

(* The objects L are those of the devices dv, which are in the tree once,  *)
(* and of which the UARTs us are a part.                                   *)
Accounted(dv, us, L) ==
    /\ IsSeqn(dv) /\ Distinct(dv) /\ IsSeqn(us) /\ Distinct(us)
    /\ \A x : In(x, us) => In(x, dv)
    /\ \A o : o \in L <=> \E x : In(x, dv) /\ o \in DeviceObjects(x)

LEMMA NoDevices == Accounted(<<>>, <<>>, {})
<1>1. \A x : ~In(x, <<>>)
  BY ONLY NoneIn
<1>2. Distinct(<<>>)
  BY ONLY NoneIn
<1> QED BY ONLY <1>1, <1>2, NoElements DEF Accounted

LEMMA DeviceAdded ==
    ASSUME NEW dv, NEW us, NEW L, NEW n, NEW ew, NEW ut, NEW M, Accounted(dv, us, L), ~In(n, dv),
           ew = Append(dv, n), ut = us \/ ut = Append(us, n), M = L \cup DeviceObjects(n)
    PROVE  Accounted(ew, ut, M)
<1>1. /\ IsSeqn(dv) /\ Distinct(dv) /\ IsSeqn(us) /\ Distinct(us)
      /\ \A x : In(x, us) => In(x, dv)
      /\ \A o : o \in L <=> \E x : In(x, dv) /\ o \in DeviceObjects(x)
  BY ONLY Accounted(dv, us, L) DEF Accounted
<1>2. IsSeqn(ew) /\ Distinct(ew) /\ \A x : In(x, ew) <=> (In(x, dv) \/ x = n)
  BY ONLY <1>1, ~In(n, dv), ew = Append(dv, n), AppendedIn
<1>3. IsSeqn(ut) /\ Distinct(ut) /\ \A x : In(x, ut) => (In(x, us) \/ x = n)
  <2>1. CASE ut = us
    BY ONLY <1>1, <2>1
  <2>2. CASE ut = Append(us, n)
    <3>1. ~In(n, us)
      BY ONLY <1>1, ~In(n, dv)
    <3> QED BY ONLY <1>1, <2>2, <3>1, AppendedIn
  <2> QED BY ONLY <2>1, <2>2, ut = us \/ ut = Append(us, n)
<1>4. \A x : In(x, ut) => In(x, ew)
  BY ONLY <1>1, <1>2, <1>3
<1>5. \A o : o \in M <=> \E x : In(x, ew) /\ o \in DeviceObjects(x)
  BY ONLY <1>1, <1>2, M = L \cup DeviceObjects(n)
<1> QED BY ONLY <1>2, <1>3, <1>4, <1>5 DEF Accounted

LEMMA DeviceFailed ==
    ASSUME NEW dv, NEW us, NEW L, NEW n, NEW got, NEW M, Accounted(dv, us, L), ~In(n, dv),
           got \subseteq DeviceObjects(n), M = (L \cup got) \ got
    PROVE  M = L
<1>1. \A o : o \in L <=> \E x : In(x, dv) /\ o \in DeviceObjects(x)
  BY ONLY Accounted(dv, us, L) DEF Accounted
<1>2. \A x : \A o : o \in DeviceObjects(x) => o[2] = x
  BY DEF DeviceObjects
<1>3. \A o \in got : o \notin L
  BY ONLY <1>1, <1>2, ~In(n, dv), got \subseteq DeviceObjects(n)
<1> QED BY ONLY <1>3, M = (L \cup got) \ got

LineOf(dv, k) == IF k = 1 THEN [device |-> NULL, depth |-> 1]
                 ELSE [device |-> dv[k - 1], depth |-> 2]

(* root_device and the first devices have been printed, i lines in all. *)
PrintedUpTo(pr, dv, i) ==
    IsSeqn(pr) /\ Len(pr) = i /\ \A k \in 1..i : pr[k] = LineOf(dv, k)

LEMMA PrintedNone == ASSUME NEW dv PROVE PrintedUpTo(<<>>, dv, 0)
<1>1. \A k \in 1..0 : FALSE
  OBVIOUS
<1> QED BY ONLY <1>1, NoElements DEF PrintedUpTo

LEMMA PrintedNext ==
    ASSUME NEW pr, NEW dv, NEW i, NEW e, NEW qr, PrintedUpTo(pr, dv, i), i \in Nat,
           e = LineOf(dv, i + 1), qr = Append(pr, e)
    PROVE  PrintedUpTo(qr, dv, i + 1)
<1>1. IsSeqn(pr) /\ Len(pr) = i /\ \A k \in 1..i : pr[k] = LineOf(dv, k)
  BY ONLY PrintedUpTo(pr, dv, i) DEF PrintedUpTo
<1>2. IsSeqn(qr) /\ Len(qr) = i + 1 /\ (\A k \in 1..i : qr[k] = pr[k]) /\ qr[i + 1] = e
  BY ONLY <1>1, qr = Append(pr, e), Appended
<1>3. \A k \in 1..(i + 1) : k \in 1..i \/ k = i + 1
  BY ONLY i \in Nat
<1>4. \A k \in 1..(i + 1) : qr[k] = LineOf(dv, k)
  BY ONLY <1>1, <1>2, <1>3, e = LineOf(dv, i + 1)
<1> QED BY ONLY <1>2, <1>4 DEF PrintedUpTo

LEMMA PrintedAll ==
    ASSUME NEW pr, NEW dv, IsSeqn(dv), PrintedUpTo(pr, dv, Len(dv) + 1)
    PROVE  pr = <<[device |-> NULL, depth |-> 1]>>
                \o [i \in DOMAIN dv |-> [device |-> dv[i], depth |-> 2]]
<1>1. PICK n, e, x, y : /\ n = Len(dv) /\ e = [device |-> NULL, depth |-> 1] /\ x = <<e>>
                        /\ y = [i \in DOMAIN dv |-> [device |-> dv[i], depth |-> 2]]
  OBVIOUS
<1>2. n \in Nat /\ DOMAIN dv = 1..n
  BY ONLY <1>1, IsSeqn(dv), SeqnFacts
<1>3. IsSeqn(x) /\ Len(x) = 1 /\ x[1] = e
  <2>1. x \in Seq({e}) /\ Len(x) = 1 /\ x[1] = e
    BY ONLY <1>1
  <2> QED BY ONLY <2>1 DEF IsSeqn
<1>4. IsSeqn(y) /\ Len(y) = n /\ \A i \in 1..n : y[i] = [device |-> dv[i], depth |-> 2]
  <2>1. /\ DOMAIN y = 1..n /\ y = [i \in DOMAIN y |-> y[i]]
        /\ \A i \in 1..n : y[i] = [device |-> dv[i], depth |-> 2]
    BY ONLY <1>1, <1>2
  <2> QED BY ONLY <1>2, <2>1, FunctionIsSeqn
<1>5. PICK z : z = x \o y
  OBVIOUS
<1>6. Join(z, x, y, 1, n)
  BY ONLY <1>3, <1>4, <1>5, Joined
<1>7. PICK m : m = n + 1 /\ m \in Nat
  BY ONLY <1>2
<1>8. /\ IsSeqn(z) /\ Len(z) = m /\ z[1] = e
      /\ \A i \in 1..n : z[1 + i] = [device |-> dv[i], depth |-> 2]
  <2>1. /\ IsSeqn(z) /\ Len(z) = 1 + n /\ (\A i \in 1..1 : z[i] = x[i])
        /\ \A i \in 1..n : z[1 + i] = y[i]
    BY ONLY <1>6 DEF Join
  <2>2. 1 \in 1..1 /\ 1 + n = m
    BY ONLY <1>2, <1>7
  <2> QED BY ONLY <1>3, <1>4, <2>1, <2>2
<1>9. IsSeqn(pr) /\ Len(pr) = m /\ \A k \in 1..m : pr[k] = LineOf(dv, k)
  BY ONLY <1>1, <1>7, PrintedUpTo(pr, dv, Len(dv) + 1) DEF PrintedUpTo
<1>10. ASSUME NEW k \in 1..m PROVE pr[k] = z[k]
  <2>1. CASE k = 1
    BY ONLY <1>1, <1>8, <1>9, <1>10, <2>1 DEF LineOf
  <2>2. CASE k # 1
    <3>1. PICK i : i = k - 1 /\ i \in 1..n /\ 1 + i = k
      BY ONLY <1>2, <1>7, <1>10, <2>2
    <3>2. pr[k] = [device |-> dv[i], depth |-> 2]
      BY ONLY <1>9, <1>10, <2>2, <3>1 DEF LineOf
    <3> QED BY ONLY <1>8, <3>1, <3>2
  <2> QED BY ONLY <2>1, <2>2
<1>11. pr = z
  BY ONLY <1>8, <1>9, <1>10, SeqSame
<1> QED BY ONLY <1>1, <1>5, <1>11

-----------------------------------------------------------------------------
(* The invariant of the devices. *)

WalkPcs == {"enumerate", "print", "done"}

(* print_devices has printed all before the device that it is at. *)
Printing ==
    /\ node = NULL => printed = <<>> /\ depth = 1
    /\ node # NULL => /\ depth = 2
                      /\ \E i \in 1..Len(devices) : node = devices[i]
                                                    /\ PrintedUpTo(printed, devices, i)

(* Before the walk there is nothing. *)
Nothing == /\ visited = <<>> /\ devices = <<>> /\ uarts = <<>> /\ devlive = {}
           /\ printed = <<>> /\ depth = 1

(* The walk knows its way back, and calls no handler for a node that has   *)
(* its device.                                                             *)
Enumerating ==
    /\ \E A : /\ Along(Nodes, T.parent, T.children, node, dir, visited, A)
              /\ Sofar(Nodes, T.parent, T.children, node, dir, visited, A)
    /\ (dir = "handlers" /\ calls # <<>>) => ~In(node, devices)
    /\ printed = <<>> /\ depth = 1

(* What has been left are nodes, and the devices are among them. *)
Walked ==
    /\ IsSeqn(visited) /\ (\A x : In(x, visited) => x \in Nodes) /\ Left(Nodes, T.parent, visited)
    /\ Accounted(devices, uarts, devlive)
    /\ \A x : In(x, devices) => In(x, visited)

(* The walk is over. *)
AllLeft == \A x \in Nodes : T.parent[x] # NULL => In(x, visited)

DevicesInv ==
    fate = "ok" =>
    /\ pc \notin WalkPcs => Nothing
    /\ pc \in WalkPcs => Walked
    /\ pc \in {"print", "done"} => AllLeft
    /\ pc = "enumerate" => Enumerating
    /\ pc = "print" => Printing
    /\ pc = "done" => PrintedUpTo(printed, devices, Len(devices) + 1)

LEMMA DevicesStart == Init => DevicesInv
<1> SUFFICES ASSUME Init PROVE DevicesInv
  OBVIOUS
<1>1. pc = "header" /\ Nothing
  BY DEF Init, DtInit, Nothing
<1> QED BY ONLY <1>1 DEF DevicesInv, WalkPcs

(* Before the walk. *)
LEMMA NotYet ==
    ASSUME DevicesInv, fate = "ok", pc \notin WalkPcs, pc' \notin WalkPcs,
           UNCHANGED <<visited, devices, uarts, devlive, printed, depth>>
    PROVE  DevicesInv'
<1>1. Nothing
  BY DEF DevicesInv
<1>2. Nothing'
  BY ONLY <1>1, UNCHANGED <<visited, devices, uarts, devlive, printed, depth>> DEF Nothing
<1> QED BY ONLY <1>2, pc' \notin WalkPcs DEF DevicesInv, WalkPcs

LEMMA StartFreePc == ASSUME NEW n, StartFree(n) PROVE pc' = pc \/ pc' = "free"
BY DEF StartFree, Panic, Goto

LEMMA ParsePc == ASSUME Parse PROVE fate = "ok" /\ pc \notin WalkPcs /\ pc' \notin WalkPcs
<1>1. fate = "ok" /\ pc \notin WalkPcs
  BY DEF Parse, ParseHeader, BeginNode, EndNode, Prop, Nop, End, UnknownToken, StructEnd,
         ReservedMemory, AddReservation, ParseEnd, FreeNode, FreeEnd, Reading, Running, WalkPcs
<1>2. \/ pc' = pc \/ (\E n : StartFree(n))
      \/ pc' \in {"struct", "reserved-memory", "reservations", "parsed", "free", "failed"}
  <2>1. CASE ParseHeader
    BY ONLY <2>1 DEF ParseHeader, Refuse, Goto
  <2>2. CASE BeginNode
    BY ONLY <2>2 DEF BeginNode, Refuse
  <2>3. CASE EndNode
    BY ONLY <2>3 DEF EndNode, Refuse
  <2>4. CASE Prop
    BY ONLY <2>4 DEF Prop, Refuse
  <2>5. CASE Nop \/ UnknownToken \/ FreeNode
    BY ONLY <2>5 DEF Nop, UnknownToken, FreeNode, Panic
  <2>6. CASE End
    BY ONLY <2>6 DEF End, Refuse
  <2>7. CASE StructEnd
    BY ONLY <2>7 DEF StructEnd, Refuse, Goto
  <2>8. CASE ReservedMemory
    BY ONLY <2>8 DEF ReservedMemory, Goto
  <2>9. CASE AddReservation
    BY ONLY <2>9 DEF AddReservation, Refuse
  <2>10. CASE ParseEnd \/ FreeEnd
    BY ONLY <2>10 DEF ParseEnd, FreeEnd, Goto
  <2> QED BY ONLY <2>1, <2>2, <2>3, <2>4, <2>5, <2>6, <2>7, <2>8, <2>9, <2>10, Parse DEF Parse
<1> QED BY ONLY <1>1, <1>2, StartFreePc DEF WalkPcs

LEMMA WalkBasics ==
    ASSUME DtInv, fate = "ok", pc \in MainPcs
    PROVE  Links(Nodes, T.parent, T.children) /\ NULL \notin Nodes /\ Nodes # {}
<1>1. TreeInv(T) /\ Nodes # {}
  BY DEF DtInv, Placed, MainPcs
<1>2. Links(Nodes, T.parent, T.children)
  BY ONLY <1>1 DEF TreeInv, Nodes
<1> QED BY ONLY <1>1, <1>2, NullFacts DEF Links

LEMMA AfterFate == ASSUME fate' # "ok" PROVE DevicesInv'
BY DEF DevicesInv

LEMMA StillWalked ==
    ASSUME Walked, T' = T, UNCHANGED <<visited, devices, uarts, devlive>>
    PROVE  Walked'
<1>1. Nodes' = Nodes
  BY ONLY T' = T DEF Nodes
<1> QED BY ONLY Walked, <1>1, T' = T, UNCHANGED <<visited, devices, uarts, devlive>> DEF Walked

(* A step of the walk. *)
LEMMA WalksOn ==
    ASSUME NEW B, NEW n, NEW d, NEW v, T' = T, node' = n, dir' = d, visited' = v,
           Along(Nodes, T.parent, T.children, n, d, v, B), printed' = printed, depth' = depth,
           Sofar(Nodes, T.parent, T.children, n, d, v, B), Enumerating, (d = "handlers" /\ calls' # <<>>) => ~In(n, devices'), Walked',
           pc' = "enumerate"
    PROVE  DevicesInv'
<1>1. Nodes' = Nodes
  BY ONLY T' = T DEF Nodes
<1>2. Along(Nodes, T.parent, T.children, node, dir, visited, B)'
  BY ONLY <1>1, T' = T, node' = n, dir' = d, visited' = v,
          Along(Nodes, T.parent, T.children, n, d, v, B)
<1>2a. Sofar(Nodes, T.parent, T.children, node, dir, visited, B)'
  BY ONLY <1>1, T' = T, node' = n, dir' = d, visited' = v,
          Sofar(Nodes, T.parent, T.children, n, d, v, B)
<1>3. printed' = <<>> /\ depth' = 1
  BY ONLY printed' = printed, depth' = depth, Enumerating DEF Enumerating
<1>4. Enumerating'
  BY ONLY <1>2, <1>2a, <1>3, (d = "handlers" /\ calls' # <<>>) => ~In(n, devices'), node' = n, dir' = d
     DEF Enumerating
<1> QED BY ONLY <1>4, Walked', pc' = "enumerate" DEF DevicesInv, WalkPcs

LEMMA ParseWalks == ASSUME DevicesInv, Parse, UNCHANGED bootvars PROVE DevicesInv'
BY ONLY DevicesInv, Parse, UNCHANGED bootvars, ParsePc, NotYet DEF bootvars

LEMMA AddEntropyWalks == ASSUME DevicesInv, devicetree_add_entropy PROVE DevicesInv'
<1>1. /\ fate = "ok" /\ pc \notin WalkPcs /\ pc' \notin WalkPcs
      /\ UNCHANGED <<visited, devices, uarts, devlive, printed, depth>>
  BY ONLY devicetree_add_entropy DEF devicetree_add_entropy, Main, Goto, WalkPcs, bootvars
<1> QED BY ONLY <1>1, DevicesInv, NotYet

LEMMA StartInitializersWalks == ASSUME DevicesInv, StartInitializers PROVE DevicesInv'
<1>1. /\ fate = "ok" /\ pc \notin WalkPcs /\ pc' \notin WalkPcs
      /\ UNCHANGED <<visited, devices, uarts, devlive, printed, depth>>
  BY ONLY StartInitializers DEF StartInitializers, Main, dtvars, WalkPcs
<1> QED BY ONLY <1>1, DevicesInv, NotYet

LEMMA RunInitializerWalks == ASSUME DevicesInv, RunInitializer PROVE DevicesInv'
<1>1. \A c, f : devicetree_register(c, f) => pc' = pc
  BY DEF devicetree_register, Panic, dtvars
<1>2. /\ fate = "ok" /\ pc = "initializers" /\ pc' = pc
      /\ UNCHANGED <<visited, devices, uarts, devlive, printed, depth>>
  BY ONLY <1>1, RunInitializer DEF RunInitializer, Main, dtvars
<1>3. pc \notin WalkPcs /\ pc' \notin WalkPcs
  BY ONLY <1>2 DEF WalkPcs
<1> QED BY ONLY <1>2, <1>3, DevicesInv, NotYet

LEMMA StartEnumerateWalks == ASSUME DtInv, DevicesInv, StartEnumerate PROVE DevicesInv'
<1>1. /\ fate = "ok" /\ pc = "initializers" /\ pc' = "enumerate" /\ node' = root /\ dir' = "down"
      /\ T' = T /\ UNCHANGED <<visited, devices, uarts, devlive, printed, depth>>
  BY ONLY StartEnumerate DEF StartEnumerate, Main, Goto
<1>2. Nothing
  BY ONLY <1>1, DevicesInv DEF DevicesInv, WalkPcs
<1>3. TreeInv(T) /\ Nodes # {} /\ NULL \notin Nodes /\ Nodes' = Nodes
  BY ONLY <1>1, DtInv, WalkBasics DEF DtInv, MainPcs, Nodes
<1>4. PICK r : r = root /\ r \in Nodes /\ T.parent[r] = NULL
  BY ONLY <1>3, RootFacts
<1>5. PICK v : v = visited /\ v = <<>>
  BY ONLY <1>2 DEF Nothing
<1>6. Along(Nodes, T.parent, T.children, r, "down", v, {r})
  BY ONLY <1>3, <1>4, <1>5, AlongStart
<1>6a. Sofar(Nodes, T.parent, T.children, r, "down", v, {r}) /\ Left(Nodes, T.parent, v)
  BY ONLY <1>4, <1>5, SofarStart
<1>7. (/\ Along(Nodes, T.parent, T.children, node, dir, visited, {r})
       /\ Sofar(Nodes, T.parent, T.children, node, dir, visited, {r}))'
  BY ONLY <1>1, <1>3, <1>4, <1>5, <1>6, <1>6a
<1>8. (printed = <<>> /\ depth = 1 /\ dir # "handlers")'
  BY ONLY <1>1, <1>2 DEF Nothing
<1>9. Enumerating'
  BY ONLY <1>7, <1>8 DEF Enumerating
<1>10. Accounted(devices, uarts, devlive)'
  BY ONLY <1>1, <1>2, NoDevices DEF Nothing
<1>11. Walked'
  <2>1. visited' = <<>> /\ devices' = <<>>
    BY ONLY <1>1, <1>2 DEF Nothing
  <2>2. Left(Nodes, T.parent, visited)'
    BY ONLY <1>1, <1>3, <1>5, <1>6a
  <2> QED BY ONLY <1>10, <2>1, <2>2, NoneIn, NoElements DEF Walked
<1> QED BY ONLY <1>1, <1>9, <1>11 DEF DevicesInv, WalkPcs

LEMMA DescendWalks == ASSUME DtInv, DevicesInv, Descend PROVE DevicesInv'
<1>1. /\ fate = "ok" /\ pc = "enumerate" /\ dir = "down" /\ pc' = pc /\ T' = T
      /\ UNCHANGED <<visited, devices, uarts, devlive, printed, depth>>
  BY ONLY Descend DEF Descend, Main
<1>2. Walked /\ Enumerating
  BY ONLY <1>1, DevicesInv DEF DevicesInv, WalkPcs
<1>3. Walked'
  BY ONLY <1>1, <1>2, StillWalked
<1>4. Links(Nodes, T.parent, T.children)
  BY ONLY <1>1, DtInv, WalkBasics DEF MainPcs
<1>5. PICK D, p, c : D = Nodes /\ p = T.parent /\ c = T.children
  OBVIOUS
<1>6. PICK A, n, v : /\ n = node /\ v = visited /\ Along(D, p, c, n, "down", v, A)
                     /\ Sofar(D, p, c, n, "down", v, A)
  BY ONLY <1>1, <1>2, <1>5 DEF Enumerating
<1>7. Links(D, p, c)
  BY ONLY <1>4, <1>5
<1>8. CASE node' = Head(T.children[node]) /\ dir' = dir /\ T.children[node] # <<>>
  <2>1. PICK h, l : l = c[n] /\ h = Head(l) /\ node' = h /\ l # <<>>
    BY ONLY <1>5, <1>6, <1>8
  <2>2. n \in D
    BY ONLY <1>6 DEF Along, Path
  <2>3. IsSeqn(l) /\ \A x : In(x, l) <=> (x \in D /\ p[x] = n)
    BY ONLY <1>7, <2>1, <2>2 DEF Links, Kids
  <2>4. h \in D /\ p[h] = n
    BY ONLY <2>1, <2>3, HeadIn
  <2>5. PICK B : B = A \cup {h}
    OBVIOUS
  <2>6. Along(D, p, c, h, "down", v, B)
    BY ONLY <1>6, <1>7, <2>4, <2>5, AlongDown
  <2>6a. Sofar(D, p, c, h, "down", v, B)
    BY ONLY <1>6, <1>7, <2>1, <2>2, <2>4, <2>5, SofarDown
  <2>7. PICK d : d = "down" /\ dir' = d
    BY ONLY <1>1, <1>8
  <2>8. /\ Along(Nodes, T.parent, T.children, h, d, v, B)
        /\ Sofar(Nodes, T.parent, T.children, h, d, v, B)
    BY ONLY <1>5, <2>6, <2>6a, <2>7
  <2> QED BY ONLY <1>1, <1>2, <1>3, <1>6, <2>1, <2>7, <2>8, WalksOn
<1>9. CASE dir' = "up" /\ node' = node /\ T.children[node] = <<>>
  <2>1. Along(D, p, c, n, "up", v, A)
    BY ONLY <1>6, AlongUp
  <2>2. PICK d : d = "up" /\ dir' = d
    BY ONLY <1>9
  <2>2a. n \in D /\ c[n] = <<>>
    BY ONLY <1>5, <1>6, <1>9 DEF Along, Path
  <2>2b. Sofar(D, p, c, n, "up", v, A)
    BY ONLY <1>6, <1>7, <2>2a, SofarUp
  <2>3. /\ Along(Nodes, T.parent, T.children, n, d, v, A)
        /\ Sofar(Nodes, T.parent, T.children, n, d, v, A)
    BY ONLY <1>5, <2>1, <2>2, <2>2b
  <2> QED BY ONLY <1>1, <1>2, <1>3, <1>6, <1>9, <2>2, <2>3, WalksOn
<1> QED BY ONLY <1>8, <1>9, Descend DEF Descend

LEMMA LeaveWalks == ASSUME DtInv, DevicesInv, Leave PROVE DevicesInv'
<1>1. /\ fate = "ok" /\ pc = "enumerate" /\ dir = "up" /\ pc' = pc /\ T' = T /\ node' = node
      /\ T.parent[node] # NULL /\ visited' = Append(visited, node) /\ dir' = "handlers"
      /\ UNCHANGED <<devices, uarts, devlive, printed, depth>>
  BY ONLY Leave DEF Leave, Main, dtvars
<1>2. Walked /\ Enumerating
  BY ONLY <1>1, DevicesInv DEF DevicesInv, WalkPcs
<1>3. Links(Nodes, T.parent, T.children)
  BY ONLY <1>1, DtInv, WalkBasics DEF MainPcs
<1>4. PICK D, p, c : D = Nodes /\ p = T.parent /\ c = T.children
  OBVIOUS
<1>5. PICK A, n, v : /\ n = node /\ v = visited /\ Along(D, p, c, n, "up", v, A)
                     /\ Sofar(D, p, c, n, "up", v, A)
  BY ONLY <1>1, <1>2, <1>4 DEF Enumerating
<1>6. PICK w, d : w = Append(v, n) /\ visited' = w /\ d = "handlers" /\ dir' = d
  BY ONLY <1>1, <1>5
<1>7. Links(D, p, c) /\ p[n] # NULL /\ IsSeqn(v)
  BY ONLY <1>1, <1>2, <1>3, <1>4, <1>5 DEF Walked
<1>8. Along(D, p, c, n, "handlers", w, A) /\ ~In(n, v)
  BY ONLY <1>5, <1>6, <1>7, AlongLeave
<1>8a. Left(D, p, v)
  BY ONLY <1>2, <1>4, <1>5 DEF Walked
<1>8b. Sofar(D, p, c, n, "handlers", w, A) /\ Left(D, p, w)
  BY ONLY <1>5, <1>6, <1>7, <1>8, <1>8a, SofarLeave
<1>9. /\ Along(Nodes, T.parent, T.children, n, d, w, A)
      /\ Sofar(Nodes, T.parent, T.children, n, d, w, A)
  BY ONLY <1>4, <1>6, <1>8, <1>8b
<1>10. n \in D
  BY ONLY <1>5 DEF Along, Path
<1>11. Nodes' = Nodes
  BY ONLY <1>1 DEF Nodes
<1>12. IsSeqn(w) /\ \A x : In(x, w) <=> (In(x, v) \/ x = n)
  BY ONLY <1>6, <1>7, AppendedIn
<1>13. Walked'
  BY ONLY <1>1, <1>2, <1>4, <1>5, <1>6, <1>8b, <1>10, <1>11, <1>12 DEF Walked
<1>14. ~In(n, devices')
  BY ONLY <1>1, <1>2, <1>5, <1>8 DEF Walked
<1> QED BY ONLY <1>1, <1>2, <1>5, <1>6, <1>9, <1>13, <1>14, WalksOn

Follows(l, n, m, i) == i \in 1..Len(l) /\ i + 1 \in 1..Len(l) /\ l[i] = n /\ m = l[i + 1]

(* The element of a list that follows one that is not the last. *)
LEMMA NextInList ==
    ASSUME NEW l, NEW n, NEW m, IsSeqn(l), Distinct(l), In(n, l), l[Len(l)] # n,
           m = l[1 + CHOOSE i \in DOMAIN l : l[i] = n]
    PROVE  \E i : Follows(l, n, m, i)
<1>1. PICK N : N = Len(l) /\ N \in Nat /\ DOMAIN l = 1..N
  BY ONLY IsSeqn(l), SeqnFacts
<1>2. PICK i : i = CHOOSE j \in DOMAIN l : l[j] = n
  OBVIOUS
<1>3. i \in 1..N /\ l[i] = n
  BY ONLY <1>1, <1>2, In(n, l) DEF In
<1>4. i # N
  BY ONLY <1>1, <1>3, l[Len(l)] # n
<1>5. i + 1 \in 1..N /\ 1 + i = i + 1
  BY ONLY <1>1, <1>3, <1>4
<1>6. m = l[i + 1]
  BY ONLY <1>2, <1>5, m = l[1 + CHOOSE j \in DOMAIN l : l[j] = n]
<1>7. Follows(l, n, m, i)
  BY ONLY <1>1, <1>3, <1>5, <1>6 DEF Follows
<1> QED BY ONLY <1>7

LEMMA MoveWalks == ASSUME DtInv, DevicesInv, Move PROVE DevicesInv'
<1>1. /\ fate = "ok" /\ pc = "enumerate" /\ dir = "handlers" /\ pc' = pc /\ T' = T
      /\ calls' = <<>> /\ UNCHANGED <<visited, devices, uarts, devlive, printed, depth>>
  BY ONLY Move DEF Move, Main
<1>2. Walked /\ Enumerating
  BY ONLY <1>1, DevicesInv DEF DevicesInv, WalkPcs
<1>3. Walked'
  BY ONLY <1>1, <1>2, StillWalked
<1>4. Links(Nodes, T.parent, T.children)
  BY ONLY <1>1, DtInv, WalkBasics DEF MainPcs
<1>5. PICK D, p, c : D = Nodes /\ p = T.parent /\ c = T.children
  OBVIOUS
<1>6. PICK A, n, v : /\ n = node /\ v = visited /\ Along(D, p, c, n, "handlers", v, A)
                     /\ Sofar(D, p, c, n, "handlers", v, A)
  BY ONLY <1>1, <1>2, <1>5 DEF Enumerating
<1>7. Links(D, p, c)
  BY ONLY <1>4, <1>5
<1>7a. n \in A /\ p[n] # NULL /\ p[n] \in D /\ In(n, v)
  BY ONLY <1>6 DEF Along, Path
<1>8. CASE IsLast(node) /\ node' = T.parent[node] /\ dir' = "up"
  <2>1. PICK m, d, B : m = p[n] /\ node' = m /\ d = "up" /\ dir' = d /\ B = A \ {n}
    BY ONLY <1>5, <1>6, <1>8
  <2>2. Along(D, p, c, m, "up", v, B)
    BY ONLY <1>6, <1>7, <2>1, AlongParent
  <2>2a. PICK l : l = c[m] /\ l[Len(l)] = n
    BY ONLY <1>5, <1>6, <1>8, <2>1 DEF IsLast, Last
  <2>2b. m # NULL /\ m \in D
    BY ONLY <1>7a, <2>1
  <2>2c. Sofar(D, p, c, m, "up", v, B)
    BY ONLY <1>6, <1>7, <1>7a, <2>1, <2>2a, <2>2b, SofarParent
  <2>3. /\ Along(Nodes, T.parent, T.children, m, d, v, B)
        /\ Sofar(Nodes, T.parent, T.children, m, d, v, B)
    BY ONLY <1>5, <2>1, <2>2, <2>2c
  <2> QED BY ONLY <1>1, <1>2, <1>3, <1>6, <2>1, <2>3, WalksOn
<1>9. CASE ~IsLast(node) /\ node' = NextSibling(node) /\ dir' = "down"
  <2>1. PICK q, l, m : q = p[n] /\ l = c[q] /\ m = l[1 + CHOOSE i \in DOMAIN l : l[i] = n]
                       /\ node' = m
    BY ONLY <1>5, <1>6, <1>9 DEF NextSibling
  <2>2. l[Len(l)] # n
    BY ONLY <1>5, <1>6, <1>9, <2>1 DEF IsLast, Last
  <2>3. n \in D /\ (q = NULL \/ q \in D) /\ q # NULL
    BY ONLY <1>6, <2>1 DEF Along, Path
  <2>4. IsSeqn(l) /\ Distinct(l) /\ \A x : In(x, l) <=> (x \in D /\ p[x] = q)
    BY ONLY <1>7, <2>1, <2>3 DEF Links, Kids
  <2>5. In(n, l)
    BY ONLY <2>1, <2>3, <2>4
  <2>6. PICK i : Follows(l, n, m, i)
    BY ONLY <2>1, <2>2, <2>4, <2>5, NextInList
  <2>7. PICK B, d : B = (A \ {n}) \cup {m} /\ d = "down" /\ dir' = d
    BY ONLY <1>9
  <2>8. l = c[p[n]] /\ i \in 1..Len(l) /\ i + 1 \in 1..Len(l) /\ l[i] = n /\ m = l[i + 1]
    BY ONLY <2>1, <2>6 DEF Follows
  <2>9. Along(D, p, c, m, "down", v, B)
    BY ONLY <1>6, <1>7, <2>7, <2>8, AlongSibling
  <2>9a. Sofar(D, p, c, m, "down", v, B)
    BY ONLY <1>6, <1>7, <1>7a, <2>7, <2>8, SofarSibling
  <2>10. /\ Along(Nodes, T.parent, T.children, m, d, v, B)
         /\ Sofar(Nodes, T.parent, T.children, m, d, v, B)
    BY ONLY <1>5, <2>7, <2>9, <2>9a
  <2>11. d # "handlers" /\ dir' = d /\ node' = m
    BY ONLY <2>1, <2>7
  <2>12. visited' = v /\ T' = T /\ printed' = printed /\ depth' = depth /\ pc' = "enumerate"
    BY ONLY <1>1, <1>6
  <2> QED BY ONLY <1>2, <1>3, <2>10, <2>11, <2>12, WalksOn
<1>10. \/ IsLast(node) /\ node' = T.parent[node] /\ dir' = "up"
       \/ ~IsLast(node) /\ node' = NextSibling(node) /\ dir' = "down"
  BY ONLY Move DEF Move
<1> QED BY ONLY <1>8, <1>9, <1>10

(* The handler adds a device for the node, or none. *)
LEMMA CallHandlerWalks == ASSUME DtInv, DevicesInv, CallHandler PROVE DevicesInv'
<1>1. /\ fate = "ok" /\ pc = "enumerate" /\ dir = "handlers" /\ calls # <<>>
      /\ UNCHANGED <<dir, visited, printed, depth>>
  BY ONLY CallHandler DEF CallHandler, Main
<1>2. Walked /\ Enumerating
  BY ONLY <1>1, DevicesInv DEF DevicesInv, WalkPcs
<1>3. ~In(node, devices)
  BY ONLY <1>1, <1>2 DEF Enumerating
<1>4. PICK A, n, d, v : /\ n = node /\ d = dir /\ v = visited
                        /\ Along(Nodes, T.parent, T.children, n, d, v, A)
                        /\ Sofar(Nodes, T.parent, T.children, n, d, v, A)
  BY ONLY <1>2 DEF Enumerating
<1>5. In(n, v)
  BY ONLY <1>1, <1>4 DEF Along
<1>6. CASE fate' # "ok"
  BY ONLY <1>6, AfterFate
<1>7. CASE UNCHANGED <<dtvars, devices, uarts, devlive>>
  <2>1. T' = T /\ node' = node /\ pc' = pc
    BY ONLY <1>7 DEF dtvars
  <2>2. Walked'
    BY ONLY <1>1, <1>2, <1>7, <2>1, StillWalked
  <2>3. ~In(n, devices')
    BY ONLY <1>3, <1>4, <1>7
  <2> QED BY ONLY <1>1, <1>2, <1>4, <2>1, <2>2, <2>3, WalksOn
<1>8. CASE /\ UNCHANGED dtvars /\ devices' = Append(devices, node)
           /\ uarts' = uarts \/ uarts' = Append(uarts, node)
           /\ devlive' = devlive \cup DeviceObjects(node) /\ calls' = <<>>
  <2>1. T' = T /\ node' = node /\ pc' = pc
    BY ONLY <1>8 DEF dtvars
  <2>2. PICK dv, us, L, ew, ut, M : /\ dv = devices /\ us = uarts /\ L = devlive
                                   /\ ew = devices' /\ ut = uarts' /\ M = devlive'
    OBVIOUS
  <2>3. /\ Accounted(dv, us, L) /\ IsSeqn(v) /\ (\A x : In(x, v) => x \in Nodes)
        /\ \A x : In(x, dv) => In(x, v)
    BY ONLY <1>2, <1>4, <2>2 DEF Walked
  <2>4. /\ ew = Append(dv, n) /\ M = L \cup DeviceObjects(n) /\ ~In(n, dv)
        /\ (ut = us \/ ut = Append(us, n))
    BY ONLY <1>3, <1>4, <1>8, <2>2
  <2>5. Accounted(ew, ut, M)
    BY ONLY <2>3, <2>4, DeviceAdded
  <2>6. \A x : In(x, ew) => (In(x, dv) \/ x = n)
    BY ONLY <2>3, <2>4, AppendedIn DEF Accounted
  <2>7. Nodes' = Nodes /\ visited' = v
    BY ONLY <1>1, <1>4, <2>1 DEF Nodes
  <2>8. Left(Nodes, T.parent, visited)'
    BY ONLY <1>1, <1>2, <2>1, <2>7 DEF Walked
  <2>9. Walked'
    BY ONLY <1>5, <2>2, <2>3, <2>5, <2>6, <2>7, <2>8 DEF Walked
  <2> QED BY ONLY <1>1, <1>2, <1>4, <1>8, <2>1, <2>9, WalksOn
<1>9. /\ HandlerFailed => UNCHANGED <<dtvars, devices, uarts>>
      /\ \A u : HandlerSucceeded(u) =>
            \/ fate' # "ok"
            \/ /\ UNCHANGED dtvars /\ devices' = Append(devices, node) /\ calls' = <<>>
               /\ uarts' = uarts \/ uarts' = Append(uarts, node)
  BY DEF HandlerFailed, HandlerSucceeded, Panic
<1>10. ASSUME NEW got, got \subseteq DeviceObjects(node), HandlerFailed,
              devlive' = (devlive \cup got) \ DeviceUndo(got)
       PROVE  DevicesInv'
  <2>1. PICK dv, us, L, M : dv = devices /\ us = uarts /\ L = devlive /\ M = devlive'
    OBVIOUS
  <2>2. Accounted(dv, us, L) /\ ~In(n, dv) /\ got \subseteq DeviceObjects(n)
        /\ M = (L \cup got) \ got
    BY ONLY <1>2, <1>3, <1>4, <1>10, <2>1 DEF Walked, DeviceUndo
  <2>3. M = L
    BY ONLY <2>2, DeviceFailed
  <2> QED BY ONLY <1>7, <1>9, <1>10, <2>1, <2>3
<1>11. ASSUME ns16550a_enumerate_dt PROVE DevicesInv'
  <2>1. \/ fate' # "ok"
        \/ HandlerFailed /\ UNCHANGED devlive
        \/ HandlerSucceeded(TRUE) /\ devlive' = devlive \cup DeviceObjects(node)
        \/ \E got : /\ got \subseteq DeviceObjects(node) /\ HandlerFailed
                    /\ devlive' = (devlive \cup got) \ DeviceUndo(got)
    <3>1. PICK reg, all : reg = devicetree_reg(T, node, 0) /\ all = DeviceObjects(node)
      OBVIOUS
    <3>2. Panic => fate' # "ok"
      BY DEF Panic
    <3>3. \/ fate' # "ok"
          \/ HandlerFailed /\ UNCHANGED devlive
          \/ \E got \in SUBSET all :
                IF got = all THEN HandlerSucceeded(TRUE) /\ devlive' = devlive \cup got
                ELSE HandlerFailed /\ devlive' = (devlive \cup got) \ DeviceUndo(got)
      BY ONLY <1>11, <3>1, <3>2 DEF ns16550a_enumerate_dt
    <3> QED BY ONLY <3>1, <3>3
  <2> QED BY ONLY <1>6, <1>7, <1>8, <1>9, <1>10, <2>1
<1> QED BY ONLY <1>6, <1>7, <1>8, <1>9, <1>11, CallHandler DEF CallHandler

LEMMA EnumerateEndWalks == ASSUME DtInv, DevicesInv, EnumerateEnd PROVE DevicesInv'
<1>1. /\ fate = "ok" /\ pc = "enumerate" /\ pc' = "print" /\ T' = T /\ node' = NULL
      /\ dir = "up" /\ T.parent[node] = NULL
      /\ UNCHANGED <<visited, devices, uarts, devlive, printed, depth>>
  BY ONLY EnumerateEnd DEF EnumerateEnd, Main, Goto, bootvars
<1>2. Walked /\ Enumerating
  BY ONLY <1>1, DevicesInv DEF DevicesInv, WalkPcs
<1>3. Walked'
  BY ONLY <1>1, <1>2, StillWalked
<1>4. Printing'
  BY ONLY <1>1, <1>2 DEF Enumerating, Printing
<1>5. AllLeft
  <2>1. PICK D, p, c, n, v : D = Nodes /\ p = T.parent /\ c = T.children /\ n = node /\ v = visited
    OBVIOUS
  <2>2. PICK A : Along(D, p, c, n, "up", v, A) /\ Sofar(D, p, c, n, "up", v, A)
    BY ONLY <1>1, <1>2, <2>1 DEF Enumerating
  <2>3. n \in D
    BY ONLY <2>2 DEF Along, Path
  <2>4. Links(D, p, c)
    BY ONLY <1>1, <2>1, DtInv, WalkBasics DEF MainPcs
  <2>5. Left(D, p, v) /\ p[n] = NULL
    BY ONLY <1>1, <1>2, <2>1 DEF Walked
  <2>6. \A x \in D : p[x] # NULL => In(x, v)
    BY ONLY <2>2, <2>3, <2>4, <2>5, AllAreLeft
  <2> QED BY ONLY <2>1, <2>6 DEF AllLeft
<1>6. AllLeft'
  BY ONLY <1>1, <1>5 DEF AllLeft, Nodes
<1> QED BY ONLY <1>1, <1>3, <1>4, <1>6 DEF DevicesInv, WalkPcs

(* One line more; k of them are then there. *)
LEMMA PrintedLine ==
    ASSUME NEW k, NEW m, k \in 1..Len(devices), m = devices[k], m # NULL,
           node' = m, depth' = 2, devices' = devices, PrintedUpTo(printed', devices, k)
    PROVE  Printing'
<1>1. PICK dv, pr : dv = devices /\ dv = devices' /\ pr = printed'
  OBVIOUS
<1>2. k \in 1..Len(dv) /\ m = dv[k] /\ PrintedUpTo(pr, dv, k)
  BY ONLY <1>1, k \in 1..Len(devices), m = devices[k], PrintedUpTo(printed', devices, k)
<1>3. \E i \in 1..Len(dv) : m = dv[i] /\ PrintedUpTo(pr, dv, i)
  BY ONLY <1>2
<1> QED BY ONLY <1>1, <1>3, m # NULL, node' = m, depth' = 2 DEF Printing

LEMMA PrintDeviceWalks == ASSUME DtInv, DevicesInv, PrintDevice PROVE DevicesInv'
<1>1. fate = "ok" /\ pc = "print" /\ UNCHANGED <<visited, devices, uarts, devlive>>
  BY ONLY PrintDevice DEF PrintDevice, Main
<1>2. Walked /\ Printing /\ AllLeft
  BY ONLY <1>1, DevicesInv DEF DevicesInv, WalkPcs
<1>3. NULL \notin Nodes
  BY ONLY <1>1, DtInv, WalkBasics DEF MainPcs
<1>4. CASE fate' # "ok"
  BY ONLY <1>4, AfterFate
<1>5. Panic => fate' # "ok"
  BY DEF Panic
<1>6. \/ fate' # "ok"
      \/ /\ printed' = Append(printed, [device |-> node, depth |-> depth]) /\ T' = T
         /\ \/ /\ node = NULL /\ devices # <<>> /\ pc' = pc
               /\ node' = Head(devices) /\ depth' = depth + 1
            \/ /\ node # NULL /\ node # Last(devices) /\ pc' = pc
               /\ node' = NextDevice /\ depth' = depth
            \/ /\ pc' = "done" /\ (node = NULL => devices = <<>>)
               /\ node # NULL => node = Last(devices)
  BY ONLY <1>5, PrintDevice DEF PrintDevice, Goto
<1>7. ASSUME printed' = Append(printed, [device |-> node, depth |-> depth]), T' = T
      PROVE  Walked' /\ AllLeft'
  <2>1. Walked'
    BY ONLY <1>1, <1>2, <1>7, StillWalked
  <2>2. AllLeft'
    BY ONLY <1>1, <1>2, <1>7 DEF AllLeft, Nodes
  <2> QED BY ONLY <2>1, <2>2
<1>8. PICK dv, pr, qr, e, L : /\ dv = devices /\ pr = printed /\ qr = printed'
                              /\ e = [device |-> node, depth |-> depth] /\ L = Len(dv)
  OBVIOUS
<1>9. IsSeqn(dv) /\ Distinct(dv) /\ \A x : In(x, dv) => x # NULL
  BY ONLY <1>2, <1>3, <1>8 DEF Walked, Accounted
<1>10. L \in Nat /\ (dv = <<>> <=> L = 0) /\ L = Len(dv)
  BY ONLY <1>8, <1>9, SeqnFacts
<1>11. ASSUME node = NULL, printed' = Append(printed, [device |-> node, depth |-> depth])
       PROVE  PrintedUpTo(qr, dv, 1) /\ depth = 1
  <2>1. pr = <<>> /\ depth = 1
    BY ONLY <1>2, <1>8, <1>11 DEF Printing
  <2>2. PICK z, o : z = 0 /\ o = z + 1 /\ o = 1 /\ z \in Nat
    OBVIOUS
  <2>3. PrintedUpTo(pr, dv, z)
    BY ONLY <2>1, <2>2, PrintedNone
  <2>4. e = LineOf(dv, o)
    BY ONLY <1>8, <1>11, <2>1, <2>2 DEF LineOf
  <2>5. e = LineOf(dv, z + 1) /\ qr = Append(pr, e)
    BY ONLY <1>8, <1>11, <2>2, <2>4
  <2>6. PrintedUpTo(qr, dv, z + 1)
    BY ONLY <2>2, <2>3, <2>5, PrintedNext
  <2> QED BY ONLY <2>1, <2>2, <2>6
<1>12. ASSUME node # NULL, printed' = Append(printed, [device |-> node, depth |-> depth])
       PROVE  \E i, k : /\ i \in 1..L /\ k = i + 1 /\ dv[i] = node /\ depth = 2
                        /\ PrintedUpTo(qr, dv, k)
  <2>1. depth = 2 /\ \E i \in 1..L : node = dv[i] /\ PrintedUpTo(pr, dv, i)
    BY ONLY <1>2, <1>8, <1>12 DEF Printing
  <2>2. PICK i : i \in 1..L /\ node = dv[i] /\ PrintedUpTo(pr, dv, i)
    BY ONLY <2>1
  <2>3. i \in Nat /\ i + 1 # 1 /\ (i + 1) - 1 = i
    BY ONLY <1>10, <2>2
  <2>4. e = LineOf(dv, i + 1)
    BY ONLY <1>8, <2>1, <2>2, <2>3 DEF LineOf
  <2>5. qr = Append(pr, e)
    BY ONLY <1>8, <1>12
  <2>6. PrintedUpTo(qr, dv, i + 1)
    BY ONLY <2>2, <2>3, <2>4, <2>5, PrintedNext
  <2>7. PICK k : k = i + 1
    OBVIOUS
  <2>8. PrintedUpTo(qr, dv, k) /\ dv[i] = node
    BY ONLY <2>2, <2>6, <2>7
  <2> QED BY ONLY <2>1, <2>2, <2>7, <2>8
<1>13. CASE /\ printed' = Append(printed, [device |-> node, depth |-> depth]) /\ T' = T
            /\ node = NULL /\ devices # <<>> /\ pc' = pc
            /\ node' = Head(devices) /\ depth' = depth + 1
  <2>1. PrintedUpTo(qr, dv, 1) /\ depth' = 2
    BY ONLY <1>11, <1>13
  <2>2. PICK S : dv \in Seq(S)
    BY ONLY <1>9 DEF IsSeqn
  <2>3. Head(dv) = dv[1] /\ 1 \in 1..Len(dv)
    BY ONLY <1>8, <1>13, <2>2
  <2>4. PICK m, k : k = 1 /\ m = dv[k] /\ node' = m /\ k \in 1..Len(dv)
    BY ONLY <1>8, <1>13, <2>3
  <2>5. m # NULL
    BY ONLY <1>9, <2>4 DEF In
  <2>6. k \in 1..Len(devices) /\ m = devices[k] /\ PrintedUpTo(printed', devices, k)
    BY ONLY <1>8, <2>1, <2>4
  <2>7. Printing'
    BY ONLY <1>1, <2>1, <2>4, <2>5, <2>6, PrintedLine
  <2> QED BY ONLY <1>1, <1>7, <1>13, <2>7 DEF DevicesInv, WalkPcs
<1>14. CASE /\ printed' = Append(printed, [device |-> node, depth |-> depth]) /\ T' = T
            /\ node # NULL /\ node # Last(devices) /\ pc' = pc
            /\ node' = NextDevice /\ depth' = depth
  <2>1. PICK i, k : /\ i \in 1..L /\ k = i + 1 /\ dv[i] = node /\ depth = 2
                    /\ PrintedUpTo(qr, dv, k)
    BY ONLY <1>12, <1>14
  <2>2. PICK n, m : n = node /\ m = dv[1 + CHOOSE j \in DOMAIN dv : dv[j] = n] /\ node' = m
    BY ONLY <1>8, <1>14 DEF NextDevice
  <2>3. In(n, dv) /\ dv[Len(dv)] # n
    BY ONLY <1>8, <1>14, <2>1, <2>2 DEF In, Last
  <2>4. PICK j : Follows(dv, n, m, j)
    BY ONLY <1>9, <2>2, <2>3, NextInList
  <2>5. j \in 1..Len(dv) /\ j + 1 \in 1..Len(dv) /\ dv[j] = n /\ m = dv[j + 1]
    BY ONLY <2>4 DEF Follows
  <2>6. j = i
    BY ONLY <1>8, <1>9, <2>1, <2>2, <2>5 DEF Distinct
  <2>7. k \in 1..Len(dv) /\ m = dv[k]
    BY ONLY <2>1, <2>5, <2>6
  <2>8. m # NULL
    BY ONLY <1>9, <2>7 DEF In
  <2>9. k \in 1..Len(devices) /\ m = devices[k] /\ PrintedUpTo(printed', devices, k)
    BY ONLY <1>8, <2>1, <2>7
  <2>10. Printing'
    BY ONLY <1>1, <1>14, <2>1, <2>2, <2>8, <2>9, PrintedLine
  <2> QED BY ONLY <1>1, <1>7, <1>14, <2>10 DEF DevicesInv, WalkPcs
<1>15. CASE /\ printed' = Append(printed, [device |-> node, depth |-> depth]) /\ T' = T
            /\ pc' = "done" /\ (node = NULL => devices = <<>>)
            /\ node # NULL => node = Last(devices)
  <2>1. PrintedUpTo(qr, dv, L + 1)
    <3>1. CASE node = NULL
      <4>1. L + 1 = 1
        BY ONLY <1>8, <1>10, <1>15, <3>1
      <4> QED BY ONLY <1>11, <1>15, <3>1, <4>1
    <3>2. CASE node # NULL
      <4>1. PICK i, k : /\ i \in 1..L /\ k = i + 1 /\ dv[i] = node
                        /\ PrintedUpTo(qr, dv, k)
        BY ONLY <1>12, <1>15, <3>2
      <4>2. dv[Len(dv)] = node
        BY ONLY <1>8, <1>15, <3>2 DEF Last
      <4>3. L \in 1..L
        BY ONLY <1>10, <4>1
      <4>4. i = L
        BY ONLY <1>9, <1>10, <4>1, <4>2, <4>3 DEF Distinct
      <4> QED BY ONLY <4>1, <4>4
    <3> QED BY ONLY <3>1, <3>2
  <2>2. PrintedUpTo(printed, devices, Len(devices) + 1)'
    BY ONLY <1>1, <1>8, <2>1
  <2> QED BY ONLY <1>7, <1>15, <2>2 DEF DevicesInv, WalkPcs
<1> QED BY ONLY <1>4, <1>6, <1>13, <1>14, <1>15

LEMMA DevicesBoot == ASSUME DtInv, DevicesInv, Boot PROVE DevicesInv'
BY ONLY DtInv, DevicesInv, Boot, ParseWalks, AddEntropyWalks, StartInitializersWalks,
        RunInitializerWalks, StartEnumerateWalks, DescendWalks, LeaveWalks, CallHandlerWalks,
        MoveWalks, EnumerateEndWalks, PrintDeviceWalks DEF Boot

LEMMA DevicesStutter == ASSUME DevicesInv, UNCHANGED vars PROVE DevicesInv'
<1>1. UNCHANGED <<T, node, pc, fate, dir, calls, devices, uarts, devlive, visited, printed, depth>>
  BY DEF vars, dtvars, bootvars
<1>2. Nodes' = Nodes
  BY ONLY <1>1 DEF Nodes
<1> QED BY ONLY <1>1, <1>2, DevicesInv 
     DEF DevicesInv, Nothing, Walked, Enumerating, Printing, AllLeft

LEMMA DevicesAlways == Spec => [](DtInv /\ DevicesInv)
<1>1. Init => DtInv /\ DevicesInv
  BY DtStart, DevicesStart DEF Init
<1>2. DtInv /\ DevicesInv /\ [Next]_vars => (DtInv /\ DevicesInv)'
  <2> SUFFICES ASSUME DtInv, DevicesInv, [Next]_vars PROVE DtInv' /\ DevicesInv'
    OBVIOUS
  <2>1. Boot \/ UNCHANGED vars
    BY DEF Next, Halt
  <2> QED BY ONLY <2>1, DtInv, DevicesInv, BootStep, DtStutter, DevicesBoot, DevicesStutter
<1> QED BY <1>1, <1>2, PTL DEF Spec

LEMMA DevicesHold == ASSUME DevicesInv PROVE DevicesAreAccountedFor
<1> SUFFICES ASSUME fate = "ok" PROVE DevicesAreAccountedFor
  BY DEF DevicesAreAccountedFor
<1>1. Accounted(devices, uarts, devlive)
  <2>1. CASE pc \in WalkPcs
    BY ONLY <2>1, DevicesInv, fate = "ok" DEF DevicesInv, Walked
  <2>2. CASE pc \notin WalkPcs
    <3>1. devices = <<>> /\ uarts = <<>> /\ devlive = {}
      BY ONLY <2>2, DevicesInv, fate = "ok" DEF DevicesInv, Nothing
    <3> QED BY ONLY <3>1, NoDevices
  <2> QED BY ONLY <2>1, <2>2
<1>2. PICK dv, us, L : dv = devices /\ us = uarts /\ L = devlive
  OBVIOUS
<1>3. /\ IsSeqn(dv) /\ Distinct(dv) /\ IsSeqn(us) /\ Distinct(us)
      /\ \A x : In(x, us) => In(x, dv)
      /\ \A o : o \in L <=> \E x : In(x, dv) /\ o \in DeviceObjects(x)
  BY ONLY <1>1, <1>2 DEF Accounted
<1>4. /\ \A x : In(x, dv) <=> x \in Range(dv)
      /\ \A x : In(x, us) <=> x \in Range(us)
  BY ONLY <1>3, InRange
<1>5. L = UNION {DeviceObjects(n) : n \in Range(dv)}
  <2>1. PICK U, R : R = Range(dv) /\ U = UNION {DeviceObjects(n) : n \in R}
    OBVIOUS
  <2>2. \A o : o \in U <=> \E n \in R : o \in DeviceObjects(n)
    BY ONLY <2>1
  <2>3. \A o : o \in L <=> o \in U
    BY ONLY <1>3, <1>4, <2>1, <2>2
  <2>4. L = U
    BY ONLY <2>3
  <2> QED BY ONLY <2>1, <2>4
<1>6. IsInjective(dv) /\ IsInjective(us)
  BY ONLY <1>3, SeqnFacts DEF IsInjective, Distinct
<1>7. Range(us) \subseteq Range(dv)
  BY ONLY <1>3, <1>4
<1>8. ASSUME pc = "done"
      PROVE  printed = <<[device |-> NULL, depth |-> 1]>>
                       \o [i \in DOMAIN devices |-> [device |-> devices[i], depth |-> 2]]
  <2>1. PICK pr : pr = printed
    OBVIOUS
  <2>2. PrintedUpTo(pr, dv, Len(dv) + 1)
    BY ONLY <1>2, <1>8, <2>1, DevicesInv, fate = "ok" DEF DevicesInv
  <2>3. pr = <<[device |-> NULL, depth |-> 1]>>
             \o [i \in DOMAIN dv |-> [device |-> dv[i], depth |-> 2]]
    BY ONLY <1>3, <2>2, PrintedAll
  <2> QED BY ONLY <1>2, <2>1, <2>3
<1> QED BY ONLY <1>2, <1>5, <1>6, <1>7, <1>8 DEF DevicesAreAccountedFor

(* A handler that fails leaves nothing behind and one that succeeds adds   *)
(* its node once: the objects are those of the children of root_device,    *)
(* the UARTs are among them, and print_devices prints each of them once.   *)
THEOREM DevicesAreAccountedForTheorem == Spec => []DevicesAreAccountedFor
<1>1. DevicesInv => DevicesAreAccountedFor
  BY DevicesHold
<1> QED BY <1>1, DevicesAlways, PTL

LEMMA LeavesHold == ASSUME DtInv, DevicesInv PROVE LeavesEveryNode
<1> SUFFICES ASSUME fate = "ok", pc \in {"enumerate", "print", "done"} PROVE LeavesEveryNode
  BY DEF LeavesEveryNode
<1>1. /\ Walked /\ (pc \in {"print", "done"} => AllLeft)
      /\ Links(Nodes, T.parent, T.children) /\ Nodes # {} /\ TreeInv(T)
  BY ONLY DtInv, DevicesInv, fate = "ok", pc \in {"enumerate", "print", "done"}, WalkBasics
     DEF DevicesInv, WalkPcs, MainPcs, DtInv
<1>2. PICK D, p, c, v, r : /\ D = Nodes /\ p = T.parent /\ c = T.children /\ v = visited
                           /\ r = root /\ r \in D /\ p[r] = NULL
  BY ONLY <1>1, RootFacts
<1>3. IsSeqn(v) /\ (\A x : In(x, v) => x \in D) /\ Left(D, p, v) /\ Links(D, p, c)
  BY ONLY <1>1, <1>2 DEF Walked
<1>4. /\ Distinct(v) /\ \A x : In(x, v) => p[x] # NULL
      /\ \A i \in 1..Len(v) : \A y \in D :
            p[y] = v[i] => \E j \in 1..Len(v) : j < i /\ v[j] = y
  BY ONLY <1>3 DEF Left
<1>5. DOMAIN v = 1..Len(v) /\ Len(v) \in Nat /\ \A x : In(x, v) <=> x \in Range(v)
  BY ONLY <1>3, SeqnFacts, InRange
<1>6. IsInjective(v)
  BY ONLY <1>4, <1>5 DEF IsInjective, Distinct
<1>7. \A x \in D : x # r <=> p[x] # NULL
  BY ONLY <1>2, <1>3 DEF Links, OneRoot
<1>8. Range(v) \subseteq D
  BY ONLY <1>3, <1>5
<1>9. ASSUME NEW i \in DOMAIN v, NEW y \in Range(c[v[i]]) PROVE \E j \in 1..(i - 1) : v[j] = y
  <2>1. v[i] \in D
    BY ONLY <1>3, <1>5, <1>9 DEF In
  <2>2. IsSeqn(c[v[i]]) /\ \A x : In(x, c[v[i]]) <=> (x \in D /\ p[x] = v[i])
    BY ONLY <1>3, <2>1 DEF Links, Kids
  <2>3. PICK l : l = c[v[i]] /\ IsSeqn(l) /\ y \in Range(l)
    BY ONLY <1>9, <2>2
  <2>4. y \in D /\ p[y] = v[i]
    BY ONLY <2>2, <2>3, InRange
  <2>5. PICK j \in 1..Len(v) : j < i /\ v[j] = y
    BY ONLY <1>4, <1>5, <1>9, <2>4
  <2>6. j \in 1..(i - 1)
    BY ONLY <1>5, <1>9, <2>5
  <2> QED BY ONLY <2>5, <2>6
<1>10. ASSUME pc # "enumerate" PROVE D \ {r} \subseteq Range(v)
  <2>1. AllLeft
    BY ONLY <1>1, <1>10, pc \in {"enumerate", "print", "done"}
  <2>2. \A x \in D : p[x] # NULL => In(x, v)
    BY ONLY <1>2, <2>1 DEF AllLeft
  <2> QED BY ONLY <1>5, <1>7, <2>2
<1> QED BY ONLY <1>2, <1>6, <1>8, <1>9, <1>10 DEF LeavesEveryNode

(* The walk of devicetree_enumerate, which has no stack, leaves every node *)
(* below the root once, and after all its children, whatever the tree.     *)
THEOREM LeavesEveryNodeTheorem == Spec => []LeavesEveryNode
<1>1. DtInv /\ DevicesInv => LeavesEveryNode
  BY LeavesHold
<1> QED BY <1>1, DevicesAlways, PTL
=============================================================================
