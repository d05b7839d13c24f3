------------------------ MODULE PhysicalAllocProofs -------------------------
(***************************************************************************)
(* The proofs about the physical memory allocator.  In order: quotients    *)
(* and frames; chains of headers and the runs behind them, what a push, a  *)
(* pop and the caller's overwriting do to them, and that Reached and       *)
(* FreeFrames compute them; chunks; the array of reservations; what of the *)
(* RAM has been found at each point of the boot; the type invariant, for   *)
(* every board; the invariant, the free lists and the refinement of        *)
(* FrameAllocator, for every board that is supported.                      *)
(***************************************************************************)
EXTENDS PhysicalAlloc, FiniteSetTheorems, NaturalsInduction, TLAPS

(* Quotients: what \div and % give, and that nothing else is a quotient.   *)
LEMMA DivFacts ==
    ASSUME NEW a \in Nat, NEW b \in Nat, b > 0
    PROVE  /\ a \div b \in Nat /\ a % b \in 0..(b - 1)
           /\ a = b * (a \div b) + (a % b)
OBVIOUS

LEMMA DivUnique ==
    ASSUME NEW a \in Nat, NEW b \in Nat, b > 0, NEW q \in Nat, NEW r \in 0..(b - 1),
           a = b * q + r
    PROVE  a \div b = q /\ a % b = r
<1>1. a \div b \in Nat /\ a % b \in 0..(b - 1) /\ a = b * (a \div b) + (a % b)
  BY DivFacts
<1>2. PICK x, y : x = a \div b /\ y = a % b
  OBVIOUS
<1>3. x \in Nat /\ y \in 0..(b - 1) /\ b * q + r = b * x + y
  BY <1>1, <1>2
<1>4. ASSUME NEW u \in Nat, NEW v \in Nat, u < v PROVE b * u + b <= b * v
  <2>1. b * (v - u) >= b
    BY <1>4
  <2>2. b * (v - u) = b * v - b * u
    BY <1>4
  <2> QED BY <2>1, <2>2
<1>5. ~(q < x) /\ ~(x < q)
  BY <1>3, <1>4
<1> QED BY <1>2, <1>3, <1>5

(* Frames are the multiples of PageSize in the address space. *)
Aligned(a) == \E q \in Nat : a = PageSize * q

LEMMA FrameFacts ==
    /\ PageSize \in Nat /\ PageSize > 0 /\ Top \in Nat
    /\ \A f : f \in Frame <=> f \in Nat /\ f <= Top /\ Aligned(f)
    /\ 0 \in Frame /\ Top \in Frame /\ Limit \in Frame /\ Limit > 0
<1>1. PageSize \in Nat /\ PageSize > 0 /\ Top \in Nat /\ Top \in Frame /\ Limit \in Frame /\ Limit # 0
  BY PhysicalConstants
<1>2. ASSUME NEW f, f \in Nat PROVE f % PageSize = 0 <=> Aligned(f)
  <2>1. ASSUME f % PageSize = 0 PROVE Aligned(f)
    <3>1. f \div PageSize \in Nat /\ f = PageSize * (f \div PageSize) + (f % PageSize)
      BY <1>1, <1>2, DivFacts
    <3>2. f = PageSize * (f \div PageSize)
      BY <1>1, <1>2, <2>1, <3>1
    <3> QED BY <3>1, <3>2 DEF Aligned
  <2>2. ASSUME Aligned(f) PROVE f % PageSize = 0
    <3>1. PICK q \in Nat : f = PageSize * q
      BY <2>2 DEF Aligned
    <3>2. f = PageSize * q + 0 /\ 0 \in 0..(PageSize - 1)
      BY <1>1, <1>2, <3>1
    <3> QED BY <1>1, <1>2, <3>2, DivUnique
  <2> QED BY <2>1, <2>2
<1>3. ASSUME NEW f PROVE f \in Frame <=> f \in Nat /\ f <= Top /\ Aligned(f)
  <2>1. f \in Frame <=> f \in Nat /\ f <= Top /\ f % PageSize = 0
    BY <1>1 DEF Frame, Address
  <2> QED BY <1>2, <2>1
<1>4. 0 \in Frame
  <2>1. 0 = PageSize * 0
    BY <1>1
  <2>2. Aligned(0)
    BY <2>1 DEF Aligned
  <2> QED BY <1>1, <1>3, <2>2
<1>5. Limit > 0
  BY <1>1, <1>3
<1> QED BY <1>1, <1>3, <1>4, <1>5

LEMMA Gap ==
    ASSUME NEW f \in Nat, NEW g \in Nat, Aligned(f), Aligned(g), f < g
    PROVE  f + PageSize <= g
<1>1. PICK p \in Nat : f = PageSize * p
  BY DEF Aligned
<1>2. PICK q \in Nat : g = PageSize * q
  BY DEF Aligned
<1>3. PICK b : b = PageSize /\ b \in Nat /\ b > 0
  BY FrameFacts
<1>4. p < q
  <2> SUFFICES ASSUME q <= p PROVE FALSE
    OBVIOUS
  <2>1. b * (p - q) >= 0 /\ b * (p - q) = b * p - b * q
    BY <1>3
  <2> QED BY <1>1, <1>2, <1>3, <2>1
<1>5. b * (q - p) >= b /\ b * (q - p) = b * q - b * p
  BY <1>3, <1>4
<1> QED BY <1>1, <1>2, <1>3, <1>5

LEMMA AddAligned ==
    ASSUME NEW f \in Nat, NEW n \in Nat, Aligned(f)
    PROVE  Aligned(f + PageSize * n) /\ f + PageSize * n \in Nat /\ f + PageSize * n >= f
<1>1. PICK p \in Nat : f = PageSize * p
  BY DEF Aligned
<1>2. PICK b : b = PageSize /\ b \in Nat /\ b > 0
  BY FrameFacts
<1>3. b * p + b * n = b * (p + n) /\ p + n \in Nat /\ b * n >= 0 /\ b * n \in Nat
  BY <1>2
<1>4. Aligned(f + PageSize * n)
  BY <1>1, <1>2, <1>3 DEF Aligned
<1> QED BY <1>2, <1>3, <1>4

(* A run of n frames. *)
LEMMA RunFacts ==
    ASSUME NEW f \in Frame, NEW n \in Nat, f + PageSize * n <= Top
    PROVE  /\ f + PageSize * n \in Frame
           /\ {f + PageSize * k : k \in 0..(n - 1)} = {g \in Frame : f <= g /\ g < f + PageSize * n}
           /\ n > 0 => f + PageSize \in Frame /\ f + PageSize <= f + PageSize * n
           /\ n > 0 => (f + PageSize) + PageSize * (n - 1) = f + PageSize * n
<1>1. f \in Nat /\ f <= Top /\ Aligned(f) /\ Top \in Nat
  BY FrameFacts
<1>2. PICK b : b = PageSize /\ b \in Nat /\ b > 0
  BY FrameFacts
<1>3. f + PageSize * n \in Frame
  BY <1>1, FrameFacts, AddAligned
<1>4. ASSUME NEW k \in Nat, NEW l \in Nat, k < l PROVE b * k + b <= b * l
  <2>1. b * (l - k) >= b /\ b * (l - k) = b * l - b * k
    BY <1>2, <1>4
  <2> QED BY <1>2, <2>1
<1>5. ASSUME NEW k \in 0..(n - 1)
      PROVE  f + PageSize * k \in Frame /\ f <= f + PageSize * k /\ f + PageSize * k < f + PageSize * n
  <2>1. k \in Nat /\ k < n /\ b * k \in Nat /\ b * n \in Nat /\ b * k + b <= b * n
    BY <1>2, <1>4
  <2>2. Aligned(f + PageSize * k) /\ f + PageSize * k \in Nat
    BY <1>1, <2>1, AddAligned
  <2>3. f + PageSize * k <= Top /\ f <= f + PageSize * k /\ f + PageSize * k < f + PageSize * n
    BY <1>1, <1>2, <2>1
  <2> QED BY <2>2, <2>3, FrameFacts
<1>6. ASSUME NEW g \in Frame, f <= g, g < f + PageSize * n
      PROVE  \E k \in 0..(n - 1) : g = f + PageSize * k
  <2>1. PICK p \in Nat : f = PageSize * p
    BY <1>1 DEF Aligned
  <2>2. g \in Nat /\ Aligned(g)
    BY FrameFacts
  <2>3. PICK q \in Nat : g = PageSize * q
    BY <2>2 DEF Aligned
  <2>4. p <= q
    <3> SUFFICES ASSUME q < p PROVE FALSE
      OBVIOUS
    <3>1. b * q + b <= b * p
      BY <1>4
    <3> QED BY <1>2, <1>6, <2>1, <2>3, <3>1
  <2>5. b * (q - p) = b * q - b * p /\ q - p \in Nat
    BY <1>2, <2>4
  <2>6. g = f + PageSize * (q - p)
    BY <1>2, <2>1, <2>3, <2>5
  <2>7. q - p < n
    <3> SUFFICES ASSUME q - p >= n PROVE FALSE
      BY <2>5
    <3>1. b * (q - p) >= b * n
      <4>1. CASE q - p = n
        BY <1>2, <4>1
      <4>2. CASE n < q - p
        <5>1. b * n + b <= b * (q - p)
          BY <1>4, <2>5, <4>2
        <5> QED BY <1>2, <2>5, <5>1
      <4> QED BY <2>5, <4>1, <4>2
    <3>2. b * (q - p) \in Int /\ b * n \in Int
      BY <1>2
    <3> QED BY <1>1, <1>2, <1>6, <2>6, <3>1, <3>2
  <2>8. q - p \in 0..(n - 1)
    BY <2>5, <2>7
  <2> QED BY <2>6, <2>8
<1>7. ASSUME n > 0 PROVE /\ f + PageSize \in Frame /\ f + PageSize <= f + PageSize * n
                         /\ (f + PageSize) + PageSize * (n - 1) = f + PageSize * n
  <2>1. b * n = b + b * (n - 1) /\ b * (n - 1) \in Nat
    BY <1>2, <1>7
  <2>2. Aligned(f + PageSize * 1) /\ PageSize * 1 = PageSize
    BY <1>1, <1>2, AddAligned
  <2>3. f + PageSize <= f + PageSize * n /\ (f + PageSize) + PageSize * (n - 1) = f + PageSize * n
    BY <1>1, <1>2, <2>1
  <2>4. f + PageSize <= Top /\ f + PageSize \in Nat
    <3>1. b * n \in Nat
      BY <1>2
    <3> QED BY <1>1, <1>2, <2>3, <3>1
  <2> QED BY <2>2, <2>3, <2>4, FrameFacts
<1> QED BY <1>3, <1>5, <1>6, <1>7

LEMMA PagesFacts ==
    ASSUME NEW s \in Frame, NEW e \in Frame, s < e
    PROVE  Pages(s, e) \in Nat /\ Pages(s, e) > 0 /\ s + PageSize * Pages(s, e) = e
<1>1. PICK b : b = PageSize /\ b \in Nat /\ b > 0
  BY FrameFacts
<1>2. s \in Nat /\ e \in Nat /\ Aligned(s) /\ Aligned(e)
  BY FrameFacts
<1>3. PICK p \in Nat : s = b * p
  BY <1>1, <1>2 DEF Aligned
<1>4. PICK q \in Nat : e = b * q
  BY <1>1, <1>2 DEF Aligned
<1>5. p < q
  <2> SUFFICES ASSUME q <= p PROVE FALSE
    OBVIOUS
  <2>1. b * (p - q) >= 0 /\ b * (p - q) = b * p - b * q
    BY <1>1
  <2> QED BY <1>1, <1>2, <1>3, <1>4, <2>1
<1>6. PICK d, n : d = e - s /\ n = q - p
  OBVIOUS
<1>7. n \in Nat /\ n > 0 /\ d \in Nat
  BY <1>2, <1>5, <1>6
<1>8. d = b * n + 0
  <2>1. b * (q - p) = b * q - b * p
    BY <1>1, <1>3, <1>4
  <2> QED BY <1>1, <1>2, <1>3, <1>4, <1>6, <2>1
<1>9. d \div b = n
  <2>1. 0 \in 0..(b - 1)
    BY <1>1
  <2> QED BY <1>1, <1>7, <1>8, <2>1, DivUnique
<1>10. Pages(s, e) = n
  BY <1>1, <1>6, <1>9 DEF Pages
<1> QED BY <1>1, <1>2, <1>6, <1>7, <1>8, <1>10

(* Rounding. *)
LEMMA AlignFacts ==
    ASSUME NEW a \in Nat, a <= Top
    PROVE  /\ align_down(a) \in Frame /\ align_down(a) <= a /\ a < align_down(a) + PageSize
           /\ align_up(a) \in Frame /\ a <= align_up(a) /\ align_up(a) < a + PageSize
<1>1. PICK b : b = PageSize /\ b \in Nat /\ b > 0
  BY FrameFacts
<1>2. ASSUME NEW x \in Nat
      PROVE  Aligned(align_down(x)) /\ align_down(x) \in Nat
             /\ align_down(x) <= x /\ x < align_down(x) + PageSize
  <2>1. PICK q, r : q = x \div b /\ r = x % b
    OBVIOUS
  <2>2. q \in Nat /\ r \in 0..(b - 1) /\ x = b * q + r
    BY <1>1, <2>1, DivFacts
  <2>3. align_down(x) = x - r
    BY <1>1, <2>1 DEF align_down
  <2>4. b * q \in Nat
    BY <1>1, <2>2
  <2>5. align_down(x) = PageSize * q
    BY <1>1, <2>2, <2>3, <2>4
  <2> QED BY <1>1, <2>2, <2>3, <2>4, <2>5 DEF Aligned
<1>3. align_down(a) \in Frame /\ align_down(a) <= a /\ a < align_down(a) + PageSize
  BY <1>2, FrameFacts
<1>4. PICK u : u = align_up(a)
  OBVIOUS
<1>5. Aligned(u) /\ u \in Nat /\ a <= u /\ u < a + PageSize
  <2>1. PICK x : x = a + PageSize - 1 /\ x \in Nat
    BY <1>1
  <2>2. u = align_down(x)
    BY <1>4, <2>1 DEF align_up
  <2> QED BY <1>1, <1>2, <2>1, <2>2
<1>6. u <= Top
  <2> SUFFICES ASSUME Top < u PROVE FALSE
    BY <1>5, FrameFacts
  <2>1. Top + PageSize <= u
    BY <1>5, Gap, FrameFacts
  <2> QED BY <1>1, <1>5, <2>1, FrameFacts
<1> QED BY <1>3, <1>4, <1>5, <1>6, FrameFacts

-----------------------------------------------------------------------------
(* Chains.  S are the headers on a list: whoever follows it from its head  *)
(* stays in S, visits all of S, and comes to no header twice.              *)
Lists == {"above", "below"}

PhysType == [mem  : [Frame -> [next : Frame, length : Nat]], head : [Lists -> Frame]]

Closed(P, l, S) == /\ P.head[l] \in S \cup {0}
                   /\ \A f \in S : P.mem[f].next \in S \cup {0}
Least(P, l, S) == \A T \in SUBSET S : Closed(P, l, T) => T = S
OneWay(P, l, S) == /\ \A f \in S : P.mem[f].next # P.head[l]
                   /\ \A f, g \in S : f # g => P.mem[f].next # P.mem[g].next
Chain(P, l, S) == /\ S \in SUBSET Frame /\ 0 \notin S
                  /\ Closed(P, l, S) /\ Least(P, l, S) /\ OneWay(P, l, S)

LEMMA ChainSame ==
    ASSUME NEW P, NEW Q, NEW l, NEW S, Chain(P, l, S), Q.head[l] = P.head[l],
           \A f \in S : Q.mem[f].next = P.mem[f].next
    PROVE  Chain(Q, l, S)
<1>1. ASSUME NEW T \in SUBSET S, Closed(Q, l, T) PROVE T = S
  <2>1. Closed(P, l, T)
    BY <1>1 DEF Closed
  <2> QED BY <2>1 DEF Chain, Least
<1>2. Least(Q, l, S)
  BY <1>1 DEF Least
<1>3. Closed(Q, l, S)
  BY DEF Chain, Closed
<1>4. OneWay(Q, l, S)
  BY DEF Chain, OneWay
<1> QED BY <1>2, <1>3, <1>4 DEF Chain

LEMMA ChainPush ==
    ASSUME NEW P, NEW Q, NEW l, NEW S, NEW s, NEW R,
           Chain(P, l, S), s \in Frame, s # 0, s \notin S, R = S \cup {s},
           Q.head[l] = s, Q.mem[s].next = P.head[l],
           \A f \in S : Q.mem[f].next = P.mem[f].next
    PROVE  Chain(Q, l, R)
<1>1. P.head[l] # s /\ \A f \in S : P.mem[f].next # s
  BY DEF Chain, Closed
<1>2. Closed(Q, l, R)
  BY DEF Chain, Closed
<1>3. ASSUME NEW T \in SUBSET R, Closed(Q, l, T) PROVE T = R
  <2>1. s \in T
    BY <1>3 DEF Closed
  <2>2. PICK U : U = T \ {s}
    OBVIOUS
  <2>3. U \in SUBSET S
    BY <2>2
  <2>4. P.head[l] \in U \cup {0}
    <3>1. Q.mem[s].next \in T \cup {0}
      BY <1>3, <2>1 DEF Closed
    <3> QED BY <1>1, <2>2, <3>1
  <2>5. ASSUME NEW f \in U PROVE P.mem[f].next \in U \cup {0}
    <3>1. Q.mem[f].next \in T \cup {0}
      BY <1>3, <2>2 DEF Closed
    <3>2. f \in S
      BY <2>3
    <3> QED BY <1>1, <2>2, <3>1, <3>2
  <2>6. Closed(P, l, U)
    BY <2>4, <2>5 DEF Closed
  <2>7. U = S
    BY <2>3, <2>6 DEF Chain, Least
  <2> QED BY <2>1, <2>2, <2>7
<1>4. Least(Q, l, R)
  BY <1>3 DEF Least
<1>5. OneWay(Q, l, R)
  <2>1. \A f \in R : Q.mem[f].next # s
    BY <1>1
  <2>2. ASSUME NEW f \in R, NEW g \in R, f # g PROVE Q.mem[f].next # Q.mem[g].next
    <3>1. CASE f \in S /\ g \in S
      BY <2>2, <3>1 DEF Chain, OneWay
    <3>2. CASE f = s /\ g \in S
      BY <3>2 DEF Chain, OneWay
    <3>3. CASE f \in S /\ g = s
      BY <3>3 DEF Chain, OneWay
    <3> QED BY <2>2, <3>1, <3>2, <3>3
  <2> QED BY <2>1, <2>2 DEF OneWay
<1>6. R \in SUBSET Frame /\ 0 \notin R
  BY DEF Chain
<1> QED BY <1>2, <1>4, <1>5, <1>6 DEF Chain

LEMMA ChainPop ==
    ASSUME NEW P, NEW Q, NEW l, NEW S, NEW h, NEW R,
           Chain(P, l, S), h = P.head[l], h # 0, R = S \ {h},
           Q.head[l] = P.mem[h].next, \A f \in R : Q.mem[f].next = P.mem[f].next
    PROVE  Chain(Q, l, R)
<1>1. h \in S /\ \A f \in S : P.mem[f].next # h
  BY DEF Chain, Closed, OneWay
<1>2. Closed(Q, l, R)
  BY <1>1 DEF Chain, Closed
<1>3. ASSUME NEW T \in SUBSET R, Closed(Q, l, T) PROVE T = R
  <2>1. PICK U : U = T \cup {h}
    OBVIOUS
  <2>2. U \in SUBSET S
    BY <1>1, <2>1
  <2>3. ASSUME NEW f \in U PROVE P.mem[f].next \in U \cup {0}
    <3>1. CASE f = h
      BY <1>3, <2>1, <3>1 DEF Closed
    <3>2. CASE f # h
      BY <1>3, <2>1, <3>2 DEF Closed
    <3> QED BY <3>1, <3>2
  <2>4. Closed(P, l, U)
    BY <2>1, <2>3 DEF Closed
  <2>5. U = S
    BY <2>2, <2>4 DEF Chain, Least
  <2> QED BY <2>1, <2>5
<1>4. Least(Q, l, R)
  BY <1>3 DEF Least
<1>5. OneWay(Q, l, R)
  BY <1>1 DEF Chain, OneWay
<1> QED BY <1>2, <1>4, <1>5 DEF Chain
-----------------------------------------------------------------------------
(* The runs, and the frames F in them. *)
EndOf(P, f) == f + PageSize * P.mem[f].length
Span(s, e) == {x \in Frame : s <= x /\ x < e}
OnSide(l, s, e) == IF l = "above" THEN s >= Limit ELSE e <= Limit
Apart(P, f, g) == EndOf(P, f) <= g \/ EndOf(P, g) <= f

Fits(P) == \A f \in Frame : EndOf(P, f) <= Top

RunsOK(P, H) ==
    \A l \in Lists : \A f \in H[l] :
       /\ P.mem[f].length > 0 /\ OnSide(l, f, EndOf(P, f))
       /\ \A k \in Lists : \A g \in H[k] : f # g => Apart(P, f, g)
Holds(P, H, F) ==
    \A x : x \in F <=> x \in Frame /\ \E l \in Lists : \E f \in H[l] : f <= x /\ x < EndOf(P, f)

Sound(P, H, F) ==
    /\ P \in PhysType /\ Fits(P)
    /\ \A l \in Lists : Chain(P, l, H[l])
    /\ RunsOK(P, H) /\ Holds(P, H, F)

LEMMA EndFacts ==
    ASSUME NEW P, NEW f, P \in PhysType, Fits(P), f \in Frame
    PROVE  /\ f \in Nat /\ P.mem[f].length \in Nat
           /\ EndOf(P, f) \in Frame /\ EndOf(P, f) \in Nat
           /\ P.mem[f].length > 0 => f < EndOf(P, f)
<1>1. f \in Nat /\ P.mem[f].length \in Nat /\ EndOf(P, f) <= Top
  BY FrameFacts DEF PhysType, Fits
<1>2. EndOf(P, f) \in Frame
  BY <1>1, RunFacts DEF EndOf
<1>3. ASSUME P.mem[f].length > 0 PROVE f < EndOf(P, f)
  <2>1. PICK b, n : b = PageSize /\ n = P.mem[f].length /\ b \in Nat /\ b > 0 /\ n \in Nat /\ n > 0
    BY <1>1, <1>3, FrameFacts
  <2>2. b * n > 0
    BY <2>1
  <2> QED BY <1>1, <2>1, <2>2 DEF EndOf
<1> QED BY <1>1, <1>2, <1>3, FrameFacts

(* The header of a run is a frame of F; no other header is in the run.     *)
LEMMA HeaderFacts ==
    ASSUME NEW P, NEW H, NEW F, NEW l, NEW f, Sound(P, H, F), l \in Lists, f \in H[l]
    PROVE  /\ f \in Frame /\ f # 0 /\ f \in F /\ P.mem[f].length > 0
           /\ f \in Nat /\ EndOf(P, f) \in Nat /\ EndOf(P, f) \in Frame /\ f < EndOf(P, f)
           /\ OnSide(l, f, EndOf(P, f))
<1>1. f \in Frame /\ f # 0
  BY DEF Sound, Chain
<1>2. P.mem[f].length > 0 /\ OnSide(l, f, EndOf(P, f))
  BY DEF Sound, RunsOK
<1>3. f \in Nat /\ EndOf(P, f) \in Nat /\ EndOf(P, f) \in Frame /\ f < EndOf(P, f)
  BY <1>1, <1>2, EndFacts DEF Sound
<1>4. f \in F
  BY <1>1, <1>3 DEF Sound, Holds
<1> QED BY <1>1, <1>2, <1>3, <1>4

(* physical_free_list_push of a run of frames that are not on the lists.   *)
Pushed(P, Q, l, s, e) ==
    /\ Q.mem = [P.mem EXCEPT ![s] = [next |-> P.head[l], length |-> Pages(s, e)]]
    /\ Q.head = [P.head EXCEPT ![l] = s] /\ Q \in PhysType

LEMMA PushedFacts ==
    ASSUME NEW P, NEW Q, NEW l, NEW s, NEW e, P \in PhysType, l \in Lists,
           s \in Frame, e \in Frame, s < e, Fits(P),
           Q = physical_free_list_push(P, Pages(s, e), s, l)
    PROVE  /\ Pushed(P, Q, l, s, e) /\ Fits(Q) /\ EndOf(Q, s) = e
           /\ Q.head[l] = s /\ Q.mem[s].next = P.head[l] /\ Q.mem[s].length > 0
           /\ \A k \in Lists : k # l => Q.head[k] = P.head[k]
           /\ \A f \in Frame : f # s => Q.mem[f] = P.mem[f] /\ EndOf(Q, f) = EndOf(P, f)
<1>1. Pages(s, e) \in Nat /\ Pages(s, e) > 0 /\ s + PageSize * Pages(s, e) = e
  BY PagesFacts
<1>2. PICK n : n = Pages(s, e)
  OBVIOUS
<1>3. /\ Q = [mem |-> [P.mem EXCEPT ![s] = [next |-> P.head[l], length |-> n]],
             head |-> [P.head EXCEPT ![l] = s]]
      /\ n \in Nat /\ n > 0
  BY <1>1, <1>2 DEF physical_free_list_push
<1>4. P.mem \in [Frame -> [next : Frame, length : Nat]] /\ P.head \in [Lists -> Frame]
  BY DEF PhysType
<1>5. [next |-> P.head[l], length |-> n] \in [next : Frame, length : Nat]
  BY <1>3, <1>4
<1>6. Q.mem \in [Frame -> [next : Frame, length : Nat]] /\ Q.head \in [Lists -> Frame]
  BY <1>3, <1>4, <1>5
<1>7. Q \in PhysType
  BY <1>3, <1>6 DEF PhysType
<1>8. /\ Q.head[l] = s /\ Q.mem[s] = [next |-> P.head[l], length |-> n]
      /\ \A k \in Lists : k # l => Q.head[k] = P.head[k]
      /\ \A f \in Frame : f # s => Q.mem[f] = P.mem[f]
  BY <1>3, <1>4
<1>9. Q.mem[s].next = P.head[l] /\ Q.mem[s].length = n
  BY <1>8
<1>10. EndOf(Q, s) = e
  BY <1>1, <1>2, <1>9 DEF EndOf
<1>11. \A f \in Frame : f # s => EndOf(Q, f) = EndOf(P, f)
  BY <1>8 DEF EndOf
<1>12. Fits(Q)
  BY <1>10, <1>11, FrameFacts DEF Fits
<1>13. Pushed(P, Q, l, s, e)
  BY <1>2, <1>3, <1>7 DEF Pushed
<1> QED BY <1>3, <1>8, <1>9, <1>10, <1>11, <1>12, <1>13

LEMMA PushLemma ==
    ASSUME NEW P, NEW Q, NEW H, NEW F, NEW G, NEW l, NEW s, NEW e,
           Sound(P, H, F), l \in Lists, s \in Frame, s # 0, e \in Frame, s < e,
           OnSide(l, s, e), \A x \in Span(s, e) : x \notin F,
           G = F \cup Span(s, e), Q = physical_free_list_push(P, Pages(s, e), s, l)
    PROVE  \E K : Sound(Q, K, G)
<1>1. P \in PhysType /\ Fits(P)
  BY DEF Sound
<1>2. /\ Pushed(P, Q, l, s, e) /\ Fits(Q) /\ EndOf(Q, s) = e
      /\ Q.head[l] = s /\ Q.mem[s].next = P.head[l] /\ Q.mem[s].length > 0
      /\ \A k \in Lists : k # l => Q.head[k] = P.head[k]
      /\ \A f \in Frame : f # s => Q.mem[f] = P.mem[f] /\ EndOf(Q, f) = EndOf(P, f)
  BY <1>1, PushedFacts
<1>3. s \in Nat /\ e \in Nat /\ s > 0
  BY FrameFacts
<1>4. s \in Span(s, e)
  BY <1>3 DEF Span
<1>5. ASSUME NEW k \in Lists, NEW f \in H[k]
      PROVE  f # s /\ Q.mem[f] = P.mem[f] /\ EndOf(Q, f) = EndOf(P, f)
  <2>1. f \in F /\ f \in Frame
    BY HeaderFacts
  <2> QED BY <1>2, <1>4, <2>1
<1>6. PICK K : K = [k \in Lists |-> IF k = l THEN H[l] \cup {s} ELSE H[k]]
  OBVIOUS
<1>7. ASSUME NEW k \in Lists PROVE Chain(Q, k, K[k])
  <2>1. Chain(P, k, H[k])
    BY DEF Sound
  <2>2. \A f \in H[k] : Q.mem[f].next = P.mem[f].next
    BY <1>5
  <2>3. CASE k = l
    <3>1. PICK R : R = H[k] \cup {s} /\ R = K[k]
      BY <1>6, <2>3
    <3>2. s \notin H[k]
      BY <1>5
    <3>3. Q.head[k] = s /\ Q.mem[s].next = P.head[k]
      BY <1>2, <2>3
    <3>4. Chain(Q, k, R)
      BY <2>1, <2>2, <3>1, <3>2, <3>3, ChainPush
    <3> QED BY <3>1, <3>4
  <2>4. CASE k # l
    <3>1. Q.head[k] = P.head[k] /\ K[k] = H[k]
      BY <1>2, <1>6, <2>4
    <3>2. Chain(Q, k, H[k])
      BY <2>1, <2>2, <3>1, ChainSame
    <3> QED BY <3>1, <3>2
  <2> QED BY <2>3, <2>4
<1>8. ASSUME NEW k \in Lists, NEW f \in H[k] PROVE Apart(Q, s, f)
  <2>1. /\ f \in Frame /\ f \in F /\ f \in Nat /\ EndOf(P, f) \in Nat /\ f < EndOf(P, f)
    BY HeaderFacts
  <2>2. e <= f \/ EndOf(P, f) <= s
    <3> SUFFICES ASSUME f < e, s < EndOf(P, f) PROVE FALSE
      BY <1>3, <2>1
    <3>1. CASE s <= f
      <4>1. f \in Span(s, e)
        BY <2>1, <3>1 DEF Span
      <4> QED BY <2>1, <4>1
    <3>2. CASE f < s
      <4>1. s \in F
        BY <3>2, <1>3, <2>1 DEF Sound, Holds
      <4> QED BY <1>4, <4>1
    <3> QED BY <1>3, <2>1, <3>1, <3>2
  <2> QED BY <1>2, <1>5, <2>2 DEF Apart
<1>9. ASSUME NEW k \in Lists, NEW f \in K[k]
      PROVE  f \in H[k] \/ (f = s /\ k = l)
  BY <1>6
<1>10. ASSUME NEW k \in Lists, NEW f \in K[k], NEW j \in Lists, NEW g \in K[j], f # g
       PROVE  Apart(Q, f, g)
  <2>1. CASE f \in H[k] /\ g \in H[j]
    <3>1. Apart(P, f, g)
      BY <1>10, <2>1 DEF Sound, RunsOK
    <3> QED BY <1>5, <2>1, <3>1 DEF Apart
  <2>2. CASE f = s /\ g \in H[j]
    BY <1>8, <2>2
  <2>3. CASE f \in H[k] /\ g = s
    <3>1. Apart(Q, s, f)
      BY <1>8, <2>3
    <3> QED BY <2>3, <3>1 DEF Apart
  <2> QED BY <1>9, <1>10, <2>1, <2>2, <2>3
<1>11. ASSUME NEW k \in Lists, NEW f \in K[k]
       PROVE  Q.mem[f].length > 0 /\ OnSide(k, f, EndOf(Q, f))
  <2>1. CASE f \in H[k]
    <3>1. P.mem[f].length > 0 /\ OnSide(k, f, EndOf(P, f))
      BY <2>1, HeaderFacts
    <3> QED BY <1>5, <2>1, <3>1
  <2>2. CASE f = s /\ k = l
    BY <1>2, <2>2
  <2> QED BY <1>9, <2>1, <2>2
<1>12. RunsOK(Q, K)
  BY <1>10, <1>11 DEF RunsOK
<1>13. ASSUME NEW x
       PROVE  x \in G <=> x \in Frame /\ \E k \in Lists : \E f \in K[k] : f <= x /\ x < EndOf(Q, f)
  <2>1. ASSUME x \in F
        PROVE  x \in Frame /\ \E k \in Lists : \E f \in K[k] : f <= x /\ x < EndOf(Q, f)
    <3>0. PICK k \in Lists : x \in Frame /\ \E f \in H[k] : f <= x /\ x < EndOf(P, f)
      BY <2>1 DEF Sound, Holds
    <3>1. PICK f \in H[k] : x \in Frame /\ f <= x /\ x < EndOf(P, f)
      BY <3>0
    <3>2. f \in K[k]
      BY <1>6, <3>1
    <3>3. x < EndOf(Q, f)
      BY <1>5, <3>1
    <3> QED BY <3>1, <3>2, <3>3
  <2>2. ASSUME x \in Span(s, e)
        PROVE  x \in Frame /\ \E k \in Lists : \E f \in K[k] : f <= x /\ x < EndOf(Q, f)
    <3>1. s \in K[l]
      BY <1>6
    <3> QED BY <1>2, <2>2, <3>1 DEF Span
  <2>3. ASSUME x \in Frame, NEW k \in Lists, NEW f \in K[k], f <= x, x < EndOf(Q, f)
        PROVE  x \in G
    <3>1. CASE f \in H[k]
      <4>1. x < EndOf(P, f)
        BY <1>5, <2>3, <3>1
      <4>2. x \in F
        BY <2>3, <3>1, <4>1 DEF Sound, Holds
      <4> QED BY <4>2
    <3>2. CASE f = s
      BY <1>2, <2>3, <3>2 DEF Span
    <3> QED BY <1>9, <2>3, <3>1, <3>2
  <2> QED BY <2>1, <2>2, <2>3
<1>14. Holds(Q, K, G)
  BY <1>13 DEF Holds
<1>15. Sound(Q, K, G)
  BY <1>2, <1>7, <1>12, <1>14 DEF Sound, Pushed
<1> QED BY <1>15

(* The first run of a list is taken off it. *)
Unheaded(P, l) == [P EXCEPT !.head[l] = P.mem[P.head[l]].next]

FirstRun(P, Q, F, G, l, h) ==
    /\ h = P.head[l] /\ h # 0 /\ Q = Unheaded(P, l) /\ G = F \ Span(h, EndOf(P, h))

LEMMA TakeRun ==
    ASSUME NEW P, NEW Q, NEW H, NEW F, NEW G, NEW l, NEW h,
           Sound(P, H, F), l \in Lists, FirstRun(P, Q, F, G, l, h)
    PROVE  h \in H[l] /\ \E K : Sound(Q, K, G)
<1> USE DEF FirstRun
<1>1. h \in H[l]
  BY DEF Sound, Chain, Closed
<1>2. P \in PhysType /\ Fits(P)
  BY DEF Sound
<1>3. P.mem \in [Frame -> [next : Frame, length : Nat]] /\ P.head \in [Lists -> Frame]
  BY <1>2 DEF PhysType
<1>4. PICK n : n = P.mem[h].next
  OBVIOUS
<1>5. h \in Frame /\ n \in Frame
  BY <1>1, <1>3, <1>4, HeaderFacts
<1>6. /\ Q = [mem |-> P.mem, head |-> [P.head EXCEPT ![l] = n]]
  BY <1>2, <1>4 DEF Unheaded, PhysType
<1>7. /\ Q.mem = P.mem /\ Q.head[l] = n /\ Q \in PhysType
      /\ \A k \in Lists : k # l => Q.head[k] = P.head[k]
  BY <1>3, <1>5, <1>6 DEF PhysType
<1>8. \A f : EndOf(Q, f) = EndOf(P, f)
  BY <1>7 DEF EndOf
<1>9. Fits(Q)
  BY <1>2, <1>8 DEF Fits
<1>10. PICK K : K = [k \in Lists |-> IF k = l THEN H[l] \ {h} ELSE H[k]]
  OBVIOUS
<1>11. ASSUME NEW k \in Lists, NEW f \in K[k] PROVE f \in H[k] /\ f # h
  <2>1. CASE k = l
    BY <1>10, <2>1
  <2>2. CASE k # l
    <3>1. f \in H[k]
      BY <1>10, <2>2
    <3>2. OnSide(k, f, EndOf(P, f)) /\ OnSide(l, h, EndOf(P, h)) /\ f < EndOf(P, f) /\ h < EndOf(P, h)
          /\ f \in Nat /\ h \in Nat /\ EndOf(P, f) \in Nat /\ EndOf(P, h) \in Nat
      BY <1>1, <3>1, HeaderFacts
    <3>3. f # h
      BY <2>2, <3>2, FrameFacts DEF OnSide, Lists
    <3> QED BY <3>1, <3>3
  <2> QED BY <2>1, <2>2
<1>12. ASSUME NEW k \in Lists PROVE Chain(Q, k, K[k])
  <2>1. Chain(P, k, H[k])
    BY DEF Sound
  <2>2. CASE k = l
    <3>1. PICK R : R = H[k] \ {h} /\ R = K[k]
      BY <1>10, <2>2
    <3>2. \A f \in R : Q.mem[f].next = P.mem[f].next
      BY <1>7
    <3>3. Q.head[k] = P.mem[h].next /\ h = P.head[k]
      BY <1>4, <1>7, <2>2
    <3>4. Chain(Q, k, R)
      BY <2>1, <3>1, <3>2, <3>3, ChainPop
    <3> QED BY <3>1, <3>4
  <2>3. CASE k # l
    <3>1. Q.head[k] = P.head[k] /\ K[k] = H[k]
      BY <1>7, <1>10, <2>3
    <3>2. \A f \in H[k] : Q.mem[f].next = P.mem[f].next
      BY <1>7
    <3>3. Chain(Q, k, H[k])
      BY <2>1, <3>1, <3>2, ChainSame
    <3> QED BY <3>1, <3>3
  <2> QED BY <2>2, <2>3
<1>13. RunsOK(Q, K)
  <2>1. ASSUME NEW k \in Lists, NEW f \in K[k]
        PROVE  Q.mem[f].length > 0 /\ OnSide(k, f, EndOf(Q, f))
    <3>1. P.mem[f].length > 0 /\ OnSide(k, f, EndOf(P, f))
      BY <1>11, HeaderFacts
    <3> QED BY <1>7, <1>8, <3>1
  <2>2. ASSUME NEW k \in Lists, NEW f \in K[k], NEW j \in Lists, NEW g \in K[j], f # g
        PROVE  Apart(Q, f, g)
    <3>1. f \in H[k] /\ g \in H[j]
      BY <1>11
    <3>2. Apart(P, f, g)
      BY <2>2, <3>1 DEF Sound, RunsOK
    <3> QED BY <1>8, <3>2 DEF Apart
  <2> QED BY <2>1, <2>2 DEF RunsOK
<1>14. ASSUME NEW x
       PROVE  x \in G <=> x \in Frame /\ \E k \in Lists : \E f \in K[k] : f <= x /\ x < EndOf(Q, f)
  <2>1. ASSUME x \in G
        PROVE  x \in Frame /\ \E k \in Lists : \E f \in K[k] : f <= x /\ x < EndOf(Q, f)
    <3>1. PICK k \in Lists : x \in Frame /\ \E f \in H[k] : f <= x /\ x < EndOf(P, f)
      BY <2>1 DEF Sound, Holds
    <3>2. PICK f \in H[k] : f <= x /\ x < EndOf(P, f)
      BY <3>1
    <3>3. f # h
      BY <2>1, <3>1, <3>2 DEF Span
    <3>4. f \in K[k]
      BY <1>10, <3>2, <3>3
    <3> QED BY <1>8, <3>1, <3>2, <3>4
  <2>2. ASSUME x \in Frame, NEW k \in Lists, NEW f \in K[k], f <= x, x < EndOf(Q, f)
        PROVE  x \in G
    <3>1. f \in H[k] /\ f # h /\ x < EndOf(P, f)
      BY <1>8, <1>11, <2>2
    <3>2. x \in F
      BY <2>2, <3>1 DEF Sound, Holds
    <3>3. Apart(P, f, h)
      BY <1>1, <3>1 DEF Sound, RunsOK
    <3>4. f \in Nat /\ h \in Nat /\ EndOf(P, f) \in Nat /\ EndOf(P, h) \in Nat /\ x \in Nat
      BY <1>1, <2>2, <3>1, HeaderFacts, FrameFacts
    <3>5. ~(h <= x /\ x < EndOf(P, h))
      BY <2>2, <3>1, <3>3, <3>4 DEF Apart
    <3> QED BY <3>2, <3>5 DEF Span
  <2> QED BY <2>1, <2>2
<1>15. Holds(Q, K, G)
  BY <1>14 DEF Holds
<1>16. Sound(Q, K, G)
  BY <1>7, <1>9, <1>12, <1>13, <1>15 DEF Sound
<1> QED BY <1>1, <1>16

(* Whoever holds a frame may write to it. *)
LEMMA OverwriteLemma ==
    ASSUME NEW P, NEW Q, NEW H, NEW F, NEW f, Sound(P, H, F), f \in Frame, f \notin F,
           Q = Overwrite(P, f)
    PROVE  Sound(Q, H, F)
<1>1. P \in PhysType /\ Fits(P)
  BY DEF Sound
<1>2. P.mem \in [Frame -> [next : Frame, length : Nat]] /\ P.head \in [Lists -> Frame]
  BY <1>1 DEF PhysType
<1>3. PICK z : z = [next |-> 0, length |-> 0]
  OBVIOUS
<1>4. z \in [next : Frame, length : Nat] /\ z.length = 0
  BY <1>3, FrameFacts
<1>5. Q = [mem |-> [P.mem EXCEPT ![f] = z], head |-> P.head]
  BY <1>1, <1>3 DEF Overwrite, PhysType
<1>6. /\ Q.head = P.head /\ Q.mem[f] = z /\ Q \in PhysType
      /\ \A g \in Frame : g # f => Q.mem[g] = P.mem[g]
  BY <1>2, <1>4, <1>5 DEF PhysType
<1>7. \A g \in Frame : g # f => EndOf(Q, g) = EndOf(P, g)
  BY <1>6 DEF EndOf
<1>8. EndOf(Q, f) = f
  BY <1>4, <1>6, FrameFacts DEF EndOf
<1>9. Fits(Q)
  BY <1>1, <1>7, <1>8, FrameFacts DEF Fits
<1>10. ASSUME NEW k \in Lists, NEW g \in H[k]
       PROVE  g \in Frame /\ Q.mem[g] = P.mem[g] /\ EndOf(Q, g) = EndOf(P, g)
  <2>1. g \in F /\ g \in Frame
    BY HeaderFacts
  <2> QED BY <1>6, <1>7, <2>1
<1>11. ASSUME NEW k \in Lists PROVE Chain(Q, k, H[k])
  <2>1. Chain(P, k, H[k])
    BY DEF Sound
  <2>2. Q.head[k] = P.head[k] /\ \A g \in H[k] : Q.mem[g].next = P.mem[g].next
    BY <1>6, <1>10
  <2> QED BY <2>1, <2>2, ChainSame
<1>12. RunsOK(Q, H)
  BY <1>10 DEF Sound, RunsOK, Apart
<1>13. Holds(Q, H, F)
  BY <1>10 DEF Sound, Holds
<1> QED BY <1>6, <1>9, <1>11, <1>12, <1>13 DEF Sound

(* physical_free_list_pop, and what the caller then does to the frame. *)
Popped(P, Q, F, G, l, h) ==
    /\ h = P.head[l] /\ h # 0
    /\ Q = Overwrite(Pop(P, l), h) /\ G = F \ {h}

PopOK(P, Q, H, F, G, l, h) ==
    /\ h \in F /\ h \in H[l] /\ P.mem[h].length > 0
    /\ \E K : Sound(Q, K, G)

LEMMA PopLemma ==
    ASSUME NEW P, NEW Q, NEW H, NEW F, NEW G, NEW l, NEW h,
           Sound(P, H, F), l \in Lists, Popped(P, Q, F, G, l, h)
    PROVE  PopOK(P, Q, H, F, G, l, h)
<1> USE DEF Popped
<1>1. PICK P1, F1 : P1 = Unheaded(P, l) /\ F1 = F \ Span(h, EndOf(P, h))
  OBVIOUS
<1>2. h \in H[l] /\ \E K : Sound(P1, K, F1)
  <2>1. FirstRun(P, P1, F, F1, l, h)
    BY <1>1 DEF FirstRun
  <2> QED BY <2>1, TakeRun
<1>3. PICK K1 : Sound(P1, K1, F1)
  BY <1>2
<1>4. /\ h \in Frame /\ h # 0 /\ h \in F /\ P.mem[h].length > 0 /\ h \in Nat
      /\ EndOf(P, h) \in Nat /\ EndOf(P, h) \in Frame /\ h < EndOf(P, h)
      /\ OnSide(l, h, EndOf(P, h)) /\ h \in F
  BY <1>2, HeaderFacts
<1>5. P \in PhysType /\ Fits(P)
  BY DEF Sound
<1>6. PICK n, e : n = P.mem[h].length /\ e = EndOf(P, h)
  OBVIOUS
<1>7. n \in Nat /\ n > 0 /\ e = h + PageSize * n /\ e <= Top /\ e \in Nat
  BY <1>4, <1>5, <1>6, EndFacts DEF EndOf, Fits
<1>8. /\ h + PageSize \in Frame /\ h + PageSize <= e
      /\ (h + PageSize) + PageSize * (n - 1) = e
  BY <1>4, <1>7, RunFacts
<1>b. PageSize \in Nat /\ PageSize > 0
  BY FrameFacts
<1>a. PICK m : m = h + PageSize
  OBVIOUS
<1>9. m = h + PageSize /\ m \in Nat /\ m > h
  BY ONLY <1>a, <1>b, <1>4
<1>10. \A x \in Frame : h <= x /\ x < m => x = h
  <2>1. ASSUME NEW x \in Frame, h <= x, x < m PROVE x = h
    <3> SUFFICES ASSUME h < x PROVE FALSE
      BY <1>4, <2>1, FrameFacts
    <3>1. h + PageSize <= x
      BY <1>4, FrameFacts, Gap
    <3> QED BY <1>9, <2>1, <3>1, FrameFacts
  <2> QED BY <2>1
<1>11. PICK P2 : P2 = Pop(P, l)
  OBVIOUS
<1>12. \E K : Sound(P2, K, G)
  <2>1. CASE n = 1
    <3>1. P2 = P1
      BY <1>1, <1>6, <1>11, <2>1 DEF Pop, Unheaded
    <3>2. e = m
      BY <1>7, <1>9, <2>1, FrameFacts
    <3>3. F1 = G
      <4>1. \A x : x \in Span(h, e) <=> x = h
        <5>1. h \in Span(h, e)
          BY <1>4, <1>6 DEF Span
        <5>2. ASSUME NEW x \in Span(h, e) PROVE x = h
          BY <1>10, <3>2 DEF Span
        <5> QED BY <5>1, <5>2
      <4> QED BY <1>1, <1>6, <4>1
    <3> QED BY <1>3, <3>1, <3>3
  <2>2. CASE n # 1
    <3>1. m < e
      <4>1. PageSize * (n - 1) > 0
        <5>1. PICK b, c : b = PageSize /\ c = n - 1 /\ b \in Nat /\ b > 0 /\ c \in Nat /\ c > 0
          BY <1>7, <2>2, FrameFacts
        <5>2. b * c > 0
          BY <5>1
        <5> QED BY <5>1, <5>2
      <4>2. m + PageSize * (n - 1) = e /\ PageSize * (n - 1) \in Int
        BY <1>7, <1>8, <1>9, FrameFacts
      <4> QED BY <1>7, <1>9, <4>1, <4>2
    <3>2. m \in Frame /\ m # 0 /\ e \in Frame
      BY <1>4, <1>6, <1>8, <1>9
    <3>3. Pages(m, e) = n - 1
      <4>1. PICK p : p = Pages(m, e)
        OBVIOUS
      <4>2. p \in Nat /\ m + PageSize * p = e
        BY <3>1, <3>2, <4>1, PagesFacts
      <4>3. PICK b : b = PageSize /\ b \in Nat /\ b > 0
        BY FrameFacts
      <4>4. b * p = b * (n - 1)
        BY <1>7, <1>8, <1>9, <4>2, <4>3
      <4>5. b * (p - (n - 1)) = 0
        BY <1>7, <4>2, <4>3, <4>4
      <4>6. p - (n - 1) = 0
        BY <1>7, <4>2, <4>3, <4>5
      <4> QED BY <1>7, <4>1, <4>2, <4>6
    <3>4. OnSide(l, m, e)
      BY <1>4, <1>6, <1>9, FrameFacts DEF OnSide
    <3>5. \A x \in Span(m, e) : x \notin F1
      BY <1>1, <1>4, <1>6, <1>9, FrameFacts DEF Span
    <3>6. P2 = physical_free_list_push(P1, Pages(m, e), m, l)
      <4>1. P.mem \in [Frame -> [next : Frame, length : Nat]] /\ P.head \in [Lists -> Frame]
        BY <1>5 DEF PhysType
      <4>2. PICK link : link = P.mem[h]
        OBVIOUS
      <4>3. link \in [next : Frame, length : Nat] /\ link.length = n
        BY <1>4, <1>6, <4>1, <4>2
      <4>4. [link EXCEPT !.length = @ - 1] = [next |-> link.next, length |-> n - 1]
        BY <4>3
      <4>5. P2 = [P EXCEPT !.head[l] = m, !.mem[m] = [link EXCEPT !.length = @ - 1]]
        BY <1>6, <1>9, <1>11, <2>2, <4>2 DEF Pop
      <4>6. P2 = [mem |-> [P.mem EXCEPT ![m] = [next |-> link.next, length |-> n - 1]],
                  head |-> [P.head EXCEPT ![l] = m]]
        BY <1>5, <4>4, <4>5 DEF PhysType
      <4>7. P1 = [mem |-> P.mem, head |-> [P.head EXCEPT ![l] = link.next]]
        BY <1>1, <1>5, <4>2 DEF Unheaded, PhysType
      <4>8. P1.mem = P.mem /\ P1.head[l] = link.next /\ [P1.head EXCEPT ![l] = m] = [P.head EXCEPT ![l] = m]
        BY <4>1, <4>7
      <4> QED BY <3>3, <4>6, <4>8 DEF physical_free_list_push
    <3>7. G = F1 \cup Span(m, e)
      <4>1. ASSUME NEW x PROVE x \in G <=> x \in F1 \cup Span(m, e)
        <5>1. x \in F => x \in Frame /\ x \in Nat
          BY FrameFacts DEF Sound, Holds
        <5>2. x \in Span(m, e) => x \in F /\ x # h
          <6>1. ASSUME x \in Span(m, e) PROVE x \in F /\ x # h
            <7>1. x \in Frame /\ x \in Nat /\ m <= x /\ x < EndOf(P, h) /\ h <= x
              BY <1>4, <1>6, <1>9, <6>1, FrameFacts DEF Span
            <7> QED BY <1>2, <1>4, <1>9, <7>1 DEF Sound, Holds
          <6> QED BY <6>1
        <5>3. x \in Span(h, e) <=> x = h \/ x \in Span(m, e)
          <6>1. x \in Frame => x \in Nat
            BY FrameFacts
          <6> QED BY <1>4, <1>6, <1>9, <1>10, <3>1, <6>1 DEF Span
        <5> QED BY <1>1, <1>6, <5>2, <5>3
      <4> QED BY <4>1
    <3> QED BY <1>3, <3>1, <3>2, <3>4, <3>5, <3>6, <3>7, PushLemma
  <2> QED BY <2>1, <2>2
<1>13. PICK K : Sound(P2, K, G)
  BY <1>12
<1>14. Sound(Q, K, G)
  BY <1>4, <1>11, <1>13, OverwriteLemma
<1> QED BY <1>2, <1>4, <1>14 DEF PopOK

-----------------------------------------------------------------------------
(* The step from n to n + 1, for a set: the library's induction rules take *)
(* a predicate.                                                            *)
LEMMA SetInduction ==
    ASSUME NEW S, 0 \in S, \A n \in Nat : n \in S => n + 1 \in S
    PROVE  \A n \in Nat : n \in S
<1> DEFINE T == {n \in Nat : n \notin S}
<1>1. SUFFICES ASSUME T # {} PROVE FALSE
  OBVIOUS
<1>2. PICK R : R = OpToRel(<, Nat)
  OBVIOUS
<1>3. IsWellFoundedOn(R, Nat)
  BY <1>2, NatLessThanWellFounded
<1>4. \E x \in T : \A y \in T : ~(<<y, x>> \in R)
  <2>1. T \subseteq Nat
    OBVIOUS
  <2> HIDE DEF T
  <2> QED BY <1>1, <1>3, <2>1, WFMin
<1>5. PICK x \in T : \A y \in T : ~(<<y, x>> \in R)
  BY <1>4
<1>6. x # 0 /\ x - 1 \in Nat /\ x - 1 \in T
  OBVIOUS
<1>7. <<x - 1, x>> \in R
  BY <1>2, <1>6 DEF OpToRel
<1> QED BY <1>5, <1>6, <1>7

(* Reached, turn by turn. *)
Further(P, r) == r \cup ({P.mem[f].next : f \in r} \ {0})

ReachRun(P, l, f) ==
    /\ f[0] = {P.head[l]} \ {0}
    /\ \A n \in 0..(Cardinality(Frame) - 1) : f[n + 1] = Further(P, f[n])

LEMMA FrameFinite == IsFiniteSet(Frame) /\ Cardinality(Frame) \in Nat
<1>1. IsFiniteSet(0..Top)
  BY FrameFacts, FS_Interval
<1>2. Frame \in SUBSET (0..Top)
  BY DEF Frame, Address
<1>3. IsFiniteSet(Frame)
  BY <1>1, <1>2, FS_Subset
<1> QED BY <1>3, FS_CardinalityType

LEMMA ReachLoop ==
    ASSUME NEW P, NEW l
    PROVE  \E f : ReachRun(P, l, f) /\ Reached(P, l) = f[Cardinality(Frame)]
<1> DEFINE a == {P.head[l]} \ {0}
           N == Cardinality(Frame)
           Step(x) == Further(P, x)
           Is(f, n) == f = [c \in 0..n |-> IF c = 0 THEN a ELSE Step(f[c - 1])]
           S == {n \in Nat : \E f : Is(f, n)}
<1> HIDE DEF a, Step, N
<1>0. N \in Nat
  BY FrameFinite DEF N
<1>1. 0 \in S
  <2>1. PICK f : f = [i \in 0..0 |-> a]
    OBVIOUS
  <2>2. Is(f, 0)
    BY <2>1
  <2> QED BY <2>2
<1>2. ASSUME NEW n \in Nat, n \in S PROVE n + 1 \in S
  <2>1. PICK f : Is(f, n)
    BY <1>2
  <2>2. PICK g : g = [i \in 0..(n + 1) |-> IF i <= n THEN f[i] ELSE Step(f[n])]
    OBVIOUS
  <2>3. ASSUME NEW i \in 0..(n + 1)
        PROVE  g[i] = IF i = 0 THEN a ELSE Step(g[i - 1])
    <3>1. CASE i = 0
      BY <2>1, <2>2, <3>1
    <3>2. CASE i # 0 /\ i <= n
      <4>1. i \in 0..n /\ i - 1 \in 0..(n + 1) /\ i - 1 <= n
        BY <3>2
      <4>2. f[i] = Step(f[i - 1])
        BY <2>1, <3>2, <4>1
      <4>3. g[i] = f[i] /\ g[i - 1] = f[i - 1]
        BY <2>2, <3>2, <4>1
      <4> QED BY <3>2, <4>2, <4>3
    <3>3. CASE i = n + 1
      <4>1. g[i] = Step(f[n]) /\ g[n] = f[n] /\ i - 1 = n /\ i # 0
        BY <2>2, <3>3
      <4> QED BY <4>1
    <3> QED BY <3>1, <3>2, <3>3
  <2>4. Is(g, n + 1)
    BY <2>2, <2>3
  <2> QED BY <2>4
<1>3. N \in S
  <2> HIDE DEF S
  <2> QED BY <1>0, <1>1, <1>2, SetInduction
<1>4. PICK f : f = CHOOSE x : Is(x, N)
  OBVIOUS
<1>5. Is(f, N)
  BY <1>3, <1>4
<1>6. Reached(P, l) = f[N]
  BY <1>4 DEF Reached, Further, a, Step, N
<1>7. f[0] = a
  BY <1>0, <1>5
<1>8. ASSUME NEW i \in 0..(N - 1) PROVE f[i + 1] = Step(f[i])
  <2>1. i + 1 \in 0..N /\ i + 1 # 0 /\ (i + 1) - 1 = i
    BY <1>0
  <2> QED BY <1>5, <2>1
<1>9. ReachRun(P, l, f)
  BY <1>7, <1>8 DEF a, Step, N, ReachRun
<1> QED BY <1>6, <1>9 DEF N

(* Each turn adds a header, until nothing is left to add: there are fewer  *)
(* headers than frames.                                                    *)
LEMMA ReachedLemma ==
    ASSUME NEW P, NEW l, NEW S, Chain(P, l, S)
    PROVE  Reached(P, l) = S
<1>1. PICK f : ReachRun(P, l, f) /\ Reached(P, l) = f[Cardinality(Frame)]
  BY ReachLoop
<1>2. PICK N : N = Cardinality(Frame) /\ N \in Nat /\ IsFiniteSet(Frame)
  BY FrameFinite
<1>3. f[0] = {P.head[l]} \ {0} /\ \A n \in 0..(N - 1) : f[n + 1] = Further(P, f[n])
  BY <1>1, <1>2 DEF ReachRun
<1>4. S \in SUBSET Frame /\ 0 \notin S /\ Closed(P, l, S) /\ Least(P, l, S)
  BY DEF Chain
<1> DEFINE Fine(n) == /\ f[n] \in SUBSET S /\ P.head[l] \in f[n] \cup {0}
                      /\ Closed(P, l, f[n]) \/ Cardinality(f[n]) >= n
           T == {n \in Nat : n <= N => Fine(n)}
<1>5. 0 \in T
  <2>1. f[0] \in SUBSET S /\ P.head[l] \in f[0] \cup {0}
    BY <1>3, <1>4 DEF Closed
  <2>2. IsFiniteSet(f[0])
    <3>1. f[0] \in SUBSET Frame
      BY <1>4, <2>1
    <3> QED BY <1>2, <3>1, FS_Subset
  <2>3. Cardinality(f[0]) >= 0
    BY <2>2, FS_CardinalityType
  <2> QED BY <2>1, <2>3
<1>6. ASSUME NEW n \in Nat, n \in T, n + 1 <= N PROVE Fine(n + 1)
  <2>1. PICK r, q : r = f[n] /\ q = f[n + 1]
    OBVIOUS
  <2>2. n \in 0..(N - 1)
    BY <1>2, <1>6
  <2>3. q = r \cup ({P.mem[x].next : x \in r} \ {0})
    BY <1>3, <2>1, <2>2 DEF Further
  <2>4. /\ r \in SUBSET S /\ P.head[l] \in r \cup {0}
        /\ Closed(P, l, r) \/ Cardinality(r) >= n
    BY <1>2, <1>6, <2>1, <2>2
  <2>5. q \in SUBSET S
    BY <1>4, <2>3, <2>4 DEF Closed
  <2>6. P.head[l] \in q \cup {0}
    BY <2>3, <2>4
  <2>7. IsFiniteSet(q) /\ IsFiniteSet(r)
    <3>1. q \in SUBSET Frame /\ r \in SUBSET Frame
      BY <1>4, <2>4, <2>5
    <3> QED BY <1>2, <3>1, FS_Subset
  <2>8. CASE Closed(P, l, r)
    <3>1. q = r
      BY <2>3, <2>8 DEF Closed
    <3> QED BY <2>1, <2>5, <2>6, <2>8, <3>1
  <2>9. CASE ~Closed(P, l, r)
    <3>1. q # r
      <4>1. PICK x \in r : P.mem[x].next \notin r \cup {0}
        BY <2>4, <2>9 DEF Closed
      <4> QED BY <2>3, <4>1
    <3>2. r \in SUBSET q
      BY <2>3
    <3>3. PICK c, d : c = Cardinality(r) /\ d = Cardinality(q)
      OBVIOUS
    <3>4. c \in Nat /\ d \in Nat /\ c <= d /\ c # d
      BY <2>7, <3>1, <3>2, <3>3, FS_Subset, FS_CardinalityType
    <3>5. d >= n + 1
      BY <2>4, <2>9, <3>3, <3>4
    <3> QED BY <2>1, <2>5, <2>6, <3>3, <3>5
  <2> QED BY <2>8, <2>9
<1>7. ASSUME NEW n \in Nat, n \in T PROVE n + 1 \in T
  BY <1>6, <1>7
<1>8. N \in T
  <2> HIDE DEF T
  <2> QED BY <1>2, <1>5, <1>7, SetInduction
<1>9. Fine(N)
  BY <1>2, <1>8
<1>10. Closed(P, l, f[N])
  <2> SUFFICES ASSUME Cardinality(f[N]) >= N PROVE FALSE
    BY <1>9
  <2>1. f[N] \in SUBSET Frame /\ 0 \notin f[N] /\ 0 \in Frame
    BY <1>4, <1>9, FrameFacts
  <2>2. IsFiniteSet(f[N])
    BY <1>2, <2>1, FS_Subset
  <2>3. PICK c : c = Cardinality(f[N])
    OBVIOUS
  <2>4. c \in Nat /\ c <= N /\ c # N
    BY <1>2, <2>1, <2>2, <2>3, FS_Subset, FS_CardinalityType
  <2> QED BY <1>2, <2>3, <2>4
<1>11. f[N] = S
  BY <1>4, <1>9, <1>10 DEF Least
<1> QED BY <1>1, <1>2, <1>11

(* The frames that following the lists finds are F. *)
LEMMA FreeLemma ==
    ASSUME NEW P, NEW H, NEW F, Sound(P, H, F)
    PROVE  /\ \A l \in Lists : Reached(P, l) = H[l]
           /\ \A l \in Lists : \A f \in H[l] : RunFrames(P, f) = Span(f, EndOf(P, f))
           /\ \A l \in Lists : \A x \in FreeIn(P, l) : x \in F /\ ListOf(x) = l
           /\ FreeFrames(P) = F
<1>1. ASSUME NEW l \in Lists PROVE Reached(P, l) = H[l]
  <2>1. Chain(P, l, H[l])
    BY DEF Sound
  <2> QED BY <2>1, ReachedLemma
<1>2. ASSUME NEW l \in Lists, NEW f \in H[l] PROVE RunFrames(P, f) = Span(f, EndOf(P, f))
  <2>1. f \in Frame
    BY HeaderFacts
  <2>2. PICK n : n = P.mem[f].length
    OBVIOUS
  <2>3. n \in Nat /\ f + PageSize * n <= Top
    BY <2>1, <2>2 DEF Sound, PhysType, Fits, EndOf
  <2>4. {f + PageSize * k : k \in 0..(n - 1)} = {g \in Frame : f <= g /\ g < f + PageSize * n}
    BY <2>1, <2>3, RunFacts
  <2> QED BY <2>2, <2>4 DEF RunFrames, Span, EndOf
<1>3. ASSUME NEW l \in Lists, NEW x
      PROVE  x \in FreeIn(P, l) <=> \E f \in H[l] : x \in Span(f, EndOf(P, f))
  BY <1>1, <1>2 DEF FreeIn
<1>4. ASSUME NEW l \in Lists, NEW x \in FreeIn(P, l) PROVE x \in F /\ ListOf(x) = l
  <2>1. PICK f \in H[l] : x \in Span(f, EndOf(P, f))
    BY <1>3
  <2>2. x \in Frame /\ f <= x /\ x < EndOf(P, f) /\ x \in Nat
    BY <2>1, FrameFacts DEF Span
  <2>3. x \in F
    BY <2>2 DEF Sound, Holds
  <2>4. OnSide(l, f, EndOf(P, f)) /\ f \in Nat /\ EndOf(P, f) \in Nat
    BY HeaderFacts
  <2>5. ListOf(x) = l
    <3>1. Limit \in Nat
      BY FrameFacts
    <3>2. CASE l = "above"
      BY <2>2, <2>4, <3>1, <3>2 DEF OnSide, ListOf
    <3>3. CASE l = "below"
      BY <2>2, <2>4, <3>1, <3>3 DEF OnSide, ListOf
    <3> QED BY <3>2, <3>3 DEF Lists
  <2> QED BY <2>3, <2>5
<1>5. ASSUME NEW x \in F PROVE \E l \in Lists : x \in FreeIn(P, l)
  <2>1. PICK l \in Lists : x \in Frame /\ \E f \in H[l] : f <= x /\ x < EndOf(P, f)
    BY DEF Sound, Holds
  <2>2. x \in FreeIn(P, l)
    BY <1>3, <2>1 DEF Span
  <2> QED BY <2>2
<1>6. FreeFrames(P) = F
  BY <1>4, <1>5 DEF FreeFrames, Lists
<1> QED BY <1>1, <1>2, <1>4, <1>6

-----------------------------------------------------------------------------
(* add_physical_chunk. *)
IsFree(P, F) == \E H : Sound(P, H, F)

LEMMA SpanSplit ==
    ASSUME NEW s \in Frame, NEW m \in Frame, NEW e \in Frame, s <= m, m <= e
    PROVE  \A x : x \in Span(s, e) <=> x \in Span(s, m) \/ x \in Span(m, e)
<1>1. s \in Nat /\ m \in Nat /\ e \in Nat /\ \A x \in Frame : x \in Nat
  BY FrameFacts
<1>2. ASSUME NEW x \in Frame
      PROVE  s <= x /\ x < e <=> (s <= x /\ x < m) \/ (m <= x /\ x < e)
  BY <1>1
<1> QED BY <1>2 DEF Span

ChunkOK(P, F, lo, hi, s, e) ==
    /\ lo \in Nat /\ hi \in Nat /\ lo > 0 /\ lo <= Top /\ hi <= Top
    /\ s = align_up(lo) /\ e = align_down(hi) /\ e # Limit
    /\ \A x \in Span(s, e) : x \notin F

LEMMA ChunkLemma ==
    ASSUME NEW P, NEW F, NEW lo, NEW hi, NEW s, NEW e, NEW Q, NEW G,
           IsFree(P, F), ChunkOK(P, F, lo, hi, s, e),
           Q = add_physical_chunk(P, lo, hi), G = F \cup Span(s, e)
    PROVE  IsFree(Q, G)
<1>1. PICK H : Sound(P, H, F)
  BY DEF IsFree
<1>2. /\ s \in Frame /\ e \in Frame /\ s \in Nat /\ e \in Nat /\ s > 0 /\ e # Limit
      /\ \A x \in Span(s, e) : x \notin F
  <2>1. lo \in Nat /\ hi \in Nat /\ lo > 0 /\ lo <= Top /\ hi <= Top /\ e # Limit
        /\ s = align_up(lo) /\ e = align_down(hi) /\ \A x \in Span(s, e) : x \notin F
    BY DEF ChunkOK
  <2>2. s \in Frame /\ lo <= s /\ e \in Frame
    BY <2>1, AlignFacts
  <2>3. s \in Nat /\ e \in Nat
    BY <2>2, FrameFacts
  <2> QED BY <2>1, <2>2, <2>3
<1>3. /\ Q = IF s >= e THEN P
             ELSE IF s >= Limit THEN physical_free_list_push(P, Pages(s, e), s, "above")
             ELSE IF e >= Limit
                  THEN physical_free_list_push(
                          physical_free_list_push(P, Pages(s, Limit), s, "below"),
                          Pages(Limit, e), Limit, "above")
             ELSE physical_free_list_push(P, Pages(s, e), s, "below")
  BY DEF ChunkOK, add_physical_chunk
<1>4. Limit \in Frame /\ Limit \in Nat /\ Limit > 0
  BY FrameFacts
<1>5. PICK a, b : a = "above" /\ b = "below"
  OBVIOUS
<1>6. a \in Lists /\ b \in Lists /\ a # b
  BY <1>5 DEF Lists
<1>7. CASE s >= e
  <2>1. Span(s, e) = {}
    BY <1>2, <1>7, FrameFacts DEF Span
  <2>2. Q = P /\ G = F
    BY <1>3, <1>7, <2>1
  <2> QED BY <2>2
<1>8. CASE s < e /\ s >= Limit
  <2>1. Q = physical_free_list_push(P, Pages(s, e), s, a)
    BY <1>2, <1>3, <1>4, <1>5, <1>8
  <2>2. OnSide(a, s, e) /\ s # 0
    BY <1>2, <1>5, <1>8 DEF OnSide
  <2>3. \E K : Sound(Q, K, G)
    BY <1>1, <1>2, <1>6, <1>8, <2>1, <2>2, PushLemma
  <2> QED BY <2>3 DEF IsFree
<1>9. CASE s < e /\ s < Limit /\ e < Limit
  <2>1. Q = physical_free_list_push(P, Pages(s, e), s, b)
    BY <1>2, <1>3, <1>4, <1>5, <1>9
  <2>2. OnSide(b, s, e) /\ s # 0
    BY <1>2, <1>4, <1>5, <1>9 DEF OnSide
  <2>3. \E K : Sound(Q, K, G)
    BY <1>1, <1>2, <1>6, <1>9, <2>1, <2>2, PushLemma
  <2> QED BY <2>3 DEF IsFree
<1>10. CASE s < e /\ s < Limit /\ e > Limit
  <2>1. PICK P1, F1 : /\ P1 = physical_free_list_push(P, Pages(s, Limit), s, b)
                      /\ F1 = F \cup Span(s, Limit)
    OBVIOUS
  <2>2. Q = physical_free_list_push(P1, Pages(Limit, e), Limit, a)
    BY <1>2, <1>3, <1>4, <1>5, <1>10, <2>1
  <2>3. \A x : x \in Span(s, e) <=> x \in Span(s, Limit) \/ x \in Span(Limit, e)
    BY <1>2, <1>4, <1>10, SpanSplit
  <2>4. OnSide(b, s, Limit) /\ s # 0
    BY <1>2, <1>4, <1>5 DEF OnSide
  <2>5. \A x \in Span(s, Limit) : x \notin F
    BY <1>2, <2>3
  <2>6. \E K : Sound(P1, K, F1)
    BY <1>1, <1>2, <1>4, <1>6, <1>10, <2>1, <2>4, <2>5, PushLemma
  <2>7. PICK H1 : Sound(P1, H1, F1)
    BY <2>6
  <2>8. OnSide(a, Limit, e) /\ Limit # 0
    BY <1>4, <1>5 DEF OnSide
  <2>9. \A x \in Span(Limit, e) : x \notin F1
    <3>1. \A x \in Span(Limit, e) : x \notin Span(s, Limit)
      BY <1>4, FrameFacts DEF Span
    <3> QED BY <1>2, <2>1, <2>3, <3>1
  <2>10. G = F1 \cup Span(Limit, e)
    BY <2>1, <2>3
  <2>11. \E K : Sound(Q, K, G)
    BY <1>2, <1>4, <1>6, <1>10, <2>2, <2>7, <2>8, <2>9, <2>10, PushLemma
  <2> QED BY <2>11 DEF IsFree
<1> QED BY <1>2, <1>4, <1>7, <1>8, <1>9, <1>10

(* The types, whatever the board. *)
TypedP(P) == P \in PhysType /\ Fits(P)

LEMMA PushType ==
    ASSUME NEW P, NEW s, NEW n, NEW l, NEW Q,
           TypedP(P), s \in Frame, n \in Nat, s + PageSize * n <= Top, l \in Lists,
           Q = physical_free_list_push(P, n, s, l)
    PROVE  TypedP(Q)
<1>1. P.mem \in [Frame -> [next : Frame, length : Nat]] /\ P.head \in [Lists -> Frame]
  BY DEF PhysType, TypedP
<1>2. PICK h : h = [next |-> P.head[l], length |-> n]
  OBVIOUS
<1>3. h \in [next : Frame, length : Nat] /\ h.length = n
  BY <1>1, <1>2
<1>4. Q = [mem |-> [P.mem EXCEPT ![s] = h], head |-> [P.head EXCEPT ![l] = s]]
  BY <1>2 DEF physical_free_list_push
<1>5. Q \in PhysType
  BY <1>1, <1>3, <1>4 DEF PhysType
<1>6. Q.mem[s] = h /\ \A f \in Frame : f # s => Q.mem[f] = P.mem[f]
  BY <1>1, <1>4
<1>7. ASSUME NEW f \in Frame PROVE EndOf(Q, f) <= Top
  <2>1. CASE f = s
    BY <1>3, <1>6, <2>1 DEF EndOf
  <2>2. CASE f # s
    BY <1>6, <2>2 DEF EndOf, Fits, TypedP
  <2> QED BY <2>1, <2>2
<1> QED BY <1>5, <1>7 DEF Fits, TypedP

LEMMA PagesType ==
    ASSUME NEW s \in Frame, NEW e \in Frame, s <= e
    PROVE  Pages(s, e) \in Nat /\ s + PageSize * Pages(s, e) <= Top
<1>1. PageSize \in Nat /\ PageSize > 0 /\ s \in Nat /\ e \in Nat /\ e <= Top /\ Top \in Nat
  BY FrameFacts
<1>2. CASE s < e
  BY <1>1, <1>2, PagesFacts
<1>3. CASE s = e
  <2>1. 0 = PageSize * 0 + 0 /\ 0 \in 0..(PageSize - 1)
    BY <1>1
  <2>2. 0 \div PageSize = 0
    BY <1>1, <2>1, DivUnique
  <2>3. Pages(s, e) = 0
    BY <1>1, <1>3, <2>2 DEF Pages
  <2> QED BY <1>1, <1>3, <2>3
<1> QED BY <1>1, <1>2, <1>3

LEMMA ChunkType ==
    ASSUME NEW P, NEW lo, NEW hi, NEW Q, TypedP(P),
           lo \in Nat, hi \in Nat, lo <= Top, hi <= Top,
           Q = add_physical_chunk(P, lo, hi)
    PROVE  TypedP(Q)
<1>1. PICK s, e : s = align_up(lo) /\ e = align_down(hi)
  OBVIOUS
<1>2. s \in Frame /\ e \in Frame /\ s \in Nat /\ e \in Nat
  BY <1>1, AlignFacts, FrameFacts
<1>3. /\ Q = IF s >= e THEN P
             ELSE IF s >= Limit THEN physical_free_list_push(P, Pages(s, e), s, "above")
             ELSE IF e >= Limit
                  THEN physical_free_list_push(
                          physical_free_list_push(P, Pages(s, Limit), s, "below"),
                          Pages(Limit, e), Limit, "above")
             ELSE physical_free_list_push(P, Pages(s, e), s, "below")
  BY <1>1 DEF add_physical_chunk
<1>4. Limit \in Frame /\ Limit \in Nat
  BY FrameFacts
<1>5. PICK a, b : a = "above" /\ b = "below" /\ a \in Lists /\ b \in Lists
  BY DEF Lists
<1>6. ASSUME NEW R, NEW S, NEW x \in Frame, NEW y \in Frame, x <= y, NEW l \in Lists,
             TypedP(R), S = physical_free_list_push(R, Pages(x, y), x, l)
      PROVE  TypedP(S)
  <2>1. PICK n : n = Pages(x, y)
    OBVIOUS
  <2>2. n \in Nat /\ x + PageSize * n <= Top
    BY <1>6, <2>1, PagesType
  <2> QED BY <1>6, <2>1, <2>2, PushType
<1>7. CASE s >= e
  BY <1>3, <1>7
<1>8. CASE s < e /\ s >= Limit
  <2>1. Q = physical_free_list_push(P, Pages(s, e), s, a)
    BY <1>2, <1>3, <1>4, <1>5, <1>8
  <2> QED BY <1>2, <1>5, <1>6, <1>8, <2>1
<1>9. CASE s < e /\ s < Limit /\ e < Limit
  <2>1. Q = physical_free_list_push(P, Pages(s, e), s, b)
    BY <1>2, <1>3, <1>4, <1>5, <1>9
  <2> QED BY <1>2, <1>5, <1>6, <1>9, <2>1
<1>10. CASE s < e /\ s < Limit /\ e >= Limit
  <2>1. PICK P1 : P1 = physical_free_list_push(P, Pages(s, Limit), s, b)
    OBVIOUS
  <2>2. Q = physical_free_list_push(P1, Pages(Limit, e), Limit, a)
    BY <1>2, <1>3, <1>4, <1>5, <1>10, <2>1
  <2>3. TypedP(P1)
    BY <1>2, <1>4, <1>5, <1>6, <1>10, <2>1
  <2> QED BY <1>2, <1>4, <1>5, <1>6, <1>10, <2>2, <2>3
<1> QED BY <1>2, <1>4, <1>7, <1>8, <1>9, <1>10

LEMMA PopType ==
    ASSUME NEW P, NEW l, NEW h, NEW Q, TypedP(P), l \in Lists, h = P.head[l],
           P.mem[h].length # 0, Q = Overwrite(Pop(P, l), h)
    PROVE  TypedP(Q) /\ h \in Frame /\ h + PageSize <= Top
<1>1. P.mem \in [Frame -> [next : Frame, length : Nat]] /\ P.head \in [Lists -> Frame]
  BY DEF PhysType, TypedP
<1>2. PICK link, n : link = P.mem[h] /\ n = link.length
  OBVIOUS
<1>3. /\ h \in Frame /\ link \in [next : Frame, length : Nat] /\ n \in Nat /\ n > 0
      /\ link.next \in Frame
  BY <1>1, <1>2
<1>4. h + PageSize * n <= Top
  BY <1>2, <1>3 DEF TypedP, Fits, EndOf
<1>5. /\ h + PageSize \in Frame
      /\ (h + PageSize) + PageSize * (n - 1) = h + PageSize * n
  BY <1>3, <1>4, RunFacts
<1>6. h + PageSize <= Top
  BY <1>5, FrameFacts
<1>7. PICK m, k : m = h + PageSize /\ k = [next |-> link.next, length |-> n - 1]
  OBVIOUS
<1>8. k \in [next : Frame, length : Nat] /\ k.length = n - 1
  BY <1>3, <1>7
<1>9. PICK R : R = Pop(P, l)
  OBVIOUS
<1>10. TypedP(R)
  <2>1. CASE n = 1
    <3>1. R = [mem |-> P.mem, head |-> [P.head EXCEPT ![l] = link.next]]
      BY <1>2, <1>9, <2>1 DEF Pop, TypedP, PhysType
    <3>2. R \in PhysType /\ R.mem = P.mem
      BY <1>1, <1>3, <3>1 DEF PhysType
    <3> QED BY <3>2 DEF TypedP, Fits, EndOf
  <2>2. CASE n # 1
    <3>1. [link EXCEPT !.length = @ - 1] = k
      BY <1>2, <1>3, <1>7
    <3>2. R = [P EXCEPT !.head[l] = m, !.mem[m] = [link EXCEPT !.length = @ - 1]]
      BY <1>2, <1>7, <1>9, <2>2 DEF Pop
    <3>3. R = [mem |-> [P.mem EXCEPT ![m] = k], head |-> [P.head EXCEPT ![l] = m]]
      BY <3>1, <3>2 DEF TypedP, PhysType
    <3>4. m \in Frame
      BY <1>5, <1>7
    <3>5. R \in PhysType
      BY <1>1, <1>8, <3>3, <3>4 DEF PhysType
    <3>6. R.mem[m] = k /\ \A f \in Frame : f # m => R.mem[f] = P.mem[f]
      BY <1>1, <3>3, <3>4
    <3>7. ASSUME NEW f \in Frame PROVE EndOf(R, f) <= Top
      <4>1. CASE f = m
        <5>1. EndOf(R, f) = m + PageSize * (n - 1)
          BY <1>8, <3>6, <4>1 DEF EndOf
        <5> QED BY <1>4, <1>5, <1>7, <5>1
      <4>2. CASE f # m
        BY <3>6, <4>2 DEF EndOf, Fits, TypedP
      <4> QED BY <4>1, <4>2
    <3> QED BY <3>5, <3>7 DEF TypedP, Fits
  <2> QED BY <2>1, <2>2
<1>11. TypedP(Q)
  <2>1. R.mem \in [Frame -> [next : Frame, length : Nat]] /\ R.head \in [Lists -> Frame]
    BY <1>10 DEF PhysType, TypedP
  <2>2. PICK z : z = [next |-> 0, length |-> 0]
    OBVIOUS
  <2>3. z \in [next : Frame, length : Nat] /\ z.length = 0
    BY <2>2, FrameFacts
  <2>4. Q = [mem |-> [R.mem EXCEPT ![h] = z], head |-> R.head]
    BY <1>9, <1>10, <2>2 DEF Overwrite, TypedP, PhysType
  <2>5. Q \in PhysType
    <3>1. [R.mem EXCEPT ![h] = z] \in [Frame -> [next : Frame, length : Nat]]
      BY <2>1, <2>3
    <3> QED BY <2>1, <2>4, <3>1 DEF PhysType
  <2>6. Q.mem[h] = z /\ \A f \in Frame : f # h => Q.mem[f] = R.mem[f]
    BY <1>3, <2>1, <2>4
  <2>7. ASSUME NEW f \in Frame PROVE EndOf(Q, f) <= Top
    <3>1. CASE f = h
      <4>1. EndOf(Q, f) = f
        BY <2>3, <2>6, <3>1, FrameFacts DEF EndOf
      <4> QED BY <4>1, FrameFacts
    <3>2. CASE f # h
      BY <1>10, <2>6, <3>2 DEF EndOf, Fits, TypedP
    <3> QED BY <3>1, <3>2
  <2> QED BY <2>5, <2>7 DEF TypedP, Fits
<1> QED BY <1>3, <1>6, <1>11

-----------------------------------------------------------------------------
(* FlattenSeq, turn by turn. *)
FlattenRun(ss, g) ==
    /\ g[1] = ss[1]
    /\ \A n \in 1..(Len(ss) - 1) : g[n + 1] = g[n] \o ss[n + 1]

LEMMA FlattenLoop ==
    ASSUME NEW ss, Len(ss) \in Nat, Len(ss) > 0
    PROVE  \E g : FlattenRun(ss, g) /\ FlattenSeq(ss) = g[Len(ss)]
<1> DEFINE a == ss[1]
           N == Len(ss)
           Step(x, i) == x \o ss[i]
           Is(f, n) == f = [c \in 1..n |-> IF c = 1 THEN a ELSE Step(f[c - 1], c)]
           S == {n \in Nat : \E f : Is(f, n + 1)}
<1> HIDE DEF a, Step, N
<1>0. N \in Nat /\ N > 0
  BY DEF N
<1>1. 0 \in S
  <2>1. PICK f : f = [i \in 1..1 |-> a]
    OBVIOUS
  <2>2. Is(f, 1)
    BY <2>1
  <2> QED BY <2>2
<1>2. ASSUME NEW n \in Nat, n \in S PROVE n + 1 \in S
  <2>0. PICK m : m = n + 1 /\ m \in Nat /\ m > 0
    OBVIOUS
  <2>1. PICK f : Is(f, m)
    BY <1>2, <2>0
  <2>2. PICK g : g = [i \in 1..(m + 1) |-> IF i <= m THEN f[i] ELSE Step(f[m], m + 1)]
    OBVIOUS
  <2>3. ASSUME NEW i \in 1..(m + 1)
        PROVE  g[i] = IF i = 1 THEN a ELSE Step(g[i - 1], i)
    <3>1. CASE i = 1
      BY <2>0, <2>1, <2>2, <3>1
    <3>2. CASE i # 1 /\ i <= m
      <4>1. i \in 1..m /\ i - 1 \in 1..(m + 1) /\ i - 1 <= m
        BY <2>0, <3>2
      <4>2. f[i] = Step(f[i - 1], i)
        BY <2>1, <3>2, <4>1
      <4>3. g[i] = f[i] /\ g[i - 1] = f[i - 1]
        BY <2>2, <3>2, <4>1
      <4> QED BY <3>2, <4>2, <4>3
    <3>3. CASE i = m + 1
      <4>1. g[i] = Step(f[m], i) /\ g[m] = f[m] /\ i - 1 = m /\ i # 1
        BY <2>0, <2>2, <3>3
      <4> QED BY <4>1
    <3> QED BY <2>0, <3>1, <3>2, <3>3
  <2>4. Is(g, m + 1)
    BY <2>2, <2>3
  <2> QED BY <2>0, <2>4
<1>3. N - 1 \in S
  <2>1. N - 1 \in Nat
    BY <1>0
  <2> HIDE DEF S
  <2> QED BY <1>1, <1>2, <2>1, SetInduction
<1>4. PICK f : f = CHOOSE x : Is(x, N)
  OBVIOUS
<1>5. Is(f, N)
  <2>1. \E x : Is(x, (N - 1) + 1)
    BY <1>3
  <2>2. (N - 1) + 1 = N
    BY <1>0
  <2> QED BY <1>4, <2>1, <2>2
<1>6. FlattenSeq(ss) = f[N]
  <2>1. Len(ss) # 0
    BY <1>0 DEF N
  <2> QED BY <1>4, <2>1, Zenon DEF FlattenSeq, a, Step, N
<1>7. f[1] = a
  BY <1>0, <1>5
<1>8. ASSUME NEW i \in 1..(N - 1) PROVE f[i + 1] = Step(f[i], i + 1)
  <2>1. i + 1 \in 1..N /\ i + 1 # 1 /\ (i + 1) - 1 = i
    BY <1>0
  <2> QED BY <1>5, <2>1
<1>9. FlattenRun(ss, f)
  BY <1>7, <1>8 DEF a, Step, N, FlattenRun
<1> QED BY <1>6, <1>9 DEF N

(* flat has the elements of the first n of the sequences, and no others.   *)
FlatOf(flat, ss, n, X) ==
    /\ flat \in Seq(X)
    /\ \A i \in 1..Len(flat) : \E m \in 1..n : \E k \in 1..Len(ss[m]) : flat[i] = ss[m][k]
    /\ \A m \in 1..n : \A k \in 1..Len(ss[m]) : \E i \in 1..Len(flat) : flat[i] = ss[m][k]

LEMMA FlatStep ==
    ASSUME NEW u, NEW v, NEW ss, NEW n, NEW X, n \in Nat, FlatOf(u, ss, n, X),
           ss[n + 1] \in Seq(X), v = u \o ss[n + 1]
    PROVE  FlatOf(v, ss, n + 1, X)
<1>1. PICK w : w = ss[n + 1] /\ w \in Seq(X)
  OBVIOUS
<1>2. PICK p, q : p = Len(u) /\ q = Len(w)
  OBVIOUS
<1>3. /\ u \in Seq(X) /\ p \in Nat /\ q \in Nat /\ v \in Seq(X) /\ Len(v) = p + q
      /\ \A i \in 1..p : v[i] = u[i]
      /\ \A i \in 1..q : v[p + i] = w[i]
  BY <1>1, <1>2 DEF FlatOf
<1>4. ASSUME NEW i \in 1..Len(v)
      PROVE  \E m \in 1..(n + 1) : \E k \in 1..Len(ss[m]) : v[i] = ss[m][k]
  <2>1. CASE i <= p
    <3>1. i \in 1..Len(u) /\ v[i] = u[i]
      BY <1>2, <1>3, <2>1
    <3>2. PICK m \in 1..n : \E k \in 1..Len(ss[m]) : u[i] = ss[m][k]
      BY <3>1 DEF FlatOf
    <3> QED BY <3>1, <3>2
  <2>2. CASE i > p
    <3>1. PICK k : k = i - p /\ k \in 1..q /\ i = p + k
      BY <1>3, <2>2
    <3>2. v[i] = w[k]
      BY <1>3, <3>1
    <3>3. v[i] = ss[n + 1][k] /\ k \in 1..Len(ss[n + 1]) /\ n + 1 \in 1..(n + 1)
      BY <1>1, <1>2, <3>1, <3>2
    <3> QED BY <3>3
  <2> QED BY <1>3, <2>1, <2>2
<1>5. ASSUME NEW m \in 1..(n + 1), NEW k \in 1..Len(ss[m])
      PROVE  \E i \in 1..Len(v) : v[i] = ss[m][k]
  <2>1. CASE m <= n
    <3>1. m \in 1..n
      BY <2>1
    <3>2. PICK i \in 1..Len(u) : u[i] = ss[m][k]
      BY <3>1 DEF FlatOf
    <3>3. i \in 1..Len(v) /\ v[i] = u[i]
      BY <1>2, <1>3, <3>2
    <3> QED BY <3>2, <3>3
  <2>2. CASE m = n + 1
    <3>1. k \in 1..q /\ w[k] = ss[m][k]
      BY <1>1, <1>2, <2>2
    <3>2. p + k \in 1..Len(v) /\ v[p + k] = w[k]
      BY <1>3, <3>1
    <3> QED BY <3>1, <3>2
  <2> QED BY <2>1, <2>2
<1> QED BY <1>3, <1>4, <1>5 DEF FlatOf

LEMMA FlattenLemma ==
    ASSUME NEW ss, NEW X, ss \in Seq(Seq(X))
    PROVE  FlatOf(FlattenSeq(ss), ss, Len(ss), X)
<1>1. PICK N : N = Len(ss) /\ N \in Nat /\ \A n \in 1..N : ss[n] \in Seq(X)
  OBVIOUS
<1>2. CASE N = 0
  <2>1. FlattenSeq(ss) = <<>>
    <3>0. PICK Y : Y = Seq(X)
      OBVIOUS
    <3>1. Len(ss) = 0 /\ ss = <<>>
      <4>1. ss \in Seq(Y) /\ Len(ss) = 0
        BY <1>1, <1>2, <3>0
      <4> QED BY ONLY <4>1
    <3> QED BY <3>1, Zenon DEF FlattenSeq
  <2>2. Len(<<>>) = 0 /\ <<>> \in Seq(X)
    OBVIOUS
  <2>3. FlatOf(<<>>, ss, 0, X)
    BY <2>2 DEF FlatOf
  <2> QED BY <1>1, <1>2, <2>1, <2>3
<1>3. CASE N > 0
  <2>1. PICK g : FlattenRun(ss, g) /\ FlattenSeq(ss) = g[N]
    BY <1>1, <1>3, FlattenLoop
  <2> DEFINE T == {n \in Nat : n < N => FlatOf(g[n + 1], ss, n + 1, X)}
  <2>2. 0 \in T
    <3>1. g[1] = ss[1] /\ g[1] \in Seq(X)
      BY <1>1, <1>3, <2>1 DEF FlattenRun
    <3>2. FlatOf(g[1], ss, 1, X)
      BY <3>1 DEF FlatOf
    <3> QED BY <3>2
  <2>3. ASSUME NEW n \in Nat, n \in T PROVE n + 1 \in T
    <3> SUFFICES ASSUME n + 1 < N PROVE FlatOf(g[(n + 1) + 1], ss, (n + 1) + 1, X)
      OBVIOUS
    <3>1. PICK m : m = n + 1 /\ m \in Nat /\ m \in 1..(N - 1) /\ m + 1 \in 1..N
      BY <1>1
    <3>2. FlatOf(g[m], ss, m, X)
      BY <1>1, <2>3, <3>1
    <3>3. g[m + 1] = g[m] \o ss[m + 1] /\ ss[m + 1] \in Seq(X)
      BY <1>1, <2>1, <3>1 DEF FlattenRun
    <3>4. PICK u, v : u = g[m] /\ v = g[m + 1]
      OBVIOUS
    <3>5. FlatOf(v, ss, m + 1, X)
      BY <3>1, <3>2, <3>3, <3>4, FlatStep
    <3> QED BY <3>1, <3>4, <3>5
  <2>4. N - 1 \in T
    <3>1. N - 1 \in Nat
      BY <1>1, <1>3
    <3> HIDE DEF T
    <3> QED BY <2>2, <2>3, <3>1, SetInduction
  <2>5. FlatOf(g[N], ss, N, X)
    <3>1. (N - 1) + 1 = N /\ N - 1 < N
      BY <1>1
    <3> QED BY <2>4, <3>1
  <2> QED BY <1>1, <2>1, <2>5
<1> QED BY <1>1, <1>2, <1>3

(* Of sequences that are half as long, at most as many elements are left,  *)
(* and as many only if none had a second one.                              *)
Halved(ss, tt, X, Y) ==
    /\ ss \in Seq(Seq(X)) /\ tt \in Seq(Seq(Y)) /\ Len(tt) = Len(ss)
    /\ \A n \in 1..Len(ss) : Len(tt[n]) = (Len(ss[n]) + 1) \div 2

LEMMA HalfLemma ==
    ASSUME NEW ss, NEW tt, NEW X, NEW Y, Halved(ss, tt, X, Y),
           Len(FlattenSeq(tt)) = Len(FlattenSeq(ss))
    PROVE  \A n \in 1..Len(ss) : Len(ss[n]) <= 1
<1>1. PICK N : /\ N = Len(ss) /\ N = Len(tt) /\ N \in Nat
               /\ \A n \in 1..N : ss[n] \in Seq(X) /\ tt[n] \in Seq(Y)
  BY DEF Halved
<1>2. CASE N = 0
  BY <1>1, <1>2
<1>3. CASE N > 0
  <2>1. PICK g : FlattenRun(ss, g) /\ FlattenSeq(ss) = g[N]
    BY <1>1, <1>3, FlattenLoop
  <2>2. PICK h : FlattenRun(tt, h) /\ FlattenSeq(tt) = h[N]
    BY <1>1, <1>3, FlattenLoop
  <2> DEFINE Fine(n) == /\ g[n] \in Seq(X) /\ h[n] \in Seq(Y) /\ Len(h[n]) <= Len(g[n])
                        /\ Len(h[n]) = Len(g[n]) => \A m \in 1..n : Len(ss[m]) <= 1
             T == {n \in Nat : n < N => Fine(n + 1)}
  <2>3. ASSUME NEW n \in 1..N
        PROVE  /\ Len(ss[n]) \in Nat /\ Len(tt[n]) \in Nat /\ Len(tt[n]) <= Len(ss[n])
               /\ Len(tt[n]) = Len(ss[n]) => Len(ss[n]) <= 1
    <3>1. PICK a, b : a = Len(ss[n]) /\ b = Len(tt[n])
      OBVIOUS
    <3>0. Len(tt[n]) = (Len(ss[n]) + 1) \div 2
      BY <1>1 DEF Halved
    <3>2. a \in Nat /\ b = (a + 1) \div 2
      BY <1>1, <3>0, <3>1
    <3>3. b \in Nat /\ b <= a /\ (b = a => a <= 1)
      BY <3>2
    <3> QED BY <3>1, <3>2, <3>3
  <2>4. 0 \in T
    <3>1. g[1] = ss[1] /\ h[1] = tt[1] /\ 1 \in 1..N
      BY <1>1, <1>3, <2>1, <2>2 DEF FlattenRun
    <3>2. Fine(1)
      BY <1>1, <2>3, <3>1
    <3> QED BY <3>2
  <2>5. ASSUME NEW n \in Nat, n \in T, n + 1 < N PROVE Fine((n + 1) + 1)
    <3>1. PICK m : m = n + 1 /\ m \in Nat /\ m \in 1..(N - 1) /\ m + 1 \in 1..N
      BY <1>1, <2>5
    <3>2. Fine(m)
      BY <1>1, <2>5, <3>1
    <3>3. PICK u, v, x, y : u = g[m] /\ v = h[m] /\ x = ss[m + 1] /\ y = tt[m + 1]
      OBVIOUS
    <3>4. g[m + 1] = u \o x /\ h[m + 1] = v \o y /\ x \in Seq(X) /\ y \in Seq(Y)
      BY <1>1, <2>1, <2>2, <3>1, <3>3 DEF FlattenRun
    <3>5. u \in Seq(X) /\ v \in Seq(Y) /\ Len(v) <= Len(u)
      BY <3>2, <3>3
    <3>6. /\ u \o x \in Seq(X) /\ v \o y \in Seq(Y)
          /\ Len(u \o x) = Len(u) + Len(x) /\ Len(v \o y) = Len(v) + Len(y)
      BY <3>4, <3>5
    <3>7. Len(x) \in Nat /\ Len(y) \in Nat /\ Len(y) <= Len(x) /\ (Len(y) = Len(x) => Len(x) <= 1)
      BY <2>3, <3>1, <3>3
    <3>8. Len(u) \in Nat /\ Len(v) \in Nat
      BY <3>5
    <3>9. /\ Len(v) + Len(y) <= Len(u) + Len(x)
          /\ Len(v) + Len(y) = Len(u) + Len(x) => Len(v) = Len(u) /\ Len(x) <= 1
      BY <3>5, <3>7, <3>8
    <3>10. ASSUME Len(h[m + 1]) = Len(g[m + 1]), NEW k \in 1..(m + 1) PROVE Len(ss[k]) <= 1
      <4>1. Len(v) = Len(u) /\ Len(x) <= 1
        BY <3>4, <3>6, <3>9, <3>10
      <4>2. CASE k = m + 1
        BY <3>3, <4>1, <4>2
      <4>3. CASE k # m + 1
        <5>1. k \in 1..m
          BY <3>1, <4>3
        <5> QED BY <3>2, <3>3, <4>1, <5>1
      <4> QED BY <4>2, <4>3
    <3>11. g[m + 1] \in Seq(X) /\ h[m + 1] \in Seq(Y) /\ Len(h[m + 1]) <= Len(g[m + 1])
      BY <3>4, <3>6, <3>9
    <3>12. Fine(m + 1)
      BY <3>10, <3>11
    <3> QED BY <3>1, <3>12
  <2>6. ASSUME NEW n \in Nat, n \in T PROVE n + 1 \in T
    <3> HIDE DEF Fine
    <3> QED BY <2>5, <2>6
  <2>7. N - 1 \in T
    <3>1. N - 1 \in Nat
      BY <1>1, <1>3
    <3> HIDE DEF T
    <3> QED BY <2>4, <2>6, <3>1, SetInduction
  <2>8. Fine(N)
    <3>1. (N - 1) + 1 = N /\ N - 1 < N
      BY <1>1
    <3> QED BY <2>7, <3>1
  <2> QED BY <1>1, <2>1, <2>2, <2>8
<1> QED BY <1>1, <1>2, <1>3

(* The array of reserved_memory_to_array. *)
Interval == [start : Nat, end : Nat]

ArrayOK(b, A) ==
    /\ A \in Seq(Interval)
    /\ \A i \in 1..Len(A) : \E r \in Entries(b.reserved) : A[i] = Range_of(r)
ArrayFull(b, A) == \A r \in Entries(b.reserved) : \E i \in 1..Len(A) : A[i] = Range_of(r)

LEMMA RegFacts ==
    ASSUME NEW r \in RegEntry
    PROVE  /\ r.addr \in Nat /\ r.size \in Nat /\ r.addr + r.size <= Top
           /\ Range_of(r) \in Interval
           /\ Range_of(r).start = r.addr /\ Range_of(r).end = r.addr + r.size
<1>1. r.addr \in Nat /\ r.size \in Nat /\ r.addr + r.size <= Top
  BY FrameFacts DEF RegEntry, Address
<1> QED BY <1>1 DEF Range_of, Interval

LEMMA SeqSeqFacts ==
    ASSUME NEW X, NEW ss, ss \in Seq(Seq(X))
    PROVE  /\ Len(ss) \in Nat /\ DOMAIN ss = 1..Len(ss)
           /\ \A n \in 1..Len(ss) : ss[n] \in Seq(X)
<1>1. PICK Y : Y = Seq(X)
  OBVIOUS
<1>2. ss \in Seq(Y)
  BY <1>1
<1>3. /\ Len(ss) \in Nat /\ DOMAIN ss = 1..Len(ss)
      /\ \A n \in 1..Len(ss) : ss[n] \in Y
  BY ONLY <1>2
<1> QED BY ONLY <1>1, <1>3

LEMMA EntriesFacts ==
    ASSUME NEW regs, regs \in Seq(Seq(RegEntry))
    PROVE  /\ \A r : r \in Entries(regs) <=> \E n \in 1..Len(regs) : \E k \in 1..Len(regs[n]) : r = regs[n][k]
           /\ Entries(regs) \subseteq RegEntry
<1>1. DOMAIN regs = 1..Len(regs) /\ \A n \in 1..Len(regs) : regs[n] \in Seq(RegEntry)
  BY ONLY regs \in Seq(Seq(RegEntry)), SeqSeqFacts
<1>2. ASSUME NEW n \in 1..Len(regs)
      PROVE  /\ \A r : r \in Range(regs[n]) <=> \E k \in 1..Len(regs[n]) : r = regs[n][k]
             /\ \A k \in 1..Len(regs[n]) : regs[n][k] \in RegEntry
  <2>1. PICK s : s = regs[n] /\ s \in Seq(RegEntry)
    BY <1>1
  <2>2. DOMAIN s = 1..Len(s) /\ \A k \in 1..Len(s) : s[k] \in RegEntry
    BY <2>1
  <2>3. \A r : r \in Range(s) <=> \E k \in 1..Len(s) : r = s[k]
    BY <2>2 DEF Range
  <2> QED BY <2>1, <2>2, <2>3
<1>3. \A r : r \in Entries(regs) <=> \E n \in 1..Len(regs) : r \in Range(regs[n])
  BY <1>1 DEF Entries
<1>4. ASSUME NEW r, r \in Entries(regs)
      PROVE  \E n \in 1..Len(regs) : \E k \in 1..Len(regs[n]) : r = regs[n][k]
  <2>1. PICK n \in 1..Len(regs) : r \in Range(regs[n])
    BY <1>3, <1>4
  <2>2. \E k \in 1..Len(regs[n]) : r = regs[n][k]
    BY <1>2, <2>1
  <2> QED BY <2>2
<1>5. ASSUME NEW r, NEW n \in 1..Len(regs), NEW k \in 1..Len(regs[n]), r = regs[n][k]
      PROVE  r \in Entries(regs) /\ r \in RegEntry
  BY <1>2, <1>3, <1>5
<1>6. \A r : r \in Entries(regs) <=> \E n \in 1..Len(regs) : \E k \in 1..Len(regs[n]) : r = regs[n][k]
  BY <1>4, <1>5
<1>7. \A r \in Entries(regs) : r \in RegEntry
  BY <1>4, <1>5
<1> QED BY <1>6, <1>7

LEMMA ReadFacts ==
    ASSUME NEW reg, reg \in Seq(RegEntry)
    PROVE  /\ EntriesRead(reg) \in Seq(Interval)
           /\ Len(EntriesRead(reg)) = (Len(reg) + 1) \div 2
           /\ \A k \in 1..Len(EntriesRead(reg)) :
                 \E j \in 1..Len(reg) : EntriesRead(reg)[k] = Range_of(reg[j])
           /\ Len(reg) <= 1 => \A j \in 1..Len(reg) :
                 j \in 1..Len(EntriesRead(reg)) /\ EntriesRead(reg)[j] = Range_of(reg[j])
<1>1. PICK L, n : L = Len(reg) /\ n = (L + 1) \div 2
  OBVIOUS
<1>2. L \in Nat /\ \A j \in 1..L : reg[j] \in RegEntry
  BY <1>1
<1>3. n \in Nat /\ (L <= 1 => n = L)
  BY <1>1, <1>2
<1>4. ASSUME NEW k \in 1..n PROVE 2 * k - 1 \in 1..L
  BY <1>1, <1>2
<1>5. PICK e : e = [k \in 1..n |-> Range_of(reg[2 * k - 1])]
  OBVIOUS
<1>6. e = EntriesRead(reg)
  BY <1>1, <1>5 DEF EntriesRead
<1>7. \A k \in 1..n : e[k] = Range_of(reg[2 * k - 1]) /\ e[k] \in Interval
  BY <1>2, <1>4, <1>5, RegFacts
<1>8. e \in [1..n -> Interval]
  BY <1>5, <1>7
<1>9. e \in Seq(Interval) /\ Len(e) = n
  BY <1>3, <1>5, <1>8
<1>10. ASSUME NEW k \in 1..n PROVE \E j \in 1..L : e[k] = Range_of(reg[j])
  BY <1>4, <1>7
<1>11. ASSUME L <= 1, NEW j \in 1..L PROVE j \in 1..n /\ e[j] = Range_of(reg[j])
  <2>1. j = 1 /\ n = 1 /\ 2 * 1 - 1 = 1
    BY <1>2, <1>3, <1>11
  <2>2. e[1] = Range_of(reg[2 * 1 - 1])
    BY <1>7, <2>1
  <2> QED BY <2>1, <2>2
<1> QED BY <1>1, <1>6, <1>9, <1>10, <1>11

LEMMA ArrayLemma ==
    ASSUME NEW b, NEW A, b \in Board, A = ArrayOf(b)
    PROVE  /\ ArrayOK(b, A)
           /\ Len(A) = Len(FlattenSeq(b.reserved)) => ArrayFull(b, A)
<1>1. PICK ss : ss = b.reserved /\ ss \in Seq(Seq(RegEntry))
  BY DEF Board
<1>2. PICK N : N = Len(ss) /\ N \in Nat /\ DOMAIN ss = 1..N /\ \A n \in 1..N : ss[n] \in Seq(RegEntry)
  BY ONLY <1>1, SeqSeqFacts
<1>3. PICK tt : tt = [n \in 1..N |-> EntriesRead(ss[n])]
  OBVIOUS
<1>4. A = FlattenSeq(tt)
  BY <1>1, <1>2, <1>3 DEF ArrayOf
<1>5. \A n \in 1..N : tt[n] = EntriesRead(ss[n]) /\ tt[n] \in Seq(Interval)
  BY <1>2, <1>3, ReadFacts
<1>6. tt \in Seq(Seq(Interval)) /\ Len(tt) = N
  <2>1. PICK Y : Y = Seq(Interval)
    OBVIOUS
  <2>2. tt \in [1..N -> Y]
    BY <1>3, <1>5, <2>1
  <2>3. tt \in Seq(Y) /\ Len(tt) = N
    BY <1>2, <1>3, <2>2
  <2> QED BY <2>1, <2>3
<1>7. FlatOf(A, tt, N, Interval)
  <2>1. FlatOf(FlattenSeq(tt), tt, Len(tt), Interval)
    BY <1>6, FlattenLemma
  <2> QED BY <1>4, <1>6, <2>1
<1>8. \A r : r \in Entries(ss) <=> \E n \in 1..N : \E k \in 1..Len(ss[n]) : r = ss[n][k]
  BY <1>1, <1>2, EntriesFacts
<1>9. ASSUME NEW i \in 1..Len(A) PROVE \E r \in Entries(ss) : A[i] = Range_of(r)
  <2>1. PICK n \in 1..N : \E k \in 1..Len(tt[n]) : A[i] = tt[n][k]
    BY <1>7 DEF FlatOf
  <2>2. PICK k \in 1..Len(tt[n]) : A[i] = tt[n][k]
    BY <2>1
  <2>3. PICK reg : reg = ss[n] /\ reg \in Seq(RegEntry) /\ tt[n] = EntriesRead(reg)
    BY ONLY <1>2, <1>5, n \in 1..N
  <2>6. reg \in Seq(RegEntry) /\ k \in 1..Len(EntriesRead(reg))
    BY ONLY <2>3, k \in 1..Len(tt[n])
  <2>4. PICK j \in 1..Len(reg) : EntriesRead(reg)[k] = Range_of(reg[j])
    BY ONLY <2>6, ReadFacts
  <2>5. reg[j] \in Entries(ss)
    BY ONLY <1>8, <2>3, n \in 1..N, j \in 1..Len(reg)
  <2> QED BY <2>2, <2>3, <2>4, <2>5
<1>10. ArrayOK(b, A)
  BY <1>1, <1>7, <1>9 DEF ArrayOK, FlatOf
<1>11. ASSUME Len(A) = Len(FlattenSeq(ss)), NEW r \in Entries(ss)
       PROVE  \E i \in 1..Len(A) : A[i] = Range_of(r)
  <2>1. Halved(ss, tt, RegEntry, Interval)
    <3>1. \A n \in 1..N : Len(tt[n]) = (Len(ss[n]) + 1) \div 2
      BY <1>2, <1>5, ReadFacts
    <3> QED BY <1>1, <1>2, <1>6, <3>1 DEF Halved
  <2>2. \A n \in 1..N : Len(ss[n]) <= 1
    BY <1>2, <1>4, <1>11, <2>1, HalfLemma
  <2>3. PICK n \in 1..N : \E k \in 1..Len(ss[n]) : r = ss[n][k]
    BY <1>8, <1>11
  <2>4. PICK k \in 1..Len(ss[n]) : r = ss[n][k]
    BY <2>3
  <2>5. PICK reg : reg = ss[n] /\ reg \in Seq(RegEntry) /\ tt[n] = EntriesRead(reg) /\ Len(reg) <= 1
    BY <1>2, <1>5, <2>2
  <2>6. k \in 1..Len(EntriesRead(reg)) /\ EntriesRead(reg)[k] = Range_of(reg[k])
    BY <2>4, <2>5, ReadFacts
  <2>7. k \in 1..Len(tt[n]) /\ tt[n][k] = Range_of(r)
    BY <2>4, <2>5, <2>6
  <2>8. \E i \in 1..Len(A) : A[i] = tt[n][k]
    BY <1>7, <2>7 DEF FlatOf
  <2> QED BY <2>7, <2>8
<1>12. Len(A) = Len(FlattenSeq(b.reserved)) => ArrayFull(b, A)
  BY <1>1, <1>11 DEF ArrayFull
<1> QED BY <1>10, <1>12

(* The first and the last index of a set of them. *)
LEMMA MaxLemma ==
    ASSUME NEW n \in Nat, NEW S, S \in SUBSET (1..n), S # {}
    PROVE  Max(S) \in S /\ \A y \in S : y <= Max(S)
<1> DEFINE Has(m) == \A T \in SUBSET (1..m) : T # {} => \E x \in T : \A y \in T : x >= y
           U == {m \in Nat : Has(m)}
<1>1. 0 \in U
  <2>1. 1..0 = {}
    OBVIOUS
  <2>2. Has(0)
    BY <2>1
  <2> QED BY <2>2
<1>2. ASSUME NEW m \in Nat, m \in U PROVE m + 1 \in U
  <2> SUFFICES ASSUME NEW T \in SUBSET (1..(m + 1)), T # {}
               PROVE  \E x \in T : \A y \in T : x >= y
    OBVIOUS
  <2>1. CASE m + 1 \in T
    BY <2>1
  <2>2. CASE m + 1 \notin T
    <3>1. T \in SUBSET (1..m)
      BY <2>2
    <3> QED BY <1>2, <3>1
  <2> QED BY <2>1, <2>2
<1>3. n \in U
  <2> HIDE DEF U
  <2> QED BY <1>1, <1>2, SetInduction
<1>4. PICK x \in S : \A y \in S : x >= y
  BY <1>3
<1>5. Max(S) \in S /\ \A y \in S : Max(S) >= y
  BY <1>4 DEF Max
<1> QED BY <1>5

LEMMA MinLemma ==
    ASSUME NEW n \in Nat, NEW S, S \in SUBSET (1..n), S # {}
    PROVE  Min(S) \in S
<1>1. PICK R : R = OpToRel(<, Nat)
  OBVIOUS
<1>2. IsWellFoundedOn(R, Nat)
  BY <1>1, NatLessThanWellFounded
<1>3. S \subseteq Nat
  OBVIOUS
<1>4. PICK x \in S : \A y \in S : ~(<<y, x>> \in R)
  BY <1>2, <1>3, WFMin
<1>5. ASSUME NEW y \in S PROVE x =< y
  <2> SUFFICES ASSUME y < x PROVE FALSE
    BY <1>3
  <2>1. <<y, x>> \in R
    BY <1>1, <1>3 DEF OpToRel
  <2> QED BY <1>4, <2>1
<1> QED BY <1>5 DEF Min

-----------------------------------------------------------------------------
(* What mm_init_physical finds.  The frames of node n that are RAM and not *)
(* reserved; those found when the nodes before n are done and node n has   *)
(* been considered up to a; no such frame lies across a.                   *)
Taken(b, f) == \E r \in Entries(b.reserved) : ~ClearOf(f, r)

UsableIn(b, n, f) == /\ f \in Frame /\ f # 0 /\ ~Taken(b, f)
                     /\ \E r \in Range(b.memory[n]) : Within(f, r)

Before(k, f, n, a) == k < n \/ (k = n /\ f < a)

IsFound(b, n, a, f) == \E k \in DOMAIN b.memory : UsableIn(b, k, f) /\ Before(k, f, n, a)

Found(b, n, a) == {f \in Frame : IsFound(b, n, a, f)}

Clean(b, n, a) == \A f \in Frame : UsableIn(b, n, f) => f + PageSize <= a \/ a <= f

Region(b, n, m) == n \in DOMAIN b.memory /\ m \in Entries(b.memory) /\ Range(b.memory[n]) = {m}

Considering(b, n, m, A, a, z) ==
    /\ Region(b, n, m) /\ z = m.addr + m.size
    /\ a \in Nat /\ m.addr <= a /\ a <= Top /\ Clean(b, n, a)
    /\ A = ArrayOf(b) /\ ArrayFull(b, A)

LEMMA RegionFacts ==
    ASSUME NEW b, NEW n, NEW m, b \in Board, Region(b, n, m)
    PROVE  /\ m \in RegEntry /\ m.addr \in Nat /\ m.size \in Nat /\ m.addr + m.size <= Top
           /\ b.memory \in Seq(Seq(RegEntry)) /\ b.reserved \in Seq(Seq(RegEntry))
           /\ DOMAIN b.memory \subseteq Nat /\ n \in Nat
<1>1. b.memory \in Seq(Seq(RegEntry)) /\ b.reserved \in Seq(Seq(RegEntry))
  BY DEF Board
<1>2. PICK ss : ss = b.memory /\ ss \in Seq(Seq(RegEntry))
  BY <1>1
<1>3. Entries(ss) \subseteq RegEntry
  BY <1>2, EntriesFacts
<1>4. m \in RegEntry
  BY <1>2, <1>3 DEF Region
<1>5. DOMAIN ss \subseteq Nat
  BY <1>2
<1> QED BY <1>1, <1>2, <1>4, <1>5, RegFacts DEF Region

LEMMA FrameIs ==
    ASSUME NEW f \in Frame
    PROVE  f \in Nat /\ f <= Top /\ PageSize \in Nat /\ PageSize > 0
BY FrameFacts

(* The frames between the rounded ends are those that fit. *)
LEMMA InSpan ==
    ASSUME NEW lo \in Nat, NEW hi \in Nat, lo <= Top, hi <= Top, NEW f \in Frame
    PROVE  f \in Span(align_up(lo), align_down(hi)) <=> lo <= f /\ f + PageSize <= hi
<1>1. PICK s, e : s = align_up(lo) /\ e = align_down(hi)
  OBVIOUS
<1>2. /\ s \in Frame /\ lo <= s /\ s < lo + PageSize
      /\ e \in Frame /\ e <= hi /\ hi < e + PageSize
  BY <1>1, AlignFacts
<1>3. /\ s \in Nat /\ e \in Nat /\ f \in Nat /\ Aligned(s) /\ Aligned(e) /\ Aligned(f)
      /\ PageSize \in Nat /\ PageSize > 0
  BY <1>2, FrameFacts
<1>4. ASSUME s <= f, f < e PROVE lo <= f /\ f + PageSize <= hi
  <2>1. f + PageSize <= e
    BY <1>3, <1>4, Gap
  <2> QED BY <1>2, <1>3, <1>4, <2>1
<1>5. ASSUME lo <= f, f + PageSize <= hi PROVE s <= f /\ f < e
  <2>1. s <= f
    <3> SUFFICES ASSUME f < s PROVE FALSE
      BY <1>3
    <3>1. f + PageSize <= s
      BY <1>3, Gap
    <3> QED BY <1>2, <1>3, <1>5, <3>1
  <2>2. f < e
    <3> SUFFICES ASSUME e <= f PROVE FALSE
      BY <1>3
    <3> QED BY <1>2, <1>3, <1>5
  <2> QED BY <2>1, <2>2
<1>6. f \in Span(s, e) <=> s <= f /\ f < e
  BY DEF Span
<1> QED BY <1>1, <1>4, <1>5, <1>6

(* The i-th reservation is an entry, and a frame that is not taken is      *)
(* clear of it.                                                            *)
Reserves(A, i, r) == A[i].start = r.addr /\ A[i].end = r.addr + r.size

LEMMA ReservationFacts ==
    ASSUME NEW b, NEW A, NEW i, b \in Board, ArrayOK(b, A), i \in 1..Len(A)
    PROVE  \E r \in Entries(b.reserved) : r \in RegEntry /\ Reserves(A, i, r)
<1>1. PICK r \in Entries(b.reserved) : A[i] = Range_of(r)
  BY DEF ArrayOK
<1>2. PICK ss : ss = b.reserved /\ ss \in Seq(Seq(RegEntry))
  BY DEF Board
<1>3. Entries(ss) \subseteq RegEntry
  BY <1>2, EntriesFacts
<1>4. r \in RegEntry
  BY <1>1, <1>2, <1>3
<1>5. Reserves(A, i, r)
  BY <1>1, <1>4, RegFacts DEF Reserves
<1> QED BY <1>4, <1>5

LEMMA EntryReserves ==
    ASSUME NEW b, NEW A, NEW r, b \in Board, ArrayFull(b, A), r \in Entries(b.reserved)
    PROVE  r \in RegEntry /\ \E i \in 1..Len(A) : Reserves(A, i, r)
<1>1. PICK i \in 1..Len(A) : A[i] = Range_of(r)
  BY DEF ArrayFull
<1>2. PICK ss : ss = b.reserved /\ ss \in Seq(Seq(RegEntry))
  BY DEF Board
<1>3. Entries(ss) \subseteq RegEntry
  BY <1>2, EntriesFacts
<1>4. r \in RegEntry
  BY <1>2, <1>3
<1>5. Reserves(A, i, r)
  BY <1>1, <1>4, RegFacts DEF Reserves
<1> QED BY <1>4, <1>5

LEMMA ClearFacts ==
    ASSUME NEW b, NEW f, NEW r, f \in Frame, ~Taken(b, f), r \in Entries(b.reserved),
           r \in RegEntry, r.size > 0
    PROVE  f + PageSize <= r.addr \/ r.addr + r.size <= f
<1>1. ClearOf(f, r)
  BY DEF Taken
<1>2. r.size \in Nat
  BY RegFacts
<1> QED BY <1>1, <1>2 DEF ClearOf

LEMMA FoundSame ==
    ASSUME NEW b, NEW n, NEW a, NEW o, NEW c,
           \A f \in Frame : \A k \in DOMAIN b.memory :
              UsableIn(b, k, f) => (Before(k, f, n, a) <=> Before(k, f, o, c))
    PROVE  Found(b, n, a) = Found(b, o, c)
<1>1. ASSUME NEW f \in Frame PROVE IsFound(b, n, a, f) <=> IsFound(b, o, c, f)
  BY DEF IsFound
<1> QED BY <1>1 DEF Found

LEMMA UsableFacts ==
    ASSUME NEW b, NEW n, NEW m, NEW f, b \in Board, Region(b, n, m), UsableIn(b, n, f)
    PROVE  /\ f \in Frame /\ f \in Nat /\ m.addr <= f /\ f + PageSize <= m.addr + m.size
           /\ f < m.addr + m.size
<1>1. m.addr \in Nat /\ m.size \in Nat
  BY RegionFacts
<1>2. f \in Frame /\ m.addr <= f /\ f + PageSize <= m.addr + m.size
  BY DEF UsableIn, Region, Within
<1> QED BY <1>1, <1>2, FrameIs

(* The start of a region, its end, and the nodes without one. *)
LEMMA StartLemma ==
    ASSUME NEW b, NEW n, NEW m, b \in Board, Region(b, n, m)
    PROVE  Clean(b, n, m.addr) /\ Found(b, n, m.addr) = Found(b, n, 0)
<1>1. ASSUME NEW f \in Frame, UsableIn(b, n, f) PROVE m.addr <= f /\ ~(f < m.addr) /\ ~(f < 0)
  <2>1. f \in Nat /\ m.addr <= f /\ m.addr \in Nat
    BY <1>1, UsableFacts, RegionFacts
  <2> QED BY <2>1
<1>2. Clean(b, n, m.addr)
  BY <1>1 DEF Clean
<1>3. Found(b, n, m.addr) = Found(b, n, 0)
  <2>1. ASSUME NEW f \in Frame, NEW k \in DOMAIN b.memory, UsableIn(b, k, f)
        PROVE  Before(k, f, n, m.addr) <=> Before(k, f, n, 0)
    BY <1>1, <2>1 DEF Before
  <2> QED BY <2>1, FoundSame
<1> QED BY <1>2, <1>3

LEMMA EndLemma ==
    ASSUME NEW b, NEW n, NEW m, NEW a, b \in Board, Region(b, n, m), a \in Nat, a >= m.addr + m.size
    PROVE  Found(b, n, a) = Found(b, n + 1, 0)
<1>1. m.addr \in Nat /\ m.size \in Nat /\ n \in Nat /\ DOMAIN b.memory \subseteq Nat
  BY RegionFacts
<1>2. ASSUME NEW f \in Frame, NEW k \in DOMAIN b.memory, UsableIn(b, k, f)
      PROVE  Before(k, f, n, a) <=> Before(k, f, n + 1, 0)
  <2>1. f \in Nat /\ k \in Nat
    BY <1>1, FrameIs
  <2>2. CASE k = n
    <3>1. f < m.addr + m.size
      BY <1>2, <2>2, UsableFacts
    <3>2. f < a /\ k < n + 1
      BY <1>1, <2>1, <2>2, <3>1
    <3> QED BY <2>2, <3>2 DEF Before
  <2>3. CASE k # n
    <3>1. k < n <=> k < n + 1
      BY <1>1, <2>1, <2>3
    <3>2. ~(f < 0)
      BY <2>1
    <3> QED BY <2>3, <3>1, <3>2 DEF Before
  <2> QED BY <2>2, <2>3
<1> QED BY <1>2, FoundSame

LEMMA EmptyNode ==
    ASSUME NEW b, NEW n, b \in Board, n \in DOMAIN b.memory, Len(b.memory[n]) = 0
    PROVE  Found(b, n, 0) = Found(b, n + 1, 0)
<1>1. PICK ss : ss = b.memory /\ ss \in Seq(Seq(RegEntry))
  BY DEF Board
<1>2. n \in Nat /\ DOMAIN ss \subseteq Nat /\ ss[n] \in Seq(RegEntry)
  BY <1>1
<1>3. PICK s : s = ss[n] /\ s \in Seq(RegEntry) /\ Len(s) = 0
  BY <1>1, <1>2
<1>4. Range(b.memory[n]) = {}
  <2>1. DOMAIN s = {}
    BY <1>3
  <2> QED BY <1>1, <1>3, <2>1 DEF Range
<1>5. ASSUME NEW f \in Frame, NEW k \in DOMAIN b.memory, UsableIn(b, k, f)
      PROVE  Before(k, f, n, 0) <=> Before(k, f, n + 1, 0)
  <2>1. k # n
    BY <1>4, <1>5 DEF UsableIn
  <2>2. k \in Nat /\ (k < n <=> k < n + 1)
    BY <1>1, <1>2, <2>1
  <2>3. f \in Nat /\ ~(f < 0)
    BY FrameIs
  <2> QED BY <2>1, <2>2, <2>3 DEF Before
<1> QED BY <1>5, FoundSame

LEMMA NoNode ==
    ASSUME NEW b, b \in Board
    PROVE  Found(b, 1, 0) = {}
<1>1. PICK ss : ss = b.memory /\ ss \in Seq(Seq(RegEntry))
  BY DEF Board
<1>2. \A k \in DOMAIN ss : k \in Nat /\ k > 0
  BY <1>1
<1>3. ASSUME NEW f \in Frame, NEW k \in DOMAIN b.memory PROVE ~Before(k, f, 1, 0)
  <2>1. k \in Nat /\ k > 0 /\ f \in Nat
    BY <1>1, <1>2, FrameIs
  <2>2. ~(k < 1) /\ ~(f < 0)
    BY <2>1
  <2> QED BY <2>2 DEF Before
<1> QED BY <1>3 DEF Found, IsFound

(* All the frames of unreserved RAM. *)
UsableSet(b) == {f \in Frame : \E k \in DOMAIN b.memory : UsableIn(b, k, f)}

LEMMA AllNodes ==
    ASSUME NEW b, NEW n, b \in Board, n \in Nat, n > Len(b.memory)
    PROVE  Found(b, n, 0) = UsableSet(b)
<1>1. PICK ss : ss = b.memory /\ ss \in Seq(Seq(RegEntry))
  BY DEF Board
<1>2. PICK N : N = Len(ss) /\ N \in Nat /\ DOMAIN ss = 1..N
  BY <1>1
<1>3. ASSUME NEW f, NEW k \in DOMAIN b.memory PROVE Before(k, f, n, 0)
  <2>1. k < n
    BY <1>1, <1>2
  <2> QED BY <2>1 DEF Before
<1>4. ASSUME NEW f \in Frame PROVE IsFound(b, n, 0, f) <=> \E k \in DOMAIN b.memory : UsableIn(b, k, f)
  BY <1>3 DEF IsFound
<1> QED BY <1>4 DEF Found, UsableSet

LEMMA UsableIs ==
    ASSUME board \in Board
    PROVE  Usable = UsableSet(board) /\ \A f : IsReserved(f) <=> Taken(board, f)
<1>1. ASSUME NEW f PROVE IsReserved(f) <=> Taken(board, f)
  BY DEF IsReserved, Taken
<1>2. ASSUME NEW f PROVE (\E r \in Entries(board.memory) : Within(f, r))
                         <=> \E k \in DOMAIN board.memory : \E r \in Range(board.memory[k]) : Within(f, r)
  BY DEF Entries
<1>3. ASSUME NEW f \in Frame PROVE f \in Usable <=> \E k \in DOMAIN board.memory : UsableIn(board, k, f)
  <2>1. f \in Usable <=> f # 0 /\ ~Taken(board, f) /\ \E r \in Entries(board.memory) : Within(f, r)
    BY <1>1 DEF Usable
  <2> QED BY <1>2, <2>1 DEF UsableIn
<1>4. Usable \subseteq Frame
  BY DEF Usable
<1> QED BY <1>1, <1>3, <1>4 DEF UsableSet

(* bump_up_start: start lies in a reservation, and so does all that is     *)
(* skipped.                                                                *)
EndsAt(A, a, c) ==
    \E i \in 1..Len(A) : A[i].start <= a /\ a < A[i].end /\ c = A[i].end
SameFound(b, n, a, c) == Found(b, n, c) = Found(b, n, a)

LEMMA BumpLemma ==
    ASSUME NEW b, NEW n, NEW m, NEW A, NEW a, NEW z, NEW c, b \in Board, Supported(b),
           ArrayOK(b, A), Considering(b, n, m, A, a, z), EndsAt(A, a, c)
    PROVE  Considering(b, n, m, A, c, z) /\ SameFound(b, n, a, c)
<1>0. PICK i \in 1..Len(A) : A[i].start <= a /\ a < A[i].end /\ c = A[i].end
  BY DEF EndsAt
<1>1. PICK r \in Entries(b.reserved) : r \in RegEntry /\ Reserves(A, i, r)
  BY ReservationFacts
<1>2. PICK x, y : x = r.addr /\ y = r.size
  OBVIOUS
<1>3. /\ x \in Nat /\ y \in Nat /\ x + y <= Top /\ c = x + y /\ x <= a /\ a < c /\ c \in Nat
  BY <1>0, <1>1, <1>2, RegFacts DEF Reserves
<1>4. a \in Nat /\ m.addr <= a /\ m.addr \in Nat /\ Region(b, n, m)
  BY RegionFacts DEF Considering
<1>5. y > 0
  BY <1>1, <1>2 DEF Supported
<1>6. ASSUME NEW f \in Frame, UsableIn(b, n, f)
      PROVE  (f + PageSize <= c \/ c <= f) /\ (f < a <=> f < c)
  <2>1. f + PageSize <= x \/ x + y <= f
    BY <1>1, <1>2, <1>5, <1>6, ClearFacts DEF UsableIn
  <2>2. f \in Nat /\ PageSize \in Nat /\ PageSize > 0
    BY FrameIs
  <2> QED BY <1>3, <1>4, <2>1, <2>2
<1>7. Clean(b, n, c)
  BY <1>6 DEF Clean
<1>8. m.addr <= c /\ c <= Top
  BY <1>3, <1>4, FrameFacts
<1>9. Considering(b, n, m, A, c, z)
  BY <1>3, <1>7, <1>8 DEF Considering
<1>10. Found(b, n, c) = Found(b, n, a)
  <2>1. ASSUME NEW f \in Frame, NEW k \in DOMAIN b.memory, UsableIn(b, k, f)
        PROVE  Before(k, f, n, c) <=> Before(k, f, n, a)
    BY <1>6, <2>1 DEF Before
  <2> QED BY <2>1, FoundSame
<1> QED BY <1>9, <1>10 DEF SameFound

LEMMA ConsideringFacts ==
    ASSUME NEW b, NEW n, NEW m, NEW A, NEW a, NEW z, b \in Board, Considering(b, n, m, A, a, z)
    PROVE  /\ Region(b, n, m) /\ a \in Nat /\ z \in Nat /\ m.addr \in Nat /\ m.size \in Nat
           /\ z = m.addr + m.size /\ z <= Top /\ m.addr <= a /\ a <= Top
           /\ A = ArrayOf(b) /\ ArrayFull(b, A) /\ m \in Entries(b.memory)
           /\ n \in Nat /\ DOMAIN b.memory \subseteq Nat /\ n \in DOMAIN b.memory
<1>1. /\ Region(b, n, m) /\ z = m.addr + m.size /\ a \in Nat /\ m.addr <= a /\ a <= Top
      /\ A = ArrayOf(b) /\ ArrayFull(b, A)
  BY DEF Considering
<1>2. /\ m.addr \in Nat /\ m.size \in Nat /\ m.addr + m.size <= Top
      /\ n \in Nat /\ DOMAIN b.memory \subseteq Nat
  BY <1>1, RegionFacts
<1>3. n \in DOMAIN b.memory /\ m \in Entries(b.memory)
  BY <1>1 DEF Region
<1>4. z \in Nat /\ z <= Top
  BY <1>1, <1>2
<1> QED BY <1>1, <1>2, <1>3, <1>4

LEMMA ArrayFacts ==
    ASSUME NEW b, NEW A, ArrayOK(b, A)
    PROVE  /\ Len(A) \in Nat /\ DOMAIN A = 1..Len(A)
           /\ \A i \in 1..Len(A) : A[i].start \in Nat /\ A[i].end \in Nat
<1>1. PICK X : X = Interval /\ A \in Seq(X)
  BY DEF ArrayOK
<1>2. Len(A) \in Nat /\ DOMAIN A = 1..Len(A) /\ \A i \in 1..Len(A) : A[i] \in X
  BY <1>1
<1>3. \A x \in Interval : x.start \in Nat /\ x.end \in Nat
  BY DEF Interval
<1> QED BY <1>1, <1>2, <1>3

(* top: no reservation starts between start and it. *)
StartsIn(A, a, z) == {i \in 1..Len(A) : a <= A[i].start /\ A[i].start < z}

Upto(A, a, z, t) ==
    /\ t \in Nat /\ a <= t /\ t <= z
    /\ \A i \in StartsIn(A, a, z) : t <= A[i].start
    /\ t = z \/ \E i \in StartsIn(A, a, z) : t = A[i].start

LEMMA UptoLemma ==
    ASSUME NEW b, NEW n, NEW m, NEW A, NEW a, NEW z, NEW t, NEW S,
           b \in Board, Supported(b), ArrayOK(b, A), Considering(b, n, m, A, a, z), a < z,
           S = StartsIn(A, a, z), t = IF S = {} THEN z ELSE A[Max(S)].start
    PROVE  Upto(A, a, z, t)
<1>1. /\ a \in Nat /\ z \in Nat /\ m.addr \in Nat /\ m.addr <= a /\ z = m.addr + m.size
      /\ A = ArrayOf(b) /\ m \in Entries(b.memory)
  BY ConsideringFacts
<1>2. CASE S = {}
  BY <1>1, <1>2 DEF Upto
<1>3. CASE S # {}
  <2>1. PICK N : N = Len(A) /\ N \in Nat /\ DOMAIN A = 1..N /\ \A i \in 1..N : A[i].start \in Nat
    BY ArrayFacts
  <2>2. PICK j : j = Max(S)
    OBVIOUS
  <2>3. S \in SUBSET (1..N)
    BY <2>1 DEF StartsIn
  <2>4. j \in S /\ \A i \in S : i <= j
    BY <1>3, <2>1, <2>2, <2>3, MaxLemma
  <2>5. t = A[j].start
    BY <1>3, <2>2
  <2>6. \A i \in S : i \in 1..N /\ a <= A[i].start /\ A[i].start < z
    BY <2>1 DEF StartsIn
  <2>7. ASSUME NEW i \in S PROVE i \in StartIn(b, m)
    <3>1. /\ i \in DOMAIN A /\ m.addr <= A[i].start /\ A[i].start < m.addr + m.size
      BY <1>1, <2>1, <2>6
    <3> QED BY <1>1, <3>1 DEF StartIn, paddr_in_range
  <2>8. ASSUME NEW i \in S PROVE t <= A[i].start
    <3>1. CASE i = j
      BY <2>1, <2>5, <2>6, <3>1
    <3>2. CASE i # j
      <4>1. i < j
        BY <2>3, <2>4, <3>2
      <4>2. i \in StartIn(b, m) /\ j \in StartIn(b, m)
        BY <2>4, <2>7
      <4>3. \A k, l \in StartIn(b, m) : k < l => ArrayOf(b)[l].start <= ArrayOf(b)[k].start
        BY <1>1 DEF Supported
      <4>4. ArrayOf(b)[j].start <= ArrayOf(b)[i].start
        BY <4>1, <4>2, <4>3
      <4> QED BY <1>1, <2>5, <4>4
    <3> QED BY <3>1, <3>2
  <2>9. t \in Nat /\ a <= t /\ t <= z
    BY <1>1, <2>1, <2>4, <2>5, <2>6
  <2> QED BY <2>4, <2>5, <2>8, <2>9 DEF Upto
<1> QED BY <1>2, <1>3

(* A chunk between start, which no reservation holds, and top: its frames  *)
(* are the usable frames that are found next.                              *)
Outside(A, a) == \A i \in 1..Len(A) : ~(A[i].start <= a /\ a < A[i].end)

LEMMA FreeOfReservations ==
    ASSUME NEW b, NEW A, NEW a, NEW z, NEW t, NEW f,
           b \in Board, ArrayFull(b, A), Outside(A, a), Upto(A, a, z, t),
           a \in Nat, z \in Nat, f \in Frame, a <= f, f + PageSize <= t
    PROVE  ~Taken(b, f)
<1> SUFFICES ASSUME NEW r \in Entries(b.reserved), ~ClearOf(f, r) PROVE FALSE
  BY DEF Taken
<1>1. r \in RegEntry
  BY EntryReserves
<1>2. PICK i \in 1..Len(A) : Reserves(A, i, r)
  BY EntryReserves
<1>3. PICK x, y : x = r.addr /\ y = r.size
  OBVIOUS
<1>4. x \in Nat /\ y \in Nat /\ A[i].start = x /\ A[i].end = x + y
  BY <1>1, <1>2, <1>3, RegFacts DEF Reserves
<1>5. ~(f + PageSize <= x) /\ ~(x + y <= f)
  BY <1>3 DEF ClearOf
<1>6. f \in Nat /\ PageSize \in Nat
  BY FrameIs
<1>7. ~(x <= a /\ a < x + y)
  BY <1>4 DEF Outside
<1>8. t \in Nat /\ t <= z
  BY DEF Upto
<1>9. a <= x /\ x < z /\ x < t
  BY <1>4, <1>5, <1>6, <1>7, <1>8
<1>10. i \in StartsIn(A, a, z)
  BY <1>4, <1>9 DEF StartsIn
<1>11. t <= x
  BY <1>4, <1>10 DEF Upto
<1> QED BY <1>4, <1>8, <1>9, <1>11

LEMMA NextClean ==
    ASSUME NEW b, NEW n, NEW m, NEW A, NEW a, NEW z, NEW t, b \in Board, Supported(b),
           ArrayOK(b, A), Region(b, n, m), z = m.addr + m.size, Upto(A, a, z, t)
    PROVE  Clean(b, n, t)
<1> SUFFICES ASSUME NEW f \in Frame, UsableIn(b, n, f) PROVE f + PageSize <= t \/ t <= f
  BY DEF Clean
<1>1. f + PageSize <= z
  BY UsableFacts
<1>2. CASE t = z
  BY <1>1, <1>2
<1>3. CASE t # z
  <2>1. PICK i \in StartsIn(A, a, z) : t = A[i].start
    BY <1>3 DEF Upto
  <2>2. i \in 1..Len(A)
    BY DEF StartsIn
  <2>3. PICK r \in Entries(b.reserved) : r \in RegEntry /\ Reserves(A, i, r)
    BY <2>2, ReservationFacts
  <2>4. r.size > 0
    BY DEF Supported
  <2>5. f + PageSize <= r.addr \/ r.addr + r.size <= f
    BY <2>3, <2>4, ClearFacts DEF UsableIn
  <2>6. r.addr = t
    BY <2>1, <2>3 DEF Reserves
  <2>7. r.addr \in Nat /\ r.size \in Nat /\ f \in Nat
    BY <2>3, RegFacts, FrameIs
  <2> QED BY <2>5, <2>6, <2>7
<1> QED BY <1>2, <1>3

Rounded(a, t, s, e) == s = align_up(a) /\ e = align_down(t)

MoreFound(b, n, a, t, s, e) ==
    /\ \A f \in Span(s, e) : f \notin Found(b, n, a)
    /\ Found(b, n, t) = Found(b, n, a) \cup Span(s, e)

LEMMA NextFound ==
    ASSUME NEW b, NEW n, NEW m, NEW A, NEW a, NEW z, NEW t, NEW s, NEW e,
           b \in Board, Supported(b), ArrayOK(b, A), Considering(b, n, m, A, a, z),
           Outside(A, a), Upto(A, a, z, t), Rounded(a, t, s, e)
    PROVE  Considering(b, n, m, A, t, z) /\ MoreFound(b, n, a, t, s, e)
<1>1. /\ Region(b, n, m) /\ a \in Nat /\ z \in Nat /\ m.addr \in Nat /\ m.size \in Nat
      /\ z = m.addr + m.size /\ z <= Top /\ m.addr <= a /\ a <= Top /\ ArrayFull(b, A)
      /\ n \in Nat /\ DOMAIN b.memory \subseteq Nat /\ n \in DOMAIN b.memory
  BY ConsideringFacts
<1>2. t \in Nat /\ a <= t /\ t <= z /\ t <= Top
  BY <1>1, FrameFacts DEF Upto
<1>3. Clean(b, n, t)
  BY <1>1, NextClean
<1>4. Considering(b, n, m, A, t, z)
  BY <1>1, <1>2, <1>3 DEF Considering
<1>5. m.addr > 0
  BY <1>1 DEF Supported, Region
<1>6. ASSUME NEW f \in Frame PROVE f \in Span(s, e) <=> a <= f /\ f + PageSize <= t
  BY <1>1, <1>2, InSpan DEF Rounded
<1>7. Span(s, e) \subseteq Frame
  BY DEF Span
<1>8. ASSUME NEW f \in Span(s, e)
      PROVE  UsableIn(b, n, f) /\ f < t /\ a <= f /\ f \in Frame
  <2>1. f \in Frame /\ a <= f /\ f + PageSize <= t
    BY <1>6, <1>7
  <2>2. ~Taken(b, f)
    BY <1>1, <2>1, FreeOfReservations
  <2>3. f \in Nat /\ PageSize \in Nat /\ PageSize > 0
    BY <2>1, FrameIs
  <2>4. f # 0 /\ f < t /\ m.addr <= f /\ f + PageSize <= m.addr + m.size
    BY <1>1, <1>2, <1>5, <2>1, <2>3
  <2>5. UsableIn(b, n, f)
    BY <1>1, <2>1, <2>2, <2>4 DEF UsableIn, Region, Within
  <2> QED BY <2>1, <2>4, <2>5
<1>9. ASSUME NEW f \in Span(s, e), NEW k \in DOMAIN b.memory, UsableIn(b, k, f) PROVE k = n
  <2> SUFFICES ASSUME k # n PROVE FALSE
    OBVIOUS
  <2>1. PICK r \in Range(b.memory[k]) : Within(f, r)
    BY <1>9 DEF UsableIn
  <2>2. UsableIn(b, n, f) /\ m \in Range(b.memory[n])
    BY <1>1, <1>8 DEF Region
  <2>3. r.addr + r.size <= m.addr \/ m.addr + m.size <= r.addr
    BY <1>1, <2>1, <2>2 DEF Supported
  <2>4. m.addr <= f /\ f + PageSize <= m.addr + m.size /\ f \in Frame
    BY <1>1, <2>2, UsableFacts
  <2>5. r.addr <= f /\ f + PageSize <= r.addr + r.size
    BY <2>1 DEF Within
  <2>6. r.addr \in Nat /\ r.size \in Nat
    <3>1. r \in Entries(b.memory)
      BY <2>1 DEF Entries
    <3>2. PICK ss : ss = b.memory /\ ss \in Seq(Seq(RegEntry))
      BY DEF Board
    <3>3. Entries(ss) \subseteq RegEntry
      BY <3>2, EntriesFacts
    <3>4. r \in RegEntry
      BY <3>1, <3>2, <3>3
    <3> QED BY <3>4, RegFacts
  <2>7. f \in Nat /\ PageSize \in Nat /\ PageSize > 0
    BY <2>4, FrameIs
  <2> QED BY <1>1, <2>3, <2>4, <2>5, <2>6, <2>7
<1>10. ASSUME NEW f \in Span(s, e) PROVE f \notin Found(b, n, a)
  <2> SUFFICES ASSUME NEW k \in DOMAIN b.memory, UsableIn(b, k, f), Before(k, f, n, a) PROVE FALSE
    BY DEF Found, IsFound
  <2>1. k = n
    BY <1>9
  <2>2. a <= f /\ f \in Nat
    BY <1>8, FrameIs
  <2>3. ~(n < n) /\ ~(f < a)
    BY <1>1, <2>2
  <2> QED BY <2>1, <2>3 DEF Before
<1>11. ASSUME NEW f \in Frame PROVE IsFound(b, n, t, f) <=> IsFound(b, n, a, f) \/ f \in Span(s, e)
  <2>0. f \in Nat /\ PageSize \in Nat /\ PageSize > 0
    BY FrameIs
  <2>1. ASSUME f \in Span(s, e) PROVE IsFound(b, n, t, f)
    BY <1>1, <1>8, <2>1 DEF IsFound, Before
  <2>2. ASSUME IsFound(b, n, a, f) PROVE IsFound(b, n, t, f)
    <3>1. f < a => f < t
      BY <1>1, <1>2, <2>0
    <3> QED BY <2>2, <3>1 DEF IsFound, Before
  <2>3. ASSUME IsFound(b, n, t, f), f \notin Span(s, e) PROVE IsFound(b, n, a, f)
    <3>1. PICK k \in DOMAIN b.memory : UsableIn(b, k, f) /\ Before(k, f, n, t)
      BY <2>3 DEF IsFound
    <3>2. CASE k < n
      BY <3>1, <3>2 DEF IsFound, Before
    <3>3. CASE k = n /\ f < t
      <4>1. f + PageSize <= t
        <5>1. f + PageSize <= t \/ t <= f
          BY <1>3, <3>1, <3>3 DEF Clean
        <5> QED BY <1>2, <2>0, <3>3, <5>1
      <4>2. ~(a <= f)
        BY <1>6, <2>3, <4>1
      <4>3. f < a
        BY <1>1, <2>0, <4>2
      <4> QED BY <3>1, <3>3, <4>3 DEF IsFound, Before
    <3> QED BY <3>1, <3>2, <3>3 DEF Before
  <2> QED BY <2>1, <2>2, <2>3
<1>12. Found(b, n, t) = Found(b, n, a) \cup Span(s, e)
  BY <1>7, <1>11 DEF Found
<1> QED BY <1>4, <1>10, <1>12 DEF MoreFound

LEMMA ChunkFits ==
    ASSUME NEW b, NEW n, NEW m, NEW A, NEW a, NEW z, NEW t, NEW s, NEW e, NEW P, NEW F,
           b \in Board, Supported(b), ArrayOK(b, A), Considering(b, n, m, A, a, z),
           Upto(A, a, z, t), s = align_up(a), e = align_down(t), \A f \in Span(s, e) : f \notin F
    PROVE  ChunkOK(P, F, a, t, s, e)
<1>1. /\ Region(b, n, m) /\ a \in Nat /\ z \in Nat /\ m.addr \in Nat /\ m.size \in Nat
      /\ z = m.addr + m.size /\ z <= Top /\ m.addr <= a /\ a <= Top /\ A = ArrayOf(b)
  BY ConsideringFacts
<1>2. t \in Nat /\ a <= t /\ t <= z /\ t <= Top
  BY <1>1, FrameFacts DEF Upto
<1>3. m.addr > 0 /\ align_down(z) # Limit /\ \A i \in StartIn(b, m) : align_down(A[i].start) # Limit
  BY <1>1 DEF Supported, Region
<1>4. a > 0
  BY <1>1, <1>3
<1>5. e # Limit
  <2>1. CASE t = z
    BY <1>3, <2>1
  <2>2. CASE t # z
    <3>1. PICK i \in StartsIn(A, a, z) : t = A[i].start
      BY <2>2 DEF Upto
    <3>2. i \in 1..Len(A) /\ a <= t /\ t < z
      BY <3>1 DEF StartsIn
    <3>3. i \in DOMAIN A
      BY <3>2 DEF ArrayOK
    <3>4. m.addr <= A[i].start /\ A[i].start < m.addr + m.size
      BY <1>1, <1>2, <3>1, <3>2
    <3>5. i \in StartIn(b, m)
      BY <1>1, <3>3, <3>4 DEF StartIn, paddr_in_range
    <3> QED BY <1>3, <3>1, <3>5
  <2> QED BY <2>1, <2>2
<1> QED BY <1>1, <1>2, <1>4, <1>5 DEF ChunkOK

-----------------------------------------------------------------------------
(* The type invariant.  Runs and held frames end in the address space,     *)
(* so that the frames after them are frames.                               *)
Bounded(A) ==
    /\ Len(A) \in Nat /\ DOMAIN A = 1..Len(A)
    /\ \A i \in 1..Len(A) : /\ A[i].start \in Nat /\ A[i].end \in Nat
                            /\ A[i].start <= A[i].end /\ A[i].end <= Top

Whole(h) == \A f \in h : f \in Frame /\ f + PageSize <= Top

TypeInv ==
    /\ board \in Boards
    /\ TypedP(phys)
    /\ pc \in {"boot", "next", "consider", "run", "panic"}
    /\ node \in Nat /\ node > 0 /\ entry \in Nat /\ entry > 0
    /\ Bounded(reservations)
    /\ start \in Nat /\ start <= Top /\ end \in Nat /\ end <= Top
    /\ Whole(held)

LEMMA BoardType ==
    ASSUME TypeInv
    PROVE  board \in Board
BY PhysicalConstants DEF TypeInv

LEMMA ArrayBounded ==
    ASSUME NEW b, NEW A, b \in Board, ArrayOK(b, A)
    PROVE  Bounded(A)
<1>1. /\ Len(A) \in Nat /\ DOMAIN A = 1..Len(A)
      /\ \A i \in 1..Len(A) : A[i].start \in Nat /\ A[i].end \in Nat
  BY ArrayFacts
<1>2. ASSUME NEW i \in 1..Len(A) PROVE A[i].start <= A[i].end /\ A[i].end <= Top
  <2>1. PICK r \in Entries(b.reserved) : r \in RegEntry /\ Reserves(A, i, r)
    BY ReservationFacts
  <2>2. r.addr \in Nat /\ r.size \in Nat /\ r.addr + r.size <= Top
    BY <2>1, RegFacts
  <2> QED BY <2>1, <2>2 DEF Reserves
<1> QED BY <1>1, <1>2 DEF Bounded

LEMMA NodeFacts ==
    ASSUME NEW b, NEW n, NEW k, b \in Board, n \in Nat, n > 0, k \in Nat, k > 0,
           ~(n > Len(b.memory)), ~(k > Len(b.memory[n]))
    PROVE  /\ n \in DOMAIN b.memory /\ k \in 1..Len(b.memory[n])
           /\ b.memory[n][k] \in RegEntry /\ b.memory[n][k] \in Entries(b.memory)
<1>1. PICK ss : ss = b.memory /\ ss \in Seq(Seq(RegEntry))
  BY DEF Board
<1>2. PICK N : N = Len(ss) /\ N \in Nat /\ DOMAIN ss = 1..N /\ \A j \in 1..N : ss[j] \in Seq(RegEntry)
  BY ONLY <1>1, SeqSeqFacts
<1>3. n \in 1..N
  BY <1>1, <1>2
<1>4. PICK s : s = ss[n] /\ s \in Seq(RegEntry)
  BY <1>2, <1>3
<1>5. Len(s) \in Nat /\ ~(k > Len(s))
  BY <1>1, <1>4
<1>6. k \in 1..Len(ss[n])
  BY <1>4, <1>5
<1>7. ss[n][k] \in Entries(ss) /\ Entries(ss) \subseteq RegEntry
  BY <1>1, <1>2, <1>3, <1>6, EntriesFacts
<1> QED BY <1>1, <1>2, <1>3, <1>6, <1>7

(* The loops of consider_physical_memory over the array. *)
LEMMA InsideFacts ==
    ASSUME TypeInv
    PROVE  /\ Inside(start) = {} => Outside(reservations, start)
           /\ Inside(start) # {} =>
                /\ Min(Inside(start)) \in 1..Len(reservations)
                /\ reservations[Min(Inside(start))].start <= start
                /\ start < reservations[Min(Inside(start))].end
<1>1. Len(reservations) \in Nat /\ DOMAIN reservations = 1..Len(reservations)
  BY DEF TypeInv, Bounded
<1>2. \A i : i \in Inside(start) <=> /\ i \in 1..Len(reservations)
                                     /\ reservations[i].start <= start /\ start < reservations[i].end
  BY <1>1 DEF Inside, Reservation, paddr_in_range
<1>3. Inside(start) = {} => Outside(reservations, start)
  BY <1>2 DEF Outside
<1>4. PICK S : S = Inside(start)
  OBVIOUS
<1>5. ASSUME S # {} PROVE Min(S) \in S
  <2>1. S \in SUBSET (1..Len(reservations))
    BY <1>2, <1>4
  <2> QED BY ONLY <1>1, <1>5, <2>1, MinLemma
<1> QED BY <1>2, <1>3, <1>4, <1>5

LEMMA OverlapFacts ==
    ASSUME TypeInv
    PROVE  LastOverlap = IF StartsIn(reservations, start, end) = {} THEN end
                         ELSE reservations[Max(StartsIn(reservations, start, end))].start
<1>1. DOMAIN reservations = 1..Len(reservations)
  BY DEF TypeInv, Bounded
<1>2. {i \in Reservation : paddr_in_range(reservations[i].start, start, end)}
        = StartsIn(reservations, start, end)
  BY <1>1 DEF Reservation, paddr_in_range, StartsIn
<1> QED BY <1>2, Zenon DEF LastOverlap

LEMMA OverlapBound ==
    ASSUME TypeInv
    PROVE  LastOverlap \in Nat /\ LastOverlap <= Top
<1>1. PICK S : S = StartsIn(reservations, start, end)
  OBVIOUS
<1>2. LastOverlap = IF S = {} THEN end ELSE reservations[Max(S)].start
  BY <1>1, OverlapFacts
<1>3. CASE S = {}
  BY <1>2, <1>3 DEF TypeInv
<1>4. CASE S # {}
  <2>1. Len(reservations) \in Nat
    BY DEF TypeInv, Bounded
  <2>2. S \in SUBSET (1..Len(reservations))
    BY <1>1 DEF StartsIn
  <2>3. Max(S) \in S
    BY ONLY <1>4, <2>1, <2>2, MaxLemma
  <2>4. PICK j : j = Max(S) /\ j \in 1..Len(reservations)
    BY <2>2, <2>3
  <2>5. LastOverlap = reservations[j].start
    BY <1>2, <1>4, <2>4
  <2>6. /\ reservations[j].start \in Nat /\ reservations[j].end \in Nat
        /\ reservations[j].start <= reservations[j].end /\ reservations[j].end <= Top
    BY <2>4 DEF TypeInv, Bounded
  <2> QED BY <2>5, <2>6, FrameFacts
<1> QED BY <1>3, <1>4

LEMMA ListFacts ==
    ASSUME NEW P, NEW b
    PROVE  ListFor(P, b) \in Lists
BY DEF ListFor, Lists

LEMMA InitFree ==
    ASSUME Init
    PROVE  TypedP(phys) /\ IsFree(phys, {})
<1>1. /\ phys.mem = [f \in Frame |-> [next |-> 0, length |-> 0]]
      /\ phys.head = [l \in Lists |-> 0]
      /\ phys = [mem |-> phys.mem, head |-> phys.head]
  BY DEF Init, Lists
<1>2. 0 \in Frame
  BY FrameFacts
<1>3. phys \in PhysType
  BY <1>1, <1>2 DEF PhysType
<1>4. ASSUME NEW f \in Frame PROVE EndOf(phys, f) <= Top
  <2>1. phys.mem[f].length = 0
    BY <1>1
  <2>2. EndOf(phys, f) = f
    BY <2>1, FrameIs DEF EndOf
  <2> QED BY <2>2, FrameIs
<1>5. TypedP(phys)
  BY <1>3, <1>4 DEF TypedP, Fits
<1>6. PICK H : H = [l \in Lists |-> {}]
  OBVIOUS
<1>7. \A l \in Lists : H[l] = {} /\ phys.head[l] = 0
  BY <1>1, <1>6
<1>8. ASSUME NEW l \in Lists PROVE Chain(phys, l, H[l])
  BY <1>7 DEF Chain, Closed, Least, OneWay
<1>9. RunsOK(phys, H)
  BY <1>7 DEF RunsOK
<1>10. Holds(phys, H, {})
  BY <1>7 DEF Holds
<1>11. Sound(phys, H, {})
  BY <1>5, <1>8, <1>9, <1>10 DEF Sound, TypedP
<1> QED BY <1>5, <1>11 DEF IsFree

LEMMA TypeInit == Init => TypeInv
<1> SUFFICES ASSUME Init PROVE TypeInv
  OBVIOUS
<1>1. Bounded(reservations)
  <2>1. reservations = <<>>
    BY DEF Init
  <2>2. Len(<<>>) = 0 /\ DOMAIN <<>> = 1..0 /\ 1..0 = {}
    OBVIOUS
  <2> QED BY <2>1, <2>2 DEF Bounded
<1>2. TypedP(phys)
  BY InitFree
<1>3. 0 <= Top
  BY FrameFacts
<1>4. Whole(held)
  BY DEF Init, Whole
<1> QED BY <1>1, <1>2, <1>3, <1>4 DEF Init, TypeInv

LEMMA ArrayStep ==
    ASSUME TypeInv, reserved_memory_to_array
    PROVE  TypeInv'
<1>1. reservations' = ArrayOf(board) \/ reservations' = reservations
  BY DEF reserved_memory_to_array
<1>2. Bounded(reservations')
  <2>1. CASE reservations' = ArrayOf(board)
    <3>1. board \in Board
      BY BoardType
    <3>2. ArrayOK(board, reservations')
      BY <2>1, <3>1, ArrayLemma
    <3> QED BY <3>1, <3>2, ArrayBounded
  <2>2. CASE reservations' = reservations
    BY <2>2 DEF TypeInv
  <2> QED BY <1>1, <2>1, <2>2
<1>3. pc' \in {"boot", "next", "consider", "run", "panic"}
  BY DEF reserved_memory_to_array
<1>4. UNCHANGED <<board, phys, node, entry, start, end, held>>
  BY DEF reserved_memory_to_array
<1> QED BY <1>2, <1>3, <1>4 DEF TypeInv

LEMMA NodeStep ==
    ASSUME TypeInv, NextMemory
    PROVE  TypeInv'
<1>0. UNCHANGED <<board, phys, reservations, held>>
  BY DEF NextMemory
<1>1. CASE node > Len(board.memory)
  <2>1. pc' = "run" /\ UNCHANGED <<node, entry, start, end>>
    BY <1>1 DEF NextMemory
  <2> QED BY <1>0, <2>1 DEF TypeInv
<1>2. CASE ~(node > Len(board.memory)) /\ entry > Len(board.memory[node])
  <2>1. node' = node + 1 /\ entry' = 1 /\ UNCHANGED <<pc, start, end>>
    BY <1>2 DEF NextMemory
  <2>2. node' \in Nat /\ node' > 0 /\ entry' \in Nat /\ entry' > 0
    BY <2>1 DEF TypeInv
  <2> QED BY <1>0, <2>1, <2>2 DEF TypeInv
<1>3. CASE ~(node > Len(board.memory)) /\ ~(entry > Len(board.memory[node]))
  <2>1. PICK r : r = board.memory[node][entry]
    OBVIOUS
  <2>2. /\ start' = Range_of(r).start /\ end' = Range_of(r).end
        /\ entry' = entry + 2 /\ pc' = "consider" /\ UNCHANGED node
    BY <1>3, <2>1 DEF NextMemory
  <2>3. r \in RegEntry
    BY <1>3, <2>1, BoardType, NodeFacts DEF TypeInv
  <2>4. /\ r.addr \in Nat /\ r.size \in Nat /\ r.addr + r.size <= Top
        /\ start' = r.addr /\ end' = r.addr + r.size
    BY <2>2, <2>3, RegFacts
  <2>5. start' \in Nat /\ end' \in Nat /\ start' <= Top /\ end' <= Top
    BY <2>4, FrameFacts
  <2>6. entry' \in Nat /\ entry' > 0
    BY <2>2 DEF TypeInv
  <2> QED BY <1>0, <2>2, <2>5, <2>6 DEF TypeInv
<1> QED BY <1>1, <1>2, <1>3

LEMMA BumpStep ==
    ASSUME TypeInv, BumpUpStart
    PROVE  TypeInv'
<1>1. PICK i : i = Min(Inside(start))
  OBVIOUS
<1>2. Inside(start) # {} /\ start' = reservations[i].end
  BY <1>1 DEF BumpUpStart
<1>3. i \in 1..Len(reservations)
  BY <1>1, <1>2, InsideFacts
<1>4. start' \in Nat /\ start' <= Top
  BY <1>2, <1>3 DEF TypeInv, Bounded
<1>5. UNCHANGED <<board, phys, pc, node, entry, end, reservations, held>>
  BY DEF BumpUpStart
<1> QED BY <1>4, <1>5 DEF TypeInv

LEMMA ConsiderStep ==
    ASSUME TypeInv, consider_physical_memory
    PROVE  TypeInv'
<1>0. UNCHANGED <<board, node, entry, end, reservations, held>>
  BY DEF consider_physical_memory
<1>1. CASE start >= end
  <2>1. pc' = "next" /\ UNCHANGED <<phys, start>>
    BY <1>1 DEF consider_physical_memory
  <2> QED BY <1>0, <2>1 DEF TypeInv
<1>2. CASE ~(start >= end)
  <2>1. PICK t : t = LastOverlap
    OBVIOUS
  <2>2. phys' = add_physical_chunk(phys, start, t) /\ start' = t /\ UNCHANGED pc
    BY <1>2, <2>1 DEF consider_physical_memory
  <2>3. t \in Nat /\ t <= Top
    BY <2>1, OverlapBound
  <2>4. TypedP(phys')
    BY <2>2, <2>3, ChunkType DEF TypeInv
  <2> QED BY <1>0, <2>2, <2>3, <2>4 DEF TypeInv
<1> QED BY <1>1, <1>2

LEMMA AllocStep ==
    ASSUME TypeInv, NEW b \in BOOLEAN, mm_alloc_physical(b)
    PROVE  TypeInv'
<1>0. UNCHANGED <<board, node, entry, start, end, reservations>>
  BY DEF mm_alloc_physical, bootVars
<1>1. PICK l : l = ListFor(phys, b)
  OBVIOUS
<1>2. PICK h : h = phys.head[l]
  OBVIOUS
<1>3. \/ UNCHANGED <<phys, pc, held>>
      \/ pc' = "panic" /\ UNCHANGED <<phys, held>>
      \/ /\ h # 0 /\ phys.mem[h].length # 0 /\ phys' = Overwrite(Pop(phys, l), h)
         /\ held' = held \cup {h} /\ UNCHANGED pc
  BY <1>1, <1>2 DEF mm_alloc_physical
<1>4. CASE UNCHANGED <<phys, pc, held>>
  BY <1>0, <1>4 DEF TypeInv
<1>5. CASE pc' = "panic" /\ UNCHANGED <<phys, held>>
  BY <1>0, <1>5 DEF TypeInv
<1>6. CASE /\ h # 0 /\ phys.mem[h].length # 0 /\ phys' = Overwrite(Pop(phys, l), h)
           /\ held' = held \cup {h} /\ UNCHANGED pc
  <2>1. l \in Lists
    BY <1>1, ListFacts
  <2>2. TypedP(phys)
    BY DEF TypeInv
  <2>3. TypedP(phys') /\ h \in Frame /\ h + PageSize <= Top
    BY <1>2, <1>6, <2>1, <2>2, PopType
  <2>4. Whole(held')
    BY <1>6, <2>3 DEF TypeInv, Whole
  <2> QED BY <1>0, <1>6, <2>3, <2>4 DEF TypeInv
<1> QED BY <1>3, <1>4, <1>5, <1>6

LEMMA FreeStep ==
    ASSUME TypeInv, NEW f \in held, mm_free_physical(f)
    PROVE  TypeInv'
<1>1. /\ phys' = physical_free_list_push(phys, 1, f, ListOf(f)) /\ held' = held \ {f}
      /\ UNCHANGED <<board, pc, node, entry, start, end, reservations>>
  BY DEF mm_free_physical, bootVars
<1>2. f \in Frame /\ f + PageSize <= Top
  BY DEF TypeInv, Whole
<1>3. PICK l : l = ListOf(f)
  OBVIOUS
<1>4. l \in Lists
  BY <1>3 DEF ListOf, Lists
<1>5. f + PageSize * 1 <= Top
  BY <1>2, FrameFacts
<1>6. TypedP(phys')
  BY <1>1, <1>2, <1>3, <1>4, <1>5, PushType DEF TypeInv
<1>7. Whole(held')
  BY <1>1 DEF TypeInv, Whole
<1> QED BY <1>1, <1>6, <1>7 DEF TypeInv

LEMMA TypeStep == TypeInv /\ [Next]_vars => TypeInv'
<1> SUFFICES ASSUME TypeInv, [Next]_vars PROVE TypeInv'
  OBVIOUS
<1>1. CASE InitPhysical
  BY <1>1, ArrayStep, NodeStep, BumpStep, ConsiderStep DEF InitPhysical
<1>2. ASSUME NEW b \in BOOLEAN, mm_alloc_physical(b) PROVE TypeInv'
  BY <1>2, AllocStep
<1>3. ASSUME NEW f \in held, mm_free_physical(f) PROVE TypeInv'
  BY <1>3, FreeStep
<1>4. CASE UNCHANGED vars
  BY <1>4 DEF vars, bootVars, TypeInv
<1>5. CASE Halt
  BY <1>4, <1>5 DEF Halt
<1> QED BY <1>1, <1>2, <1>3, <1>4, <1>5 DEF Next

(* The links of the free lists are frames, lengths are natural numbers,    *)
(* and callers hold frames, whatever the devicetree says: no run is made   *)
(* or cut that reaches beyond the address space.                           *)
THEOREM TypeCorrect == Spec => []TypeOK
<1>1. TypeInv => TypeOK
  BY DEF TypeInv, TypeOK, TypedP, PhysType, Lists, Bounded, Whole
<1> QED BY <1>1, TypeInit, TypeStep, PTL DEF Spec

-----------------------------------------------------------------------------
(* The invariant on boards that mm_init_physical is right about: the lists *)
(* hold, in turn, nothing, the usable frames of the nodes that are done,   *)
(* those of the current node up to start, and all that nobody holds.       *)
Shared(F, h, U) == F \cap h = {} /\ F \cup h = U

Between(b, A, P, n, k) ==
    /\ A = ArrayOf(b) /\ ArrayFull(b, A)
    /\ \/ k = 1 /\ IsFree(P, Found(b, n, 0))
       \/ k = 3 /\ n \in DOMAIN b.memory /\ IsFree(P, Found(b, n + 1, 0))

Amid(b, A, P, n, k, a, z) ==
    /\ k = 3 /\ IsFree(P, Found(b, n, a))
    /\ \E m : Considering(b, n, m, A, a, z)

Running(b, P, h) == \E F : IsFree(P, F) /\ Shared(F, h, UsableSet(b))

FreeInv ==
    /\ pc # "run" => held = {}
    /\ pc \in {"boot", "panic"} => IsFree(phys, {})
    /\ pc = "boot" => node = 1 /\ entry = 1
    /\ pc = "next" => Between(board, reservations, phys, node, entry)
    /\ pc = "consider" => Amid(board, reservations, phys, node, entry, start, end)
    /\ pc = "run" => Running(board, phys, held)

Inv == TypeInv /\ FreeInv

LEMMA InvInit == Init => Inv
<1> SUFFICES ASSUME Init PROVE Inv
  OBVIOUS
<1>1. TypeInv
  BY TypeInit
<1>2. IsFree(phys, {})
  BY InitFree
<1> QED BY <1>1, <1>2 DEF Inv, FreeInv, Init

LEMMA ArrayKeeps ==
    ASSUME Inv, reserved_memory_to_array
    PROVE  FreeInv'
<1>1. board \in Board
  BY BoardType DEF Inv
<1>2. pc = "boot" /\ UNCHANGED <<board, phys, node, entry, held>>
  BY DEF reserved_memory_to_array
<1>3. held = {} /\ IsFree(phys, {}) /\ node = 1 /\ entry = 1
  BY <1>2 DEF Inv, FreeInv
<1>4. held' = {}
  BY <1>2, <1>3
<1>5. CASE pc' = "panic"
  <2>1. IsFree(phys', {})
    BY <1>2, <1>3
  <2> QED BY <1>4, <1>5, <2>1 DEF FreeInv
<1>6. CASE /\ pc' = "next" /\ reservations' = ArrayOf(board)
           /\ Len(ArrayOf(board)) = Len(FlattenSeq(board.reserved))
  <2>1. PICK A : A = ArrayOf(board)
    OBVIOUS
  <2>2. ArrayFull(board, A)
    BY <1>1, <1>6, <2>1, ArrayLemma
  <2>3. Found(board, 1, 0) = {}
    BY <1>1, NoNode
  <2>4. Between(board, A, phys, 1, 1)
    BY <1>3, <2>1, <2>2, <2>3 DEF Between
  <2>5. Between(board', reservations', phys', node', entry')
    BY <1>2, <1>3, <1>6, <2>1, <2>4
  <2> QED BY <1>4, <1>6, <2>5 DEF FreeInv
<1> QED BY <1>5, <1>6 DEF reserved_memory_to_array

(* On such a board a node has at most one entry: its loop ends after it.   *)
LEMMA OneEntry ==
    ASSUME NEW b, NEW n, b \in Board, Supported(b), n \in DOMAIN b.memory
    PROVE  /\ Len(b.memory[n]) = 0 \/ Len(b.memory[n]) = 1
           /\ Len(b.memory[n]) = 1 => Region(b, n, b.memory[n][1])
<1>1. PICK ss : ss = b.memory /\ ss \in Seq(Seq(RegEntry))
  BY DEF Board
<1>2. PICK s : s = ss[n] /\ s \in Seq(RegEntry)
  BY <1>1
<1>3. Len(s) \in Nat /\ Len(s) <= 1 /\ DOMAIN s = 1..Len(s)
  BY <1>1, <1>2 DEF Supported
<1>4. ASSUME Len(s) = 1 PROVE Region(b, n, s[1])
  <2>1. DOMAIN s = {1}
    BY <1>3, <1>4
  <2>2. Range(s) = {s[1]}
    BY <2>1 DEF Range
  <2>3. s[1] \in Entries(b.memory)
    BY <1>1, <1>2, <2>2 DEF Entries
  <2> QED BY <1>1, <1>2, <2>2, <2>3 DEF Region
<1>5. Len(s) = 0 \/ Len(s) = 1
  BY <1>3
<1> QED BY <1>1, <1>2, <1>4, <1>5

LEMMA NodeKeeps ==
    ASSUME SupportedBoards, Inv, NextMemory
    PROVE  FreeInv'
<1>1. board \in Board /\ Supported(board) /\ node \in Nat /\ node > 0 /\ entry \in Nat /\ entry > 0
  BY BoardType DEF Inv, TypeInv, SupportedBoards
<1>2. pc = "next" /\ UNCHANGED <<board, phys, reservations, held>>
  BY DEF NextMemory
<1>3. held = {} /\ held' = {}
  BY <1>2 DEF Inv, FreeInv
<1>4. /\ reservations = ArrayOf(board) /\ ArrayFull(board, reservations)
      /\ \/ entry = 1 /\ IsFree(phys, Found(board, node, 0))
         \/ entry = 3 /\ node \in DOMAIN board.memory /\ IsFree(phys, Found(board, node + 1, 0))
  BY <1>2 DEF Inv, FreeInv, Between
<1>5. PICK N : N = Len(board.memory) /\ N \in Nat /\ DOMAIN board.memory = 1..N
  <2>1. PICK ss : ss = board.memory /\ ss \in Seq(Seq(RegEntry))
    BY <1>1 DEF Board
  <2> QED BY <2>1
<1>6. CASE node > Len(board.memory)
  <2>1. pc' = "run"
    BY <1>6 DEF NextMemory
  <2>2. node \notin DOMAIN board.memory
    BY <1>1, <1>5, <1>6
  <2>3. IsFree(phys, Found(board, node, 0))
    BY <1>4, <2>2
  <2>4. Found(board, node, 0) = UsableSet(board)
    BY <1>1, <1>6, AllNodes
  <2>5. IsFree(phys, UsableSet(board))
    BY <2>3, <2>4
  <2>6. Shared(UsableSet(board), {}, UsableSet(board))
    BY DEF Shared
  <2>7. Running(board, phys, {})
    BY <2>5, <2>6 DEF Running
  <2>8. Running(board', phys', held')
    BY <1>2, <1>3, <2>7
  <2> QED BY <1>3, <2>1, <2>8 DEF FreeInv
<1>7. CASE ~(node > Len(board.memory)) /\ entry > Len(board.memory[node])
  <2>1. node' = node + 1 /\ entry' = 1 /\ pc' = "next"
    BY <1>2, <1>7 DEF NextMemory
  <2>2. node \in DOMAIN board.memory
    BY <1>1, <1>5, <1>7
  <2>3. IsFree(phys, Found(board, node + 1, 0))
    <3>1. CASE entry = 3
      BY <1>4, <3>1
    <3>2. CASE entry = 1
      <4>1. Len(board.memory[node]) = 0
        BY <1>1, <1>7, <2>2, <3>2, OneEntry
      <4>2. Found(board, node, 0) = Found(board, node + 1, 0)
        BY <1>1, <2>2, <4>1, EmptyNode
      <4> QED BY <1>4, <3>2, <4>2
    <3> QED BY <1>4, <3>1, <3>2
  <2>4. PICK n : n = node + 1
    OBVIOUS
  <2>5. Between(board, reservations, phys, n, 1)
    BY <1>4, <2>3, <2>4 DEF Between
  <2>6. Between(board', reservations', phys', node', entry')
    BY <1>2, <2>1, <2>4, <2>5
  <2> QED BY <1>3, <2>1, <2>6 DEF FreeInv
<1>8. CASE ~(node > Len(board.memory)) /\ ~(entry > Len(board.memory[node]))
  <2>1. PICK r : r = board.memory[node][entry]
    OBVIOUS
  <2>2. /\ start' = Range_of(r).start /\ end' = Range_of(r).end
        /\ entry' = entry + 2 /\ pc' = "consider" /\ node' = node
    BY <1>8, <2>1 DEF NextMemory
  <2>3. r \in RegEntry /\ node \in DOMAIN board.memory
    BY <1>1, <1>8, <2>1, NodeFacts
  <2>4. /\ r.addr \in Nat /\ r.size \in Nat /\ r.addr + r.size <= Top
        /\ start' = r.addr /\ end' = r.addr + r.size
    BY <2>2, <2>3, RegFacts
  <2>5. Len(board.memory[node]) = 1 /\ entry = 1 /\ Region(board, node, r)
    <3>1. Len(board.memory[node]) = 0 \/ Len(board.memory[node]) = 1
      BY <1>1, <2>3, OneEntry
    <3>2. Len(board.memory[node]) = 1 /\ entry = 1
      <4>1. PICK k : k = Len(board.memory[node])
        OBVIOUS
      <4>2. (k = 0 \/ k = 1) /\ ~(entry > k) /\ entry \in Nat /\ entry > 0
        BY <1>1, <1>8, <3>1, <4>1
      <4>3. k = 1 /\ entry = 1
        BY ONLY <4>2
      <4> QED BY <4>1, <4>3
    <3> QED BY <1>1, <2>1, <2>3, <3>2, OneEntry
  <2>6. Clean(board, node, r.addr) /\ Found(board, node, r.addr) = Found(board, node, 0)
    BY <1>1, <2>5, StartLemma
  <2>7. PICK a, z : a = r.addr /\ z = r.addr + r.size
    OBVIOUS
  <2>8. r.addr <= a /\ a <= Top
    BY <2>4, <2>7, FrameFacts
  <2>9. Considering(board, node, r, reservations, a, z)
    BY <1>4, <2>4, <2>5, <2>6, <2>7, <2>8 DEF Considering
  <2>10. IsFree(phys, Found(board, node, a))
    BY <1>4, <2>5, <2>6, <2>7
  <2>11. Amid(board, reservations, phys, node, 3, a, z)
    BY <2>9, <2>10 DEF Amid
  <2>12. entry' = 3 /\ start' = a /\ end' = z
    BY <2>2, <2>4, <2>5, <2>7
  <2>13. Amid(board', reservations', phys', node', entry', start', end')
    BY <1>2, <2>2, <2>11, <2>12
  <2> QED BY <1>3, <2>2, <2>13 DEF FreeInv
<1> QED BY <1>6, <1>7, <1>8

LEMMA BumpKeeps ==
    ASSUME SupportedBoards, Inv, BumpUpStart
    PROVE  FreeInv'
<1>1. board \in Board /\ Supported(board) /\ TypeInv
  BY BoardType DEF Inv, TypeInv, SupportedBoards
<1>2. /\ pc = "consider" /\ pc' = "consider"
      /\ UNCHANGED <<board, phys, reservations, node, entry, end, held>>
  BY DEF BumpUpStart
<1>3. held' = {} /\ Amid(board, reservations, phys, node, entry, start, end)
  BY <1>2 DEF Inv, FreeInv
<1>4. PICK m : Considering(board, node, m, reservations, start, end)
  BY <1>3 DEF Amid
<1>5. ArrayOK(board, reservations)
  BY <1>1, <1>4, ArrayLemma DEF Considering
<1>6. PICK i : i = Min(Inside(start))
  OBVIOUS
<1>7. Inside(start) # {} /\ start' = reservations[i].end
  BY <1>6 DEF BumpUpStart
<1>8. i \in 1..Len(reservations) /\ reservations[i].start <= start /\ start < reservations[i].end
  BY <1>1, <1>6, <1>7, InsideFacts
<1>9. PICK c : c = reservations[i].end
  OBVIOUS
<1>a. EndsAt(reservations, start, c)
  BY <1>8, <1>9 DEF EndsAt
<1>10. Considering(board, node, m, reservations, c, end) /\ SameFound(board, node, start, c)
  <2>1. board \in Board /\ Supported(board)
    BY <1>1
  <2> QED BY ONLY <1>4, <1>5, <1>a, <2>1, BumpLemma
<1>11. Amid(board, reservations, phys, node, entry, c, end)
  BY <1>3, <1>10 DEF Amid, SameFound
<1>12. Amid(board', reservations', phys', node', entry', start', end')
  BY <1>2, <1>7, <1>9, <1>11
<1> QED BY <1>2, <1>3, <1>12 DEF FreeInv

LEMMA ConsiderKeeps ==
    ASSUME SupportedBoards, Inv, consider_physical_memory
    PROVE  FreeInv'
<1>1. board \in Board /\ Supported(board) /\ TypeInv
  BY BoardType DEF Inv, TypeInv, SupportedBoards
<1>2. /\ pc = "consider" /\ Inside(start) = {}
      /\ UNCHANGED <<board, reservations, node, entry, end, held>>
  BY DEF consider_physical_memory
<1>3. /\ held' = {} /\ entry = 3 /\ IsFree(phys, Found(board, node, start))
      /\ \E m : Considering(board, node, m, reservations, start, end)
  BY <1>2 DEF Inv, FreeInv, Amid
<1>4. PICK m : Considering(board, node, m, reservations, start, end)
  BY <1>3
<1>5. /\ Region(board, node, m) /\ start \in Nat /\ end \in Nat /\ end = m.addr + m.size
      /\ reservations = ArrayOf(board) /\ ArrayFull(board, reservations)
      /\ node \in DOMAIN board.memory
  BY <1>1, <1>4, ConsideringFacts
<1>6. ArrayOK(board, reservations)
  BY <1>1, <1>5, ArrayLemma
<1>7. CASE start >= end
  <2>1. pc' = "next" /\ phys' = phys
    BY <1>7 DEF consider_physical_memory
  <2>2. start >= m.addr + m.size
    BY <1>5, <1>7
  <2>3. Found(board, node, start) = Found(board, node + 1, 0)
    BY <1>1, <1>5, <2>2, EndLemma
  <2>4. IsFree(phys, Found(board, node + 1, 0))
    BY <1>3, <2>3
  <2>5. Between(board, reservations, phys, node, entry)
    BY <1>3, <1>5, <2>4 DEF Between
  <2>6. Between(board', reservations', phys', node', entry')
    BY <1>2, <2>1, <2>5
  <2> QED BY <1>3, <2>1, <2>6 DEF FreeInv
<1>8. CASE ~(start >= end)
  <2>1. PICK t : t = LastOverlap
    OBVIOUS
  <2>2. phys' = add_physical_chunk(phys, start, t) /\ start' = t /\ pc' = "consider"
    BY <1>2, <1>8, <2>1 DEF consider_physical_memory
  <2>3. PICK S : S = StartsIn(reservations, start, end)
    OBVIOUS
  <2>4. t = IF S = {} THEN end ELSE reservations[Max(S)].start
    BY <1>1, <2>1, <2>3, OverlapFacts
  <2>5. start < end
    BY <1>5, <1>8
  <2>6. Upto(reservations, start, end, t)
    BY <1>1, <1>4, <1>6, <2>3, <2>4, <2>5, UptoLemma
  <2>7. Outside(reservations, start)
    BY <1>1, <1>2, InsideFacts
  <2>8. PICK s, e : s = align_up(start) /\ e = align_down(t)
    OBVIOUS
  <2>9. PICK F, G : F = Found(board, node, start) /\ G = Found(board, node, t)
    OBVIOUS
  <2>10. /\ Considering(board, node, m, reservations, t, end)
         /\ \A f \in Span(s, e) : f \notin F
         /\ G = F \cup Span(s, e)
    <3>1. board \in Board /\ Supported(board)
      BY <1>1
    <3>2. Rounded(start, t, s, e)
      BY <2>8 DEF Rounded
    <3>3. Considering(board, node, m, reservations, t, end) /\ MoreFound(board, node, start, t, s, e)
      BY ONLY <1>4, <1>6, <2>6, <2>7, <3>1, <3>2, NextFound
    <3> QED BY <2>9, <3>3 DEF MoreFound
  <2>11. ChunkOK(phys, F, start, t, s, e)
    BY <1>1, <1>4, <1>6, <2>6, <2>8, <2>10, ChunkFits
  <2>12. IsFree(phys', G)
    BY <1>3, <2>2, <2>9, <2>10, <2>11, ChunkLemma
  <2>13. Amid(board, reservations, phys', node, entry, t, end)
    BY <1>3, <2>9, <2>10, <2>12 DEF Amid
  <2>14. Amid(board', reservations', phys', node', entry', start', end')
    BY <1>2, <2>2, <2>13
  <2> QED BY <1>3, <2>2, <2>14 DEF FreeInv
<1> QED BY <1>7, <1>8

(* mm_free_physical pushes a run of one frame. *)
LEMMA OneFrame ==
    ASSUME NEW P, NEW F, NEW G, NEW Q, NEW f, IsFree(P, F), f \in Frame, f # 0, f \notin F,
           f + PageSize <= Top, Q = physical_free_list_push(P, 1, f, ListOf(f)), G = F \cup {f}
    PROVE  IsFree(Q, G)
<1>1. PICK H : Sound(P, H, F)
  BY DEF IsFree
<1>2. PICK e, l : e = f + PageSize /\ l = ListOf(f)
  OBVIOUS
<1>3. f \in Nat /\ PageSize \in Nat /\ PageSize > 0 /\ Limit \in Nat /\ Aligned(f) /\ Aligned(Limit)
  BY FrameFacts
<1>4. PageSize * 1 = PageSize
  BY <1>3
<1>5. f + PageSize * 1 <= Top
  BY <1>4
<1>6. f + PageSize * 1 \in Frame
  BY <1>5, RunFacts
<1>7. e \in Frame /\ f < e /\ e \in Nat
  BY <1>2, <1>3, <1>4, <1>6
<1>8. Pages(f, e) = 1
  <2>1. PICK n : n = Pages(f, e)
    OBVIOUS
  <2>2. n \in Nat /\ n > 0 /\ f + PageSize * n = e
    BY <1>7, <2>1, PagesFacts
  <2>3. PICK b : b = PageSize /\ b \in Nat /\ b > 0
    BY <1>3
  <2>4. n > 1 => b * (n - 1) >= b /\ b * (n - 1) = b * n - b
    BY <2>2, <2>3
  <2>5. b * n = b
    BY <1>2, <1>3, <2>2, <2>3
  <2> QED BY <2>1, <2>2, <2>3, <2>4, <2>5
<1>9. l \in Lists /\ OnSide(l, f, e)
  <2>1. CASE f >= Limit
    BY <1>2, <2>1 DEF ListOf, Lists, OnSide
  <2>2. CASE f < Limit
    <3>1. e <= Limit
      BY <1>2, <1>3, <2>2, Gap
    <3>2. l = "below"
      BY <1>2, <1>3, <2>2 DEF ListOf
    <3> QED BY <3>1, <3>2 DEF Lists, OnSide
  <2> QED BY <1>3, <2>1, <2>2
<1>10. Span(f, e) = {f}
  <2>1. ASSUME NEW x \in Frame, f <= x, x < e PROVE x = f
    <3> SUFFICES ASSUME f < x PROVE FALSE
      BY <1>3, <2>1, FrameIs
    <3>1. x \in Nat /\ Aligned(x)
      BY FrameFacts
    <3>2. f + PageSize <= x
      BY <1>3, <3>1, Gap
    <3> QED BY <1>2, <1>7, <2>1, <3>1, <3>2
  <2>2. f <= f
    BY <1>3
  <2> QED BY <1>7, <2>1, <2>2 DEF Span
<1>11. \A x \in Span(f, e) : x \notin F
  BY <1>10
<1>12. G = F \cup Span(f, e) /\ Q = physical_free_list_push(P, Pages(f, e), f, l)
  BY <1>2, <1>8, <1>10
<1>13. \E K : Sound(Q, K, G)
  BY ONLY <1>1, <1>7, <1>9, <1>11, <1>12, PushLemma, f \in Frame, f # 0
<1> QED BY <1>13 DEF IsFree


(* What a call of mm_alloc_physical does. *)
LEMMA AllocFacts ==
    ASSUME Inv, NEW b \in BOOLEAN, mm_alloc_physical(b), NEW l, l = ListFor(phys, b),
           NEW h, h = phys.head[l], NEW H, NEW F, Sound(phys, H, F)
    PROVE  /\ h = 0 => UNCHANGED <<phys, pc, held>> /\ ret' = <<"alloc", b, NULL>>
           /\ h # 0 => /\ h \in F /\ h \in H[l] /\ IsFree(phys', F \ {h})
                       /\ held' = held \cup {h} /\ pc' = pc /\ ret' = <<"alloc", b, h>>
<1>1. CASE h = 0
  BY <1>1 DEF mm_alloc_physical
<1>2. CASE h # 0
  <2>1. l \in Lists
    BY ListFacts
  <2>2. PICK Q, G : Q = Overwrite(Pop(phys, l), h) /\ G = F \ {h}
    OBVIOUS
  <2>3. h \in F /\ h \in H[l] /\ phys.mem[h].length > 0 /\ \E K : Sound(Q, K, G)
    <3>1. Popped(phys, Q, F, G, l, h)
      BY <1>2, <2>2 DEF Popped
    <3>2. Sound(phys, H, F)
      OBVIOUS
    <3>3. PopOK(phys, Q, H, F, G, l, h)
      BY ONLY <2>1, <3>1, <3>2, PopLemma
    <3> QED BY <3>3 DEF PopOK
  <2>4. phys.mem[h].length # 0
    BY <2>3
  <2>5. phys' = Q /\ held' = held \cup {h} /\ ret' = <<"alloc", b, h>> /\ pc' = pc
    BY <1>2, <2>2, <2>4 DEF mm_alloc_physical
  <2>6. IsFree(phys', F \ {h})
    BY <2>2, <2>3, <2>5 DEF IsFree
  <2> QED BY <1>2, <2>3, <2>5, <2>6
<1> QED BY <1>1, <1>2

LEMMA AllocKeeps ==
    ASSUME Inv, NEW b \in BOOLEAN, mm_alloc_physical(b)
    PROVE  FreeInv'
<1>1. pc = "run" /\ board' = board
  BY DEF mm_alloc_physical
<1>2. Running(board, phys, held)
  BY <1>1 DEF Inv, FreeInv
<1>3. PICK F : IsFree(phys, F) /\ Shared(F, held, UsableSet(board))
  BY <1>2 DEF Running
<1>4. PICK H : Sound(phys, H, F)
  BY <1>3 DEF IsFree
<1>5. PICK l : l = ListFor(phys, b)
  OBVIOUS
<1>6. PICK h : h = phys.head[l]
  OBVIOUS
<1>7. /\ h = 0 => UNCHANGED <<phys, pc, held>> /\ ret' = <<"alloc", b, NULL>>
      /\ h # 0 => /\ h \in F /\ h \in H[l] /\ IsFree(phys', F \ {h})
                  /\ held' = held \cup {h} /\ pc' = pc /\ ret' = <<"alloc", b, h>>
  BY <1>4, <1>5, <1>6, AllocFacts
<1>8. Running(board', phys', held') /\ pc' = "run"
  <2>1. CASE h = 0
    BY <1>1, <1>2, <1>7, <2>1
  <2>2. CASE h # 0
    <3>1. PICK G : G = F \ {h}
      OBVIOUS
    <3>2. IsFree(phys', G) /\ h \in F /\ held' = held \cup {h} /\ pc' = pc
      BY <1>7, <2>2, <3>1
    <3>3. Shared(G, held', UsableSet(board))
      BY <1>3, <3>1, <3>2 DEF Shared
    <3>4. Running(board, phys', held')
      BY <3>2, <3>3 DEF Running
    <3> QED BY <1>1, <3>2, <3>4
  <2> QED BY <2>1, <2>2
<1> QED BY <1>8 DEF FreeInv

LEMMA FreeFacts ==
    ASSUME Inv, NEW f \in held, mm_free_physical(f), NEW F,
           IsFree(phys, F), Shared(F, held, UsableSet(board))
    PROVE  /\ f \notin F /\ f \in UsableSet(board) /\ IsFree(phys', F \cup {f})
           /\ held' = held \ {f} /\ pc' = "run" /\ board' = board
<1>1. /\ phys' = physical_free_list_push(phys, 1, f, ListOf(f)) /\ held' = held \ {f}
      /\ board' = board /\ pc' = "run"
  BY DEF mm_free_physical
<1>2. f \notin F /\ f \in UsableSet(board)
  BY DEF Shared
<1>3. f \in Frame /\ f # 0
  BY <1>2 DEF UsableSet, UsableIn
<1>4. f + PageSize <= Top
  BY DEF Inv, TypeInv, Whole
<1>5. PICK G : G = F \cup {f}
  OBVIOUS
<1>6. IsFree(phys', G)
  BY <1>1, <1>2, <1>3, <1>4, <1>5, OneFrame
<1> QED BY <1>1, <1>2, <1>5, <1>6

LEMMA FreeKeeps ==
    ASSUME Inv, NEW f \in held, mm_free_physical(f)
    PROVE  FreeInv'
<1>1. pc = "run"
  BY DEF mm_free_physical
<1>2. Running(board, phys, held)
  BY <1>1 DEF Inv, FreeInv
<1>3. PICK F : IsFree(phys, F) /\ Shared(F, held, UsableSet(board))
  BY <1>2 DEF Running
<1>4. /\ f \notin F /\ f \in UsableSet(board) /\ IsFree(phys', F \cup {f})
      /\ held' = held \ {f} /\ pc' = "run" /\ board' = board
  BY <1>3, FreeFacts
<1>5. PICK G : G = F \cup {f}
  OBVIOUS
<1>6. Shared(G, held', UsableSet(board))
  BY <1>3, <1>4, <1>5 DEF Shared
<1>7. Running(board, phys', held')
  BY <1>4, <1>5, <1>6 DEF Running
<1> QED BY <1>4, <1>7 DEF FreeInv

LEMMA InvStep ==
    ASSUME SupportedBoards
    PROVE  Inv /\ [Next]_vars => Inv'
<1> SUFFICES ASSUME Inv, [Next]_vars PROVE Inv'
  OBVIOUS
<1>1. TypeInv'
  BY TypeStep DEF Inv
<1>2. CASE InitPhysical
  <2>1. FreeInv'
    BY <1>2, ArrayKeeps, NodeKeeps, BumpKeeps, ConsiderKeeps DEF InitPhysical
  <2> QED BY <1>1, <2>1 DEF Inv
<1>3. ASSUME NEW b \in BOOLEAN, mm_alloc_physical(b) PROVE Inv'
  BY <1>1, <1>3, AllocKeeps DEF Inv
<1>4. ASSUME NEW f \in held, mm_free_physical(f) PROVE Inv'
  BY <1>1, <1>4, FreeKeeps DEF Inv
<1>5. CASE UNCHANGED vars
  <2>1. FreeInv'
    BY <1>5 DEF vars, bootVars, Inv, FreeInv
  <2> QED BY <1>1, <2>1 DEF Inv
<1>6. CASE Halt
  BY <1>5, <1>6 DEF Halt
<1> QED BY <1>2, <1>3, <1>4, <1>5, <1>6 DEF Next

(* The invariant holds of every board that mm_init_physical is right about.*)
THEOREM Invariance ==
    ASSUME SupportedBoards
    PROVE  Spec => []Inv
BY InvInit, InvStep, PTL DEF Spec

-----------------------------------------------------------------------------
(* In every state the lists hold some set of usable frames, apart from     *)
(* those held.                                                             *)
LEMMA SomeFree ==
    ASSUME Inv
    PROVE  \E F : /\ IsFree(phys, F) /\ F \cap held = {} /\ F \cup held \subseteq UsableSet(board)
                  /\ pc = "run" => F \cup held = UsableSet(board)
<1>0. \A n, a : Found(board, n, a) \subseteq UsableSet(board)
  BY DEF Found, IsFound, UsableSet
<1>1. CASE pc \in {"boot", "panic"}
  BY <1>1 DEF Inv, FreeInv
<1>2. CASE pc = "next"
  <2>1. PICK n, a : IsFree(phys, Found(board, n, a))
    BY <1>2 DEF Inv, FreeInv, Between
  <2>2. held = {} /\ pc # "run"
    BY <1>2 DEF Inv, FreeInv
  <2>3. PICK F : F = Found(board, n, a)
    OBVIOUS
  <2>4. IsFree(phys, F) /\ F \subseteq UsableSet(board)
    BY <1>0, <2>1, <2>3
  <2> QED BY <2>2, <2>4
<1>3. CASE pc = "consider"
  <2>1. PICK n, a : IsFree(phys, Found(board, n, a))
    BY <1>3 DEF Inv, FreeInv, Amid
  <2>2. held = {} /\ pc # "run"
    BY <1>3 DEF Inv, FreeInv
  <2>3. PICK F : F = Found(board, n, a)
    OBVIOUS
  <2>4. IsFree(phys, F) /\ F \subseteq UsableSet(board)
    BY <1>0, <2>1, <2>3
  <2> QED BY <2>2, <2>4
<1>4. CASE pc = "run"
  <2>1. PICK F : IsFree(phys, F) /\ Shared(F, held, UsableSet(board))
    BY <1>4 DEF Inv, FreeInv, Running
  <2> QED BY <2>1 DEF Shared
<1> QED BY <1>1, <1>2, <1>3, <1>4 DEF Inv, TypeInv

LEMMA InvSound ==
    ASSUME Inv
    PROVE  FreeListsSound /\ ReservedStaysReserved /\ AllRamIsFound /\ RunsAreNotEmpty
<1>1. PICK F : /\ IsFree(phys, F) /\ F \cap held = {} /\ F \cup held \subseteq UsableSet(board)
               /\ pc = "run" => F \cup held = UsableSet(board)
  BY SomeFree
<1>2. PICK H : Sound(phys, H, F)
  BY <1>1 DEF IsFree
<1>3. /\ \A l \in Lists : Reached(phys, l) = H[l]
      /\ \A l \in Lists : \A f \in H[l] : RunFrames(phys, f) = Span(f, EndOf(phys, f))
      /\ \A l \in Lists : \A x \in FreeIn(phys, l) : x \in F /\ ListOf(x) = l
      /\ FreeFrames(phys) = F
  BY <1>2, FreeLemma
<1>4. Usable = UsableSet(board) /\ \A f : IsReserved(f) <=> Taken(board, f)
  BY BoardType, UsableIs DEF Inv
<1>5. ASSUME NEW l \in Lists, NEW f \in H[l], NEW g \in H[l], f # g
      PROVE  Span(f, EndOf(phys, f)) \cap Span(g, EndOf(phys, g)) = {}
  <2>1. f \in Nat /\ g \in Nat /\ EndOf(phys, f) \in Nat /\ EndOf(phys, g) \in Nat
    BY <1>2, HeaderFacts
  <2>2. EndOf(phys, f) <= g \/ EndOf(phys, g) <= f
    BY <1>2, <1>5 DEF Sound, RunsOK, Apart
  <2>3. ASSUME NEW x \in Frame, f <= x, x < EndOf(phys, f), g <= x, x < EndOf(phys, g) PROVE FALSE
    <3>1. x \in Nat
      BY FrameIs
    <3> QED BY <2>1, <2>2, <2>3, <3>1
  <2> QED BY <2>3 DEF Span
<1>6. ASSUME NEW l \in Lists, NEW f \in H[l], NEW g \in H[l], f # g
      PROVE  phys.mem[f].next # phys.mem[g].next
  BY <1>2, <1>6 DEF Sound, Chain, OneWay
<1>7. ASSUME NEW l \in Lists, NEW f \in Reached(phys, l), NEW g \in Reached(phys, l) \ {f}
      PROVE  /\ RunFrames(phys, f) \cap RunFrames(phys, g) = {}
             /\ phys.mem[f].next # phys.mem[g].next
  <2>1. f \in H[l] /\ g \in H[l] /\ f # g
    BY <1>3
  <2>2. Span(f, EndOf(phys, f)) \cap Span(g, EndOf(phys, g)) = {}
    BY <1>5, <2>1
  <2> QED BY <1>3, <1>6, <2>1, <2>2
<1>8. FreeListsSound
  BY <1>1, <1>3, <1>4, <1>7 DEF FreeListsSound, Lists
<1>9. ReservedStaysReserved
  BY <1>1, <1>3, <1>4 DEF ReservedStaysReserved, UsableSet, UsableIn
<1>10. AllRamIsFound
  BY <1>1, <1>3, <1>4 DEF AllRamIsFound
<1>11. RunsAreNotEmpty
  BY <1>2, <1>3 DEF RunsAreNotEmpty, Sound, RunsOK, Lists
<1> QED BY <1>8, <1>9, <1>10, <1>11

(* After boot every frame of unreserved RAM is in one run of one list or   *)
(* in one caller's hands, for ever: mm_init_physical finds all of them,    *)
(* and cutting runs, popping and pushing back loses and doubles none.      *)
THEOREM FreeLists ==
    ASSUME SupportedBoards
    PROVE  Spec => []FreeListsSound
BY Invariance, InvSound, PTL

(* "Finds the chunks that don't overlap with memory reservations"          *)
(* (physical_alloc.c:102) and "we can find all the free regions of         *)
(* unreserved RAM" (booting.md:50) hold of the supported boards, and there *)
(* the assert of physical_free_list_pop holds.                             *)
THEOREM Reservations ==
    ASSUME SupportedBoards
    PROVE  Spec => [](ReservedStaysReserved /\ AllRamIsFound /\ RunsAreNotEmpty)
BY Invariance, InvSound, PTL
-----------------------------------------------------------------------------
(* Refinement.  The frame that is granted is one of the candidates.        *)
LEMMA EmptyList ==
    ASSUME NEW P, NEW H, NEW F, NEW l, Sound(P, H, F), l \in Lists, P.head[l] = 0
    PROVE  H[l] = {}
<1>1. Chain(P, l, H[l])
  BY DEF Sound
<1>2. Closed(P, l, {})
  BY DEF Closed
<1> QED BY <1>1, <1>2 DEF Chain, Least

LEMMA SideFacts ==
    ASSUME NEW P, NEW H, NEW F, NEW x, Sound(P, H, F), x \in F
    PROVE  /\ x >= Limit => H["above"] # {}
           /\ x < Limit => H["below"] # {}
<1>1. x \in Frame /\ \E l \in Lists : \E f \in H[l] : f <= x /\ x < EndOf(P, f)
  BY DEF Sound, Holds
<1>2. PICK l \in Lists : \E f \in H[l] : f <= x /\ x < EndOf(P, f)
  BY <1>1
<1>3. PICK f \in H[l] : f <= x /\ x < EndOf(P, f)
  BY <1>2
<1>4. OnSide(l, f, EndOf(P, f)) /\ f \in Nat /\ EndOf(P, f) \in Nat
  BY HeaderFacts
<1>5. x \in Nat /\ Limit \in Nat
  BY <1>1, FrameFacts
<1>6. CASE l = "above"
  BY <1>3, <1>4, <1>5, <1>6 DEF OnSide
<1>7. CASE l = "below"
  BY <1>3, <1>4, <1>5, <1>7 DEF OnSide
<1> QED BY <1>6, <1>7 DEF Lists

LEMMA HeadSide ==
    ASSUME NEW P, NEW H, NEW F, NEW l, NEW h, Sound(P, H, F), l \in Lists, h \in H[l]
    PROVE  h \in F /\ h \in Nat /\ (l = "above" <=> h >= Limit)
<1>1. h \in F /\ h \in Nat /\ EndOf(P, h) \in Nat /\ h < EndOf(P, h) /\ OnSide(l, h, EndOf(P, h))
  BY HeaderFacts
<1>2. Limit \in Nat
  BY FrameFacts
<1>3. CASE l = "above"
  BY <1>1, <1>3 DEF OnSide
<1>4. CASE l = "below"
  BY <1>1, <1>2, <1>4 DEF OnSide
<1> QED BY <1>1, <1>3, <1>4 DEF Lists

AbstractFree == IF pc = "run" THEN FreeFrames(phys) ELSE {}

LEMMA FreeIs ==
    ASSUME NEW P, NEW F, IsFree(P, F)
    PROVE  FreeFrames(P) = F
BY FreeLemma DEF IsFree

LEMMA AllocRefines ==
    ASSUME Inv, NEW b \in BOOLEAN, mm_alloc_physical(b)
    PROVE  Abstract!Alloc(b)
<1>1. pc = "run" /\ board' = board /\ Usable' = Usable
  BY DEF mm_alloc_physical, Usable, IsReserved
<1>2. PICK F : IsFree(phys, F) /\ Shared(F, held, UsableSet(board))
  BY <1>1 DEF Inv, FreeInv, Running
<1>3. PICK H : Sound(phys, H, F)
  BY <1>2 DEF IsFree
<1>4. PICK l : l = ListFor(phys, b)
  OBVIOUS
<1>5. PICK h : h = phys.head[l]
  OBVIOUS
<1>6. /\ h = 0 => UNCHANGED <<phys, pc, held>> /\ ret' = <<"alloc", b, NULL>>
      /\ h # 0 => /\ h \in F /\ h \in H[l] /\ IsFree(phys', F \ {h})
                  /\ held' = held \cup {h} /\ pc' = pc /\ ret' = <<"alloc", b, h>>
  BY <1>3, <1>4, <1>5, AllocFacts
<1>7. AbstractFree = F
  BY <1>1, <1>2, FreeIs DEF AbstractFree
<1>8. pc' = "run"
  BY <1>1, <1>6
<1>9. PICK A : A = {f \in F : f >= Limit}
  OBVIOUS
<1>10. Abstract!Candidates(b) = IF b \/ A = {} THEN F \ A ELSE A
  BY <1>7, <1>9 DEF Abstract!Candidates, AbstractFree
<1>11. l \in Lists
  BY <1>4, ListFacts
<1>12. PICK above, below : above = "above" /\ below = "below"
  OBVIOUS
<1>13. above \in Lists /\ below \in Lists
  BY <1>12 DEF Lists
<1>14. phys.head[above] = 0 => A = {}
  <2> SUFFICES ASSUME phys.head[above] = 0, NEW x \in A PROVE FALSE
    OBVIOUS
  <2>1. x \in F /\ x >= Limit
    BY <1>9
  <2>2. H["above"] # {}
    BY <1>3, <2>1, SideFacts
  <2>3. H[above] = {}
    BY <1>3, <1>13, EmptyList
  <2> QED BY <1>12, <2>2, <2>3
<1>15. CASE h = 0
  <2>1. l = below /\ (b \/ phys.head[above] = 0)
    BY <1>4, <1>5, <1>12, <1>15 DEF ListFor
  <2>2. H[below] = {}
    BY <1>3, <1>5, <1>13, <1>15, <2>1, EmptyList
  <2>3. ASSUME NEW x \in F \ A PROVE FALSE
    <3>1. x \in Frame
      BY <1>3 DEF Sound, Holds
    <3>2. x \in Nat /\ Limit \in Nat
      BY <3>1, FrameFacts
    <3>3. x < Limit
      BY <1>9, <3>2
    <3>4. H["below"] # {}
      BY <1>3, <3>3, SideFacts
    <3> QED BY <1>12, <2>2, <3>4
  <2>4. Abstract!Candidates(b) = {}
    BY <1>10, <1>14, <2>1, <2>3
  <2>5. phys' = phys /\ ret' = <<"alloc", b, NULL>>
    BY <1>6, <1>15
  <2>6. AbstractFree' = AbstractFree
    BY <1>1, <1>8, <2>5 DEF AbstractFree
  <2> QED BY <1>1, <1>8, <2>4, <2>5, <2>6 DEF Abstract!Alloc, AbstractFree
<1>16. CASE h # 0
  <2>1. /\ h \in F /\ h \in H[l] /\ IsFree(phys', F \ {h}) /\ ret' = <<"alloc", b, h>>
    BY <1>6, <1>16
  <2>2. h \in Nat /\ (l = "above" <=> h >= Limit)
    BY <1>3, <1>11, <2>1, HeadSide
  <2>3. h \in Abstract!Candidates(b)
    <3>1. CASE l = "above"
      <4>1. ~b
        BY <1>4, <3>1 DEF ListFor
      <4>2. h \in A
        BY <1>9, <2>1, <2>2, <3>1
      <4> QED BY <1>10, <4>1, <4>2
    <3>2. CASE l # "above"
      <4>1. b \/ phys.head[above] = 0
        BY <1>4, <1>12, <3>2 DEF ListFor
      <4>2. h \notin A
        BY <1>9, <2>2, <3>2
      <4> QED BY <1>10, <1>14, <2>1, <4>1, <4>2
    <3> QED BY <3>1, <3>2
  <2>4. PICK G : G = F \ {h}
    OBVIOUS
  <2>5. FreeFrames(phys') = G
    BY <2>1, <2>4, FreeIs
  <2>6. AbstractFree' = AbstractFree \ {h}
    BY <1>7, <1>8, <2>4, <2>5 DEF AbstractFree
  <2> QED BY <1>1, <1>8, <2>1, <2>3, <2>6 DEF Abstract!Alloc, AbstractFree
<1> QED BY <1>15, <1>16

LEMMA FreeRefines ==
    ASSUME Inv, NEW f \in held, mm_free_physical(f)
    PROVE  f \in Usable /\ Abstract!Free(f)
<1>1. pc = "run" /\ Usable' = Usable /\ ret' = <<"free", f>>
  BY DEF mm_free_physical, Usable, IsReserved
<1>2. PICK F : IsFree(phys, F) /\ Shared(F, held, UsableSet(board))
  BY <1>1 DEF Inv, FreeInv, Running
<1>3. /\ f \notin F /\ f \in UsableSet(board) /\ IsFree(phys', F \cup {f})
      /\ held' = held \ {f} /\ pc' = "run" /\ board' = board
  BY <1>2, FreeFacts
<1>4. f \in Usable
  BY <1>3, BoardType, UsableIs DEF Inv
<1>5. PICK G : G = F \cup {f}
  OBVIOUS
<1>6. FreeFrames(phys) = F /\ FreeFrames(phys') = G
  BY <1>2, <1>3, <1>5, FreeIs
<1>7. AbstractFree = F /\ AbstractFree' = AbstractFree \cup {f}
  BY <1>1, <1>3, <1>5, <1>6 DEF AbstractFree
<1>8. Abstract!Free(f)
  BY <1>1, <1>3, <1>7 DEF Abstract!Free, AbstractFree
<1> QED BY <1>4, <1>8

LEMMA BootRefines ==
    ASSUME SupportedBoards, Inv, InitPhysical
    PROVE  Abstract!InitPhysical \/ UNCHANGED Abstract!vars
<1>1. pc # "run" /\ board' = board /\ ret' = ret
  BY DEF InitPhysical, reserved_memory_to_array, NextMemory, BumpUpStart, consider_physical_memory
<1>2. Usable' = Usable
  BY <1>1 DEF Usable, IsReserved
<1>3. AbstractFree = {}
  BY <1>1 DEF AbstractFree
<1>4. CASE pc' # "run"
  <2>1. AbstractFree' = {}
    BY <1>4 DEF AbstractFree
  <2>2. (pc = "run") = FALSE /\ (pc' = "run") = FALSE
    BY <1>1, <1>4
  <2> QED BY <1>1, <1>2, <1>3, <2>1, <2>2 DEF Abstract!vars, AbstractFree
<1>5. CASE pc' = "run"
  <2>1. FreeInv' /\ TypeInv'
    <3>1. [Next]_vars
      BY DEF Next
    <3> QED BY <3>1, InvStep DEF Inv
  <2>2. held' = {}
    <3>1. held' = held
      BY DEF InitPhysical, reserved_memory_to_array, NextMemory, BumpUpStart, consider_physical_memory
    <3> QED BY <1>1, <3>1 DEF Inv, FreeInv
  <2>3. PICK F : IsFree(phys', F) /\ Shared(F, held', UsableSet(board'))
    BY <1>5, <2>1 DEF FreeInv, Running
  <2>4. F = UsableSet(board)
    BY <1>1, <2>2, <2>3 DEF Shared
  <2>5. FreeFrames(phys') = F
    BY <2>3, FreeIs
  <2>6. Usable = UsableSet(board)
    BY BoardType, UsableIs DEF Inv
  <2>7. AbstractFree' = Usable
    BY <1>5, <2>4, <2>5, <2>6 DEF AbstractFree
  <2> QED BY <1>1, <1>2, <1>5, <2>7 DEF Abstract!InitPhysical, AbstractFree
<1> QED BY <1>4, <1>5

LEMMA StepRefines ==
    ASSUME SupportedBoards
    PROVE  Inv /\ [Next]_vars => [Abstract!Next]_(Abstract!vars)
<1> SUFFICES ASSUME Inv, [Next]_vars PROVE [Abstract!Next]_(Abstract!vars)
  OBVIOUS
<1>1. CASE InitPhysical
  BY <1>1, BootRefines DEF Abstract!Next
<1>2. ASSUME NEW b \in BOOLEAN, mm_alloc_physical(b) PROVE Abstract!Next
  BY <1>2, AllocRefines DEF Abstract!Next
<1>3. ASSUME NEW f \in held, mm_free_physical(f) PROVE Abstract!Next
  BY <1>3, FreeRefines DEF Abstract!Next
<1>4. CASE UNCHANGED vars
  <2>1. board' = board /\ phys' = phys /\ pc' = pc /\ ret' = ret
    BY <1>4 DEF vars
  <2>2. Usable' = Usable /\ AbstractFree' = AbstractFree
    BY <2>1 DEF Usable, IsReserved, AbstractFree
  <2> QED BY <2>1, <2>2 DEF Abstract!vars, AbstractFree
<1>5. CASE Halt
  BY <1>4, <1>5 DEF Halt
<1> QED BY <1>1, <1>2, <1>3, <1>4, <1>5 DEF Next

(* The two chains of runs behave as one set of free frames, filled by      *)
(* mm_init_physical with all the unreserved RAM: what mm_alloc_physical    *)
(* grants is free and on the side that was asked for, what it refuses      *)
(* nobody could have met.                                                  *)
THEOREM Refinement ==
    ASSUME SupportedBoards
    PROVE  Spec => ImplementsFrameAllocator
<1>1. Init => Abstract!Init
  BY DEF Init, Abstract!Init
<1> QED BY <1>1, Invariance, StepRefines, PTL DEF Spec, ImplementsFrameAllocator, Abstract!Spec
=============================================================================
