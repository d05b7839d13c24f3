---------------------------- MODULE PagingProofs ----------------------------
(***************************************************************************)
(* Theorems about module Paging, for page tables of any radix, any number  *)
(* of frames, devices and VMAs, and any TLB.  In the order of the module:  *)
(*    - the tree of the page tables (Graph), and how storing one entry or  *)
(*      clearing a frame keeps it;                                         *)
(*    - what the hardware finds in the tree (TranslateFacts), and that a   *)
(*      store changes it for one address at most;                          *)
(*    - the frames that are in the tree, on the free list, or held by the  *)
(*      caller (FreeOK), and with these the operations of paging.c         *)
(*      (AllocLemma, FreeLemma, MapLemma, UnmapLemma);                     *)
(*    - the inductive invariant IInv, one lemma for each action;           *)
(*    - the boot stub, by induction over its pages;                        *)
(*    - the theorems.                                                      *)
(***************************************************************************)
EXTENDS Paging, FiniteSetTheorems, NaturalsInduction, TLAPS

(* Quotients: what \div and % give, and that nothing else is a quotient.   *)
LEMMA DivFacts ==
    ASSUME NEW a \in Nat, NEW b \in Nat, b > 0
    PROVE  /\ a \div b \in Nat /\ a % b \in 0..(b - 1)
           /\ a = b * (a \div b) + (a % b)
OBVIOUS

LEMMA DivUnique ==
    ASSUME NEW a \in Nat, NEW b \in Nat, b > 0, NEW q \in Nat, NEW r \in 0..(b - 1),
           a = b * q + r
    PROVE  a \div b = q /\ a % b = r
<1>1. a \div b \in Nat /\ a % b \in 0..(b - 1) /\ a = b * (a \div b) + (a % b)
  BY DivFacts
<1>2. PICK x, y : x = a \div b /\ y = a % b
  OBVIOUS
<1>3. x \in Nat /\ y \in 0..(b - 1) /\ b * q + r = b * x + y
  BY <1>1, <1>2
<1>4. ASSUME NEW u \in Nat, NEW v \in Nat, u < v PROVE b * u + b <= b * v
  <2>1. b * (v - u) >= b
    BY <1>4
  <2>2. b * (v - u) = b * v - b * u
    BY <1>4
  <2> QED BY <2>1, <2>2
<1>5. ~(q < x) /\ ~(x < q)
  BY <1>3, <1>4
<1> QED BY <1>2, <1>3, <1>5

(* The three indices determine the page. *)
LEMMA VpnFacts ==
    ASSUME NEW va \in Va
    PROVE  /\ vpn2(va) \in Idx /\ vpn1(va) \in Idx /\ vpn0(va) \in Idx
           /\ va = Radix * (Radix * vpn2(va) + vpn1(va)) + vpn0(va)
<1>1. PICK R : R = Radix /\ R \in Nat /\ R > 1
  BY PagingConstants
<1>2. va \in Nat /\ va < R * R * R
  BY <1>1 DEF Va
<1>3. PICK q1, r0 : q1 = va \div R /\ r0 = va % R
  OBVIOUS
<1>4. q1 \in Nat /\ r0 \in 0..(R - 1) /\ va = R * q1 + r0
  BY <1>1, <1>2, <1>3, DivFacts
<1>5. PICK q2, r1 : q2 = q1 \div R /\ r1 = q1 % R
  OBVIOUS
<1>6. q2 \in Nat /\ r1 \in 0..(R - 1) /\ q1 = R * q2 + r1
  BY <1>1, <1>4, <1>5, DivFacts
<1>7. va \div (R * R) = q2
  <2>1. PICK b, r : b = R * R /\ r = R * r1 + r0
    OBVIOUS
  <2>2. b \in Nat /\ b > 0 /\ r \in Nat
    BY <1>1, <1>4, <1>6, <2>1
  <2>3. r <= b - 1
    <3>1. R * r1 <= R * (R - 1)
      BY <1>1, <1>6
    <3>2. R * (R - 1) = b - R
      BY <1>1, <2>1
    <3> QED BY <1>1, <1>4, <1>6, <2>1, <2>2, <3>1, <3>2
  <2>4. va = b * q2 + r
    <3>1. R * (R * q2 + r1) = R * R * q2 + R * r1
      BY <1>1, <1>6
    <3> QED BY <1>1, <1>4, <1>6, <2>1, <3>1
  <2> QED BY <1>2, <1>6, <2>1, <2>2, <2>3, <2>4, DivUnique
<1>8. q2 < R
  <2> SUFFICES ASSUME q2 >= R PROVE FALSE
    BY <1>1, <1>6
  <2>1. R * q2 >= R * R
    BY <1>1, <1>6
  <2>2. q1 >= R * R
    BY <1>1, <1>6, <2>1
  <2>3. R * q1 >= R * (R * R)
    BY <1>1, <1>4, <2>2
  <2> QED BY <1>1, <1>2, <1>4, <2>3
<1>9. q2 % R = q2
  BY <1>1, <1>6, <1>8, DivUnique
<1>10. vpn0(va) = r0 /\ vpn1(va) = r1 /\ vpn2(va) = q2
  BY <1>1, <1>3, <1>5, <1>7, <1>9 DEF vpn2, vpn1, vpn0
<1>11. r0 \in Idx /\ r1 \in Idx /\ q2 \in Idx
  BY <1>1, <1>4, <1>6, <1>8 DEF Idx
<1> QED BY <1>1, <1>4, <1>6, <1>10, <1>11

LEMMA VpnInjective ==
    ASSUME NEW u \in Va, NEW v \in Va,
           vpn2(u) = vpn2(v), vpn1(u) = vpn1(v), vpn0(u) = vpn0(v)
    PROVE  u = v
BY VpnFacts

-----------------------------------------------------------------------------
(* The page tables are a tree.  lvl has the level of each frame: 3 for     *)
(* Root, 2 and 1 for the tables below it, 0 for the pages that are mapped, *)
(* and 4 for the frames that are none of these; par has the only entry     *)
(* that points to a table or to a mapped page.                             *)

Map(pa) == Leaf(pa, "PGPERM_KRW")
Link(f) == [valid |-> TRUE, ppn |-> f, flags |-> {}]

Tables == [Frame -> [Idx -> Pte]]
MemType == [mem : Tables, free : Seq(Frame)]

(* What the entry at <<t, i>> of a table may be. *)
EntryOK(e, t, i, lvl, par) ==
    \/ e = ZeroPte
    \/ /\ lvl[t] > 1
       /\ \E f \in Frame : e = Link(f) /\ lvl[f] = lvl[t] - 1 /\ par[f] = <<t, i>>
    \/ /\ lvl[t] = 1
       /\ \E f \in Frame : e = Map(f) /\ lvl[f] = 0 /\ par[f] = <<t, i>>
    \/ /\ lvl[t] = 1
       /\ \E d \in Device : e = Map(d)

(* The entry that points to f. *)
ParentOK(mm, f, lvl, par) ==
    \E t \in Frame, i \in Idx : /\ par[f] = <<t, i>> /\ lvl[t] = lvl[f] + 1
                                /\ mm[t][i] = IF lvl[f] = 0 THEN Map(f) ELSE Link(f)

Graph(mm, lvl, par) ==
    /\ mm \in Tables /\ lvl \in [Frame -> 0..4] /\ par \in [Frame -> Frame \X Idx]
    /\ \A f \in Frame : lvl[f] = 3 <=> f = Root
    /\ \A t \in Frame, i \in Idx : lvl[t] \in 1..3 => EntryOK(mm[t][i], t, i, lvl, par)
    /\ \A f \in Frame : lvl[f] \in 0..2 => ParentOK(mm, f, lvl, par)

LEMMA PteFacts ==
    /\ ZeroPte \in Pte /\ ~ZeroPte.valid
    /\ \A f \in Frame \cup Device :
          /\ Map(f) \in Pte /\ Map(f).valid /\ Map(f).ppn = f /\ Map(f) # ZeroPte
          /\ Map(f).flags \cap {"R", "X"} # {}
          /\ Link(f) \in Pte /\ Link(f).valid /\ Link(f).ppn = f /\ Link(f) # ZeroPte
          /\ Link(f).flags = {}
    /\ \A f, g \in Frame \cup Device : /\ Map(f) = Map(g) => f = g
                                       /\ Link(f) = Link(g) => f = g
                                       /\ Map(f) # Link(g)
<1>1. PermFlags["PGPERM_KRW"] = {"W", "G"}
  BY DEF PermFlags
<1>2. ASSUME NEW f
      PROVE  Map(f) = [valid |-> TRUE, ppn |-> f, flags |-> {"R", "A", "D"} \cup {"W", "G"}]
  BY <1>1 DEF Map, Leaf
<1>3. ZeroPte \in Pte /\ ~ZeroPte.valid
  BY DEF ZeroPte, Pte
<1>4. ASSUME NEW f \in Frame \cup Device
      PROVE  /\ Map(f) \in Pte /\ Map(f).valid /\ Map(f).ppn = f
             /\ Map(f).flags = {"R", "A", "D"} \cup {"W", "G"}
             /\ Link(f) \in Pte /\ Link(f).valid /\ Link(f).ppn = f
             /\ Link(f).flags = {}
  BY <1>2 DEF Pte, Flags, Link
<1>5. ASSUME NEW f \in Frame \cup Device
      PROVE  Map(f) # ZeroPte /\ Link(f) # ZeroPte
  BY <1>3, <1>4
<1>6. "R" \in {"R", "A", "D"} \cup {"W", "G"}
  OBVIOUS
<1>7. ASSUME NEW f \in Frame \cup Device PROVE Map(f).flags \cap {"R", "X"} # {}
  BY <1>4, <1>6
<1>8. ASSUME NEW f \in Frame \cup Device, NEW g \in Frame \cup Device
      PROVE  /\ Map(f) = Map(g) => f = g
             /\ Link(f) = Link(g) => f = g
             /\ Map(f) # Link(g)
  BY <1>4, <1>7
<1> QED BY <1>3, <1>4, <1>5, <1>7, <1>8

(* Writing one entry. *)
Stores(mm, nn, t, i, e) == t \in Frame /\ i \in Idx /\ e \in Pte /\ nn = [mm EXCEPT ![t][i] = e]

Written(mm, nn, t, i, e) ==
    /\ nn \in Tables /\ nn[t][i] = e
    /\ \A u \in Frame, j \in Idx : u # t \/ j # i => nn[u][j] = mm[u][j]

LEMMA StoreFacts ==
    ASSUME NEW mm, NEW nn, NEW t, NEW i, NEW e, mm \in Tables, Stores(mm, nn, t, i, e)
    PROVE  Written(mm, nn, t, i, e)
BY DEF Tables, Stores, Written

(* Clearing a frame that is not a table changes no table. *)
Clears(mm, nn, f) == nn = [mm EXCEPT ![f] = [j \in Idx |-> ZeroPte]]

Cleared(mm, nn, f) ==
    /\ \A j \in Idx : nn[f][j] = ZeroPte
    /\ \A u \in Frame, j \in Idx : u # f => nn[u][j] = mm[u][j]

LEMMA ClearFrame ==
    ASSUME NEW mm, NEW lvl, NEW par, NEW f, NEW nn,
           Graph(mm, lvl, par), f \in Frame, lvl[f] = 4,
           Clears(mm, nn, f)
    PROVE  Graph(nn, lvl, par) /\ Cleared(mm, nn, f)
<1>1. mm \in Tables /\ lvl \in [Frame -> 0..4] /\ par \in [Frame -> Frame \X Idx]
  BY DEF Graph
<1>2. /\ nn \in Tables /\ \A j \in Idx : nn[f][j] = ZeroPte
      /\ \A u \in Frame, j \in Idx : u # f => nn[u][j] = mm[u][j]
  BY <1>1, PteFacts DEF Tables, Clears
<1>3. ASSUME NEW t \in Frame, NEW i \in Idx, lvl[t] \in 1..3
      PROVE  EntryOK(nn[t][i], t, i, lvl, par)
  <2>1. t # f
    BY <1>3
  <2> QED BY <1>2, <1>3, <2>1 DEF Graph
<1>4. ASSUME NEW g \in Frame, lvl[g] \in 0..2 PROVE ParentOK(nn, g, lvl, par)
  <2>1. PICK t \in Frame, i \in Idx :
           /\ par[g] = <<t, i>> /\ lvl[t] = lvl[g] + 1
           /\ mm[t][i] = IF lvl[g] = 0 THEN Map(g) ELSE Link(g)
    BY <1>4 DEF Graph, ParentOK
  <2>2. t # f
    BY <1>4, <2>1
  <2>3. nn[t][i] = mm[t][i]
    BY <1>2, <2>2
  <2> QED BY <2>1, <2>3 DEF ParentOK
<1> QED BY <1>1, <1>2, <1>3, <1>4 DEF Graph, Cleared

(* A frame that is none of the tables and pages becomes one. *)
Adds(mm, nn, lvl, t, i, f) ==
    /\ t \in Frame /\ i \in Idx /\ lvl[t] \in 1..3 /\ mm[t][i] = ZeroPte
    /\ f \in Frame /\ lvl[f] = 4
    /\ lvl[t] > 1 => \A j \in Idx : mm[f][j] = ZeroPte
    /\ nn = [mm EXCEPT ![t][i] = IF lvl[t] = 1 THEN Map(f) ELSE Link(f)]

Settles(lvl, lvl2, par, par2, t, i, f) ==
    lvl2 = [lvl EXCEPT ![f] = lvl[t] - 1] /\ par2 = [par EXCEPT ![f] = <<t, i>>]

LEMMA AddEntry ==
    ASSUME NEW mm, NEW lvl, NEW par, NEW t, NEW i, NEW f, NEW nn, NEW lvl2, NEW par2,
           Graph(mm, lvl, par), Adds(mm, nn, lvl, t, i, f),
           Settles(lvl, lvl2, par, par2, t, i, f)
    PROVE  Graph(nn, lvl2, par2)
<1>0. /\ t \in Frame /\ i \in Idx /\ lvl[t] \in 1..3 /\ mm[t][i] = ZeroPte
      /\ f \in Frame /\ lvl[f] = 4 /\ t # f
      /\ lvl[t] > 1 => \A j \in Idx : mm[f][j] = ZeroPte
  BY DEF Adds
<1>1. mm \in Tables /\ lvl \in [Frame -> 0..4] /\ par \in [Frame -> Frame \X Idx]
  BY DEF Graph
<1>2. PICK e : e = IF lvl[t] = 1 THEN Map(f) ELSE Link(f)
  OBVIOUS
<1>3. e \in Pte
  BY <1>0, <1>2, PteFacts
<1>4. /\ nn \in Tables /\ nn[t][i] = e
      /\ \A u \in Frame, j \in Idx : u # t \/ j # i => nn[u][j] = mm[u][j]
  <2>1. Stores(mm, nn, t, i, e)
    BY <1>0, <1>2, <1>3 DEF Adds, Stores
  <2>2. Written(mm, nn, t, i, e)
    BY ONLY <1>1, <2>1, StoreFacts
  <2> QED BY <2>2 DEF Written
<1>5. /\ lvl2 \in [Frame -> 0..4] /\ par2 \in [Frame -> Frame \X Idx]
      /\ lvl2[f] = lvl[t] - 1 /\ par2[f] = <<t, i>>
      /\ \A g \in Frame : g # f => lvl2[g] = lvl[g] /\ par2[g] = par[g]
  BY <1>0, <1>1 DEF Settles
<1>6. ASSUME NEW g \in Frame PROVE lvl2[g] = 3 <=> g = Root
  BY <1>0, <1>5 DEF Graph
<1>7. ASSUME NEW u \in Frame, NEW j \in Idx, lvl2[u] \in 1..3
      PROVE  EntryOK(nn[u][j], u, j, lvl2, par2)
  <2>1. CASE u = f
    BY <1>0, <1>4, <1>5, <1>7, <2>1 DEF EntryOK
  <2>2. CASE u = t /\ j = i
    BY <1>0, <1>2, <1>4, <1>5, <2>2 DEF EntryOK
  <2>3. CASE u # f /\ (u # t \/ j # i)
    <3>1. EntryOK(mm[u][j], u, j, lvl, par) /\ nn[u][j] = mm[u][j] /\ lvl2[u] = lvl[u]
      BY <1>4, <1>5, <1>7, <2>3 DEF Graph
    <3>2. ASSUME NEW g \in Frame, lvl[g] = lvl[u] - 1 \/ lvl[g] = 0
          PROVE  lvl2[g] = lvl[g] /\ par2[g] = par[g]
      BY <1>0, <1>5, <1>7, <3>1, <3>2
    <3> QED BY <3>1, <3>2 DEF EntryOK
  <2> QED BY <2>1, <2>2, <2>3
<1>8. ASSUME NEW g \in Frame, lvl2[g] \in 0..2 PROVE ParentOK(nn, g, lvl2, par2)
  <2>1. CASE g = f
    <3>1. lvl2[t] = lvl[t]
      BY <1>0, <1>5
    <3> QED BY <1>0, <1>1, <1>2, <1>4, <1>5, <2>1, <3>1 DEF ParentOK
  <2>2. CASE g # f
    <3>1. PICK u \in Frame, j \in Idx :
             /\ par[g] = <<u, j>> /\ lvl[u] = lvl[g] + 1
             /\ mm[u][j] = IF lvl[g] = 0 THEN Map(g) ELSE Link(g)
      BY <1>5, <1>8, <2>2 DEF Graph, ParentOK
    <3>2. mm[u][j] # ZeroPte
      BY <3>1, PteFacts
    <3>3. u # f /\ nn[u][j] = mm[u][j]
      BY <1>0, <1>4, <1>5, <1>8, <2>2, <3>1, <3>2
    <3> QED BY <1>5, <2>2, <3>1, <3>3 DEF ParentOK
  <2> QED BY <2>1, <2>2
<1> QED BY <1>4, <1>5, <1>6, <1>7, <1>8 DEF Graph

(* A page of a device is mapped. *)
LEMMA AddDevice ==
    ASSUME NEW mm, NEW lvl, NEW par, NEW t, NEW i, NEW d, NEW nn,
           Graph(mm, lvl, par), t \in Frame, i \in Idx, lvl[t] = 1, mm[t][i] = ZeroPte,
           d \in Device, nn = [mm EXCEPT ![t][i] = Map(d)]
    PROVE  Graph(nn, lvl, par)
<1>1. mm \in Tables /\ lvl \in [Frame -> 0..4] /\ par \in [Frame -> Frame \X Idx]
  BY DEF Graph
<1>2. /\ nn \in Tables /\ nn[t][i] = Map(d)
      /\ \A u \in Frame, j \in Idx : u # t \/ j # i => nn[u][j] = mm[u][j]
  <2>1. PICK e : e = Map(d)
    OBVIOUS
  <2>2. Stores(mm, nn, t, i, e)
    BY <2>1, PteFacts DEF Stores
  <2>3. Written(mm, nn, t, i, e)
    BY ONLY <1>1, <2>2, StoreFacts
  <2> QED BY <2>1, <2>3 DEF Written
<1>3. ASSUME NEW u \in Frame, NEW j \in Idx, lvl[u] \in 1..3
      PROVE  EntryOK(nn[u][j], u, j, lvl, par)
  <2>1. CASE u = t /\ j = i
    BY <1>2, <2>1 DEF EntryOK
  <2>2. CASE u # t \/ j # i
    BY <1>2, <1>3, <2>2 DEF Graph
  <2> QED BY <2>1, <2>2
<1>4. ASSUME NEW g \in Frame, lvl[g] \in 0..2 PROVE ParentOK(nn, g, lvl, par)
  <2>1. PICK u \in Frame, j \in Idx :
           /\ par[g] = <<u, j>> /\ lvl[u] = lvl[g] + 1
           /\ mm[u][j] = IF lvl[g] = 0 THEN Map(g) ELSE Link(g)
    BY <1>4 DEF Graph, ParentOK
  <2>2. mm[u][j] # ZeroPte
    BY <2>1, PteFacts
  <2>3. nn[u][j] = mm[u][j]
    BY <1>2, <2>2
  <2> QED BY <2>1, <2>3 DEF ParentOK
<1> QED BY <1>1, <1>2, <1>3, <1>4 DEF Graph

(* A page is unmapped: a frame is none of the tables and pages then. *)
Freed(lvl, x) == IF x \in Frame THEN [lvl EXCEPT ![x] = 4] ELSE lvl

Removes(mm, nn, t, i, x) ==
    /\ t \in Frame /\ i \in Idx /\ x \in Frame \cup Device /\ mm[t][i] = Map(x)
    /\ nn = [mm EXCEPT ![t][i] = ZeroPte]

LEMMA RemoveEntry ==
    ASSUME NEW mm, NEW lvl, NEW par, NEW t, NEW i, NEW x, NEW nn, NEW lvl2,
           Graph(mm, lvl, par), Removes(mm, nn, t, i, x), lvl[t] = 1, lvl2 = Freed(lvl, x)
    PROVE  Graph(nn, lvl2, par) /\ (x \in Frame => lvl[x] = 0)
<1>0. /\ t \in Frame /\ i \in Idx /\ x \in Frame \cup Device /\ mm[t][i] = Map(x)
      /\ nn = [mm EXCEPT ![t][i] = ZeroPte]
  BY DEF Removes
<1>1. mm \in Tables /\ lvl \in [Frame -> 0..4] /\ par \in [Frame -> Frame \X Idx]
  BY DEF Graph
<1>2. /\ nn \in Tables /\ nn[t][i] = ZeroPte
      /\ \A u \in Frame, j \in Idx : u # t \/ j # i => nn[u][j] = mm[u][j]
  <2>1. PICK e : e = ZeroPte
    OBVIOUS
  <2>2. Stores(mm, nn, t, i, e)
    BY <1>0, <2>1, PteFacts DEF Stores
  <2>3. Written(mm, nn, t, i, e)
    BY ONLY <1>1, <2>2, StoreFacts
  <2> QED BY <1>0, <2>1, <2>3 DEF Written
<1>3. x \in Frame => lvl[x] = 0 /\ par[x] = <<t, i>>
  <2>1. EntryOK(mm[t][i], t, i, lvl, par)
    BY <1>0 DEF Graph
  <2>2. Frame \cap Device = {}
    BY PagingConstants
  <2> QED BY <1>0, <2>1, <2>2, PteFacts DEF EntryOK
<1>4. /\ lvl2 \in [Frame -> 0..4]
      /\ \A g \in Frame : lvl2[g] = IF g = x THEN 4 ELSE lvl[g]
  <2>1. CASE x \in Frame
    BY <1>0, <1>1, <2>1 DEF Freed
  <2>2. CASE x \notin Frame
    BY <1>0, <1>1, <2>2 DEF Freed
  <2> QED BY <1>0, <2>1, <2>2
<1>5. ASSUME NEW g \in Frame PROVE lvl2[g] = 3 <=> g = Root
  BY <1>0, <1>3, <1>4 DEF Graph
<1>6. ASSUME NEW u \in Frame, NEW j \in Idx, lvl2[u] \in 1..3
      PROVE  EntryOK(nn[u][j], u, j, lvl2, par)
  <2>1. CASE u = t /\ j = i
    BY <1>0, <1>2, <2>1 DEF EntryOK
  <2>2. CASE u # t \/ j # i
    <3>1. EntryOK(mm[u][j], u, j, lvl, par) /\ nn[u][j] = mm[u][j] /\ lvl2[u] = lvl[u]
      BY <1>0, <1>2, <1>4, <1>6, <2>2 DEF Graph
    <3>2. ASSUME NEW g \in Frame, par[g] = <<u, j>> PROVE lvl2[g] = lvl[g]
      BY <1>0, <1>3, <1>4, <2>2, <3>2
    <3> QED BY <1>0, <3>1, <3>2 DEF EntryOK
  <2> QED BY <1>0, <2>1, <2>2
<1>7. ASSUME NEW g \in Frame, lvl2[g] \in 0..2 PROVE ParentOK(nn, g, lvl2, par)
  <2>1. g # x /\ lvl2[g] = lvl[g]
    BY <1>0, <1>4, <1>7
  <2>2. PICK u \in Frame, j \in Idx :
           /\ par[g] = <<u, j>> /\ lvl[u] = lvl[g] + 1
           /\ mm[u][j] = IF lvl[g] = 0 THEN Map(g) ELSE Link(g)
    BY <1>0, <1>7, <2>1 DEF Graph, ParentOK
  <2>3. mm[u][j] # Map(x)
    BY <1>0, <2>1, <2>2, PteFacts
  <2>4. nn[u][j] = mm[u][j]
    BY <1>0, <1>2, <2>3
  <2>5. lvl2[u] = lvl[u]
    BY <1>0, <1>3, <1>4, <1>7, <2>1, <2>2
  <2> QED BY <1>0, <2>1, <2>2, <2>4, <2>5 DEF ParentOK
<1> QED BY <1>1, <1>2, <1>3, <1>4, <1>5, <1>6, <1>7 DEF Graph
-----------------------------------------------------------------------------
(* Where the hardware finds the entry of an address: in the table t of     *)
(* the lowest level, if there is one.                                      *)
Slot(mm, va, t) ==
    \E t1 \in Frame : mm[Root][vpn2(va)] = Link(t1) /\ mm[t1][vpn1(va)] = Link(t)

LinkAt(mm, lvl, t, i, f) ==
    t \in Frame /\ i \in Idx /\ f \in Frame /\ lvl[t] \in 1..3 /\ mm[t][i] = Link(f)

Below(lvl, par, t, i, f) == lvl[t] > 1 /\ lvl[f] = lvl[t] - 1 /\ par[f] = <<t, i>>

LEMMA LinkLevels ==
    ASSUME NEW mm, NEW lvl, NEW par, NEW t, NEW i, NEW f,
           Graph(mm, lvl, par), LinkAt(mm, lvl, t, i, f)
    PROVE  Below(lvl, par, t, i, f)
<1>1. EntryOK(mm[t][i], t, i, lvl, par)
  BY DEF Graph, LinkAt
<1> QED BY <1>1, PteFacts DEF EntryOK, LinkAt, Below

LEMMA SlotLevels ==
    ASSUME NEW mm, NEW lvl, NEW par, NEW va, NEW t,
           Graph(mm, lvl, par), va \in Va, t \in Frame, Slot(mm, va, t)
    PROVE  /\ lvl[t] = 1
           /\ \E t1 \in Frame : /\ lvl[t1] = 2 /\ par[t] = <<t1, vpn1(va)>>
                                /\ par[t1] = <<Root, vpn2(va)>>
                                /\ mm[Root][vpn2(va)] = Link(t1)
                                /\ mm[t1][vpn1(va)] = Link(t)
<1>1. PICK t1 \in Frame : mm[Root][vpn2(va)] = Link(t1) /\ mm[t1][vpn1(va)] = Link(t)
  BY DEF Slot
<1>2. lvl[Root] = 3 /\ Root \in Frame /\ vpn2(va) \in Idx /\ vpn1(va) \in Idx
  BY PagingConstants, VpnFacts DEF Graph
<1>3. lvl[t1] = 2 /\ par[t1] = <<Root, vpn2(va)>>
  <2>1. LinkAt(mm, lvl, Root, vpn2(va), t1)
    BY <1>1, <1>2 DEF LinkAt
  <2>2. Below(lvl, par, Root, vpn2(va), t1)
    BY <2>1, LinkLevels
  <2> QED BY <1>2, <2>2 DEF Below
<1>4. lvl[t] = 1 /\ par[t] = <<t1, vpn1(va)>>
  <2>1. LinkAt(mm, lvl, t1, vpn1(va), t)
    BY <1>1, <1>2, <1>3 DEF LinkAt
  <2>2. Below(lvl, par, t1, vpn1(va), t)
    BY <2>1, LinkLevels
  <2> QED BY <1>3, <2>2 DEF Below
<1> QED BY <1>1, <1>3, <1>4

LEMMA SlotInjective ==
    ASSUME NEW mm, NEW lvl, NEW par, NEW u, NEW v, NEW t,
           Graph(mm, lvl, par), u \in Va, v \in Va, t \in Frame,
           Slot(mm, u, t), Slot(mm, v, t), vpn0(u) = vpn0(v)
    PROVE  u = v
<1>1. PICK t1 \in Frame : par[t] = <<t1, vpn1(u)>> /\ par[t1] = <<Root, vpn2(u)>>
  BY SlotLevels
<1>2. PICK t2 \in Frame : par[t] = <<t2, vpn1(v)>> /\ par[t2] = <<Root, vpn2(v)>>
  BY SlotLevels
<1>3. vpn1(u) = vpn1(v) /\ t1 = t2
  BY <1>1, <1>2
<1>4. vpn2(u) = vpn2(v)
  BY <1>1, <1>2, <1>3
<1> QED BY <1>3, <1>4, VpnInjective

LEMMA SlotUnique ==
    ASSUME NEW mm, NEW va, NEW t, NEW x, t \in Frame, x \in Frame,
           Slot(mm, va, t), Slot(mm, va, x)
    PROVE  x = t
<1>1. \A f, g \in Frame : Link(f) = Link(g) => f = g
  BY PteFacts
<1> QED BY <1>1 DEF Slot

Found(m, lvl, va) ==
    \/ \E t \in Frame : /\ Slot(m.mem, va, t) /\ lvl[t] = 1
                        /\ Translate(m, va) = m.mem[t][vpn0(va)]
    \/ (\A t \in Frame : ~Slot(m.mem, va, t)) /\ Translate(m, va) = ZeroPte

LEMMA TranslateFacts ==
    ASSUME NEW m, NEW lvl, NEW par, NEW va, Graph(m.mem, lvl, par), va \in Va
    PROVE  Found(m, lvl, va)
<1>0. /\ lvl[Root] = 3 /\ Root \in Frame
      /\ vpn2(va) \in Idx /\ vpn1(va) \in Idx /\ vpn0(va) \in Idx
  BY PagingConstants, VpnFacts DEF Graph
<1>1. PICK p2, p1, p0 : /\ p2 = m.mem[Root][vpn2(va)] /\ p1 = m.mem[p2.ppn][vpn1(va)]
                        /\ p0 = m.mem[p1.ppn][vpn0(va)]
  OBVIOUS
<1>2. Translate(m, va) = IF ~p2.valid \/ p2.flags \cap {"R", "X"} # {} THEN p2
                         ELSE IF ~p1.valid \/ p1.flags \cap {"R", "X"} # {} THEN p1
                         ELSE IF ~p0.valid THEN ZeroPte ELSE p0
  BY <1>1 DEF Translate, Fault
<1>3. p2 = ZeroPte \/ \E f \in Frame : p2 = Link(f) /\ lvl[f] = 2
  <2>0. \A t \in Frame, i \in Idx : lvl[t] \in 1..3 => EntryOK(m.mem[t][i], t, i, lvl, par)
    BY ONLY Graph(m.mem, lvl, par) DEF Graph
  <2>2. lvl[Root] \in 1..3
    BY ONLY <1>0
  <2>1. EntryOK(p2, Root, vpn2(va), lvl, par)
    BY ONLY <1>0, <1>1, <2>0, <2>2, Zenon
  <2> QED BY <1>0, <2>1 DEF EntryOK
<1>4. CASE p2 = ZeroPte
  <2>1. Translate(m, va) = ZeroPte
    BY <1>2, <1>4, PteFacts
  <2>2. \A t \in Frame : ~Slot(m.mem, va, t)
    BY <1>1, <1>4, PteFacts DEF Slot
  <2> QED BY <2>1, <2>2 DEF Found
<1>5. ASSUME NEW t1 \in Frame, p2 = Link(t1), lvl[t1] = 2
      PROVE  Found(m, lvl, va)
  <2>1. p2.valid /\ p2.flags \cap {"R", "X"} = {} /\ p2.ppn = t1
    BY <1>5, PteFacts
  <2>2. p1 = m.mem[t1][vpn1(va)]
    BY <1>1, <2>1
  <2>3. p1 = ZeroPte \/ \E f \in Frame : p1 = Link(f) /\ lvl[f] = 1
    <3>1. EntryOK(p1, t1, vpn1(va), lvl, par)
      BY <1>0, <1>5, <2>2 DEF Graph
    <3> QED BY <1>5, <3>1 DEF EntryOK
  <2>4. CASE p1 = ZeroPte
    <3>1. Translate(m, va) = ZeroPte
      BY <1>2, <2>1, <2>4, PteFacts
    <3>2. \A t \in Frame : ~Slot(m.mem, va, t)
      BY <1>1, <1>5, <2>2, <2>4, PteFacts DEF Slot
    <3> QED BY <3>1, <3>2 DEF Found
  <2>5. ASSUME NEW t \in Frame, p1 = Link(t), lvl[t] = 1
        PROVE  Slot(m.mem, va, t) /\ Translate(m, va) = m.mem[t][vpn0(va)]
    <3>1. p1.valid /\ p1.flags \cap {"R", "X"} = {} /\ p1.ppn = t
      BY <2>5, PteFacts
    <3>2. p0 = m.mem[t][vpn0(va)]
      BY <1>1, <3>1
    <3>3. EntryOK(p0, t, vpn0(va), lvl, par)
      BY <1>0, <2>5, <3>2 DEF Graph
    <3>4. p0 = ZeroPte \/ \E f \in Frame \cup Device : p0 = Map(f)
      BY <2>5, <3>3 DEF EntryOK
    <3>5. p0 # ZeroPte => p0.valid
      BY <3>4, PteFacts
    <3>6. Translate(m, va) = p0
      BY <1>2, <2>1, <3>1, <3>5
    <3> QED BY <1>1, <1>5, <2>2, <2>5, <3>2, <3>6 DEF Slot
  <2> QED BY <2>3, <2>4, <2>5 DEF Found
<1> QED BY <1>3, <1>4, <1>5

(* What an access to any address other than va finds is the same. *)
SameBut(m, n, va) == \A u \in Va : u # va => Translate(n, u) = Translate(m, u)
SameAll(m, n)     == \A u \in Va : Translate(n, u) = Translate(m, u)

(* Writing the entry of va. *)
LEMMA StoreTranslate ==
    ASSUME NEW m, NEW n, NEW lvl, NEW par, NEW lvl2, NEW par2, NEW va, NEW t, NEW e,
           Graph(m.mem, lvl, par), Graph(n.mem, lvl2, par2), va \in Va, t \in Frame,
           Slot(m.mem, va, t), Written(m.mem, n.mem, t, vpn0(va), e)
    PROVE  Translate(n, va) = e /\ SameBut(m, n, va)
<1>1. PICK mm, nn : mm = m.mem /\ nn = n.mem
  OBVIOUS
<1>2. /\ Graph(mm, lvl, par) /\ Graph(nn, lvl2, par2) /\ Slot(mm, va, t)
      /\ nn[t][vpn0(va)] = e
      /\ \A u \in Frame, j \in Idx : u # t \/ j # vpn0(va) => nn[u][j] = mm[u][j]
  BY <1>1 DEF Written
<1>3. lvl[t] = 1 /\ lvl[Root] = 3 /\ Root \in Frame
  <2>1. lvl[t] = 1
    BY <1>2, SlotLevels
  <2> QED BY <1>2, <2>1, PagingConstants DEF Graph
<1>4. ASSUME NEW u \in Va, NEW x \in Frame PROVE Slot(nn, u, x) <=> Slot(mm, u, x)
  <2>0. vpn2(u) \in Idx /\ vpn1(u) \in Idx
    BY VpnFacts
  <2>1. nn[Root][vpn2(u)] = mm[Root][vpn2(u)]
    BY <1>2, <1>3, <2>0
  <2>2. ASSUME NEW t1 \in Frame, mm[Root][vpn2(u)] = Link(t1)
        PROVE  nn[t1][vpn1(u)] = mm[t1][vpn1(u)]
    <3>1. LinkAt(mm, lvl, Root, vpn2(u), t1)
      BY <1>3, <2>0, <2>2 DEF LinkAt
    <3>2. Below(lvl, par, Root, vpn2(u), t1)
      BY <1>2, <3>1, LinkLevels
    <3>3. t1 # t
      BY <1>3, <3>2 DEF Below
    <3> QED BY <1>2, <2>0, <3>3
  <2> QED BY <2>1, <2>2 DEF Slot
<1>5. ASSUME NEW u \in Va, NEW x \in Frame, Slot(mm, u, x)
      PROVE  Translate(m, u) = mm[x][vpn0(u)] /\ Translate(n, u) = nn[x][vpn0(u)]
  <2>1. ASSUME NEW y \in Frame, Slot(mm, u, y) PROVE y = x
    <3>1. \A f, g \in Frame : Link(f) = Link(g) => f = g
      BY PteFacts
    <3> QED BY <1>5, <2>1, <3>1 DEF Slot
  <2>4. Found(m, lvl, u) /\ Found(n, lvl2, u)
    BY TranslateFacts
  <2>2. Translate(m, u) = mm[x][vpn0(u)]
    BY <1>1, <1>5, <2>1, <2>4 DEF Found
  <2>3. Translate(n, u) = nn[x][vpn0(u)]
    BY <1>1, <1>4, <1>5, <2>1, <2>4 DEF Found
  <2> QED BY <2>2, <2>3
<1>6. Translate(n, va) = e
  BY <1>2, <1>5
<1>7. ASSUME NEW u \in Va, u # va PROVE Translate(n, u) = Translate(m, u)
  <2>1. CASE \E x \in Frame : Slot(mm, u, x)
    <3>1. PICK x \in Frame : Slot(mm, u, x)
      BY <2>1
    <3>2. x # t \/ vpn0(u) # vpn0(va)
      BY <1>2, <1>7, <3>1, SlotInjective
    <3>3. vpn0(u) \in Idx
      BY VpnFacts
    <3> QED BY <1>2, <1>5, <3>1, <3>2, <3>3
  <2>2. CASE \A x \in Frame : ~Slot(mm, u, x)
    <3>0. Found(m, lvl, u) /\ Found(n, lvl2, u)
      BY TranslateFacts
    <3>1. Translate(m, u) = ZeroPte
      BY <1>1, <2>2, <3>0 DEF Found
    <3>2. Translate(n, u) = ZeroPte
      BY <1>1, <1>4, <2>2, <3>0 DEF Found
    <3> QED BY <3>1, <3>2
  <2> QED BY <2>1, <2>2
<1> QED BY <1>6, <1>7 DEF SameBut

(* Linking a new, empty table: no address is mapped by it. *)
Links(mm, nn, lvl, t, i, f) ==
    /\ t \in Frame /\ i \in Idx /\ lvl[t] \in 2..3 /\ mm[t][i] = ZeroPte
    /\ f \in Frame /\ lvl[f] = 4 /\ nn[t][i] = Link(f)
    /\ \A j \in Idx : nn[f][j] = ZeroPte
    /\ \A u \in Frame, j \in Idx : u # f /\ (u # t \/ j # i) => nn[u][j] = mm[u][j]

LEMMA LinkTranslate ==
    ASSUME NEW m, NEW n, NEW lvl, NEW par, NEW lvl2, NEW par2, NEW t, NEW i, NEW f,
           Graph(m.mem, lvl, par), Graph(n.mem, lvl2, par2), Links(m.mem, n.mem, lvl, t, i, f)
    PROVE  SameAll(m, n)
<1>1. PICK mm, nn : mm = m.mem /\ nn = n.mem
  OBVIOUS
<1>2. /\ Graph(mm, lvl, par) /\ Graph(nn, lvl2, par2)
      /\ t \in Frame /\ i \in Idx /\ lvl[t] \in 2..3 /\ mm[t][i] = ZeroPte
      /\ f \in Frame /\ lvl[f] = 4 /\ nn[t][i] = Link(f)
      /\ \A j \in Idx : nn[f][j] = ZeroPte
      /\ \A u \in Frame, j \in Idx : u # f /\ (u # t \/ j # i) => nn[u][j] = mm[u][j]
  BY <1>1 DEF Links
<1>3. lvl[Root] = 3 /\ Root \in Frame /\ Root # f
  BY <1>2, PagingConstants DEF Graph
<1>4. \A g, h \in Frame : (Link(g) = Link(h) => g = h) /\ Link(g) # ZeroPte
  BY PteFacts
<1>5. ASSUME NEW u \in Va PROVE Translate(n, u) = Translate(m, u)
  <2>0. vpn2(u) \in Idx /\ vpn1(u) \in Idx /\ vpn0(u) \in Idx
    BY VpnFacts
  <2>3. Found(m, lvl, u) /\ Found(n, lvl2, u)
    BY TranslateFacts
  <2>1. ASSUME NEW x \in Frame, Slot(mm, u, x), lvl[x] = 1, Translate(m, u) = mm[x][vpn0(u)]
        PROVE  Translate(n, u) = Translate(m, u)
    <3>1. PICK t1 \in Frame : /\ lvl[t1] = 2 /\ mm[Root][vpn2(u)] = Link(t1)
                              /\ mm[t1][vpn1(u)] = Link(x)
      BY <1>2, <2>1, SlotLevels
    <3>2. nn[Root][vpn2(u)] = Link(t1)
      BY <1>2, <1>3, <1>4, <2>0, <3>1
    <3>3. nn[t1][vpn1(u)] = Link(x)
      BY <1>2, <1>4, <2>0, <3>1
    <3>4. \A y \in Frame : Slot(nn, u, y) <=> y = x
      BY <1>4, <3>1, <3>2, <3>3 DEF Slot
    <3>5. Translate(n, u) = nn[x][vpn0(u)]
      BY <1>1, <2>3, <3>4 DEF Found
    <3>6. nn[x][vpn0(u)] = mm[x][vpn0(u)]
      BY <1>2, <2>0, <2>1
    <3> QED BY <2>1, <3>5, <3>6
  <2>2. ASSUME \A x \in Frame : ~Slot(mm, u, x) PROVE Translate(n, u) = ZeroPte
    <3>1. ASSUME NEW x \in Frame, Slot(nn, u, x), Translate(n, u) = nn[x][vpn0(u)]
          PROVE  Translate(n, u) = ZeroPte
      <4>1. PICK t1 \in Frame : nn[Root][vpn2(u)] = Link(t1) /\ nn[t1][vpn1(u)] = Link(x)
        BY <3>1 DEF Slot
      <4>2. t1 # f
        BY <1>2, <1>4, <2>0, <4>1
      <4>3. mm[Root][vpn2(u)] = Link(t1)
        BY <1>2, <1>3, <1>4, <2>0, <4>1, <4>2
      <4>4. mm[t1][vpn1(u)] # Link(x)
        BY <2>2, <4>3 DEF Slot
      <4>5. x = f
        BY <1>2, <1>4, <2>0, <4>1, <4>2, <4>4
      <4> QED BY <1>2, <2>0, <3>1, <4>5
    <3> QED BY <1>1, <2>3, <3>1 DEF Found
  <2> QED BY <1>1, <2>1, <2>2, <2>3 DEF Found
<1> QED BY <1>5 DEF SameAll
-----------------------------------------------------------------------------
(* The frames that are none of the tables and pages are those on the free  *)
(* list and those of X, which somebody holds.                              *)
FreeOK(free, lvl, X) ==
    /\ free \in Seq(Frame) /\ X \in SUBSET Frame
    /\ \A i, j \in 1..Len(free) : i # j => free[i] # free[j]
    /\ \A i \in 1..Len(free) : free[i] \notin X
    /\ \A f \in Frame : lvl[f] = 4 <=> f \in X \/ \E i \in 1..Len(free) : free[i] = f

Sound(m, lvl, par, X) ==
    m \in MemType /\ Graph(m.mem, lvl, par) /\ FreeOK(m.free, lvl, X)

(* The first frame of the list is held by whoever takes it. *)
LEMMA TakeFrame ==
    ASSUME NEW free, NEW lvl, NEW X, NEW f, NEW rest, NEW Y,
           FreeOK(free, lvl, X), free # <<>>, f = Head(free), rest = Tail(free), Y = X \cup {f}
    PROVE  FreeOK(rest, lvl, Y) /\ f \in Frame /\ f \notin X /\ lvl[f] = 4
<1>1. /\ free \in Seq(Frame) /\ Len(free) \in Nat /\ Len(free) > 0 /\ f = free[1]
      /\ rest \in Seq(Frame) /\ Len(rest) = Len(free) - 1
      /\ \A i \in 1..Len(rest) : rest[i] = free[i + 1]
  BY DEF FreeOK
<1>2. f \in Frame /\ f \notin X /\ lvl[f] = 4
  BY <1>1 DEF FreeOK
<1>3. \A i, j \in 1..Len(rest) : i # j => rest[i] # rest[j]
  BY <1>1 DEF FreeOK
<1>4. \A i \in 1..Len(rest) : rest[i] \notin Y
  BY <1>1 DEF FreeOK
<1>5. ASSUME NEW g \in Frame
      PROVE  (\E i \in 1..Len(free) : free[i] = g) <=> g = f \/ \E i \in 1..Len(rest) : rest[i] = g
  <2>1. ASSUME NEW i \in 1..Len(free), free[i] = g, g # f
        PROVE  \E j \in 1..Len(rest) : rest[j] = g
    <3>1. i - 1 \in 1..Len(rest) /\ rest[i - 1] = g
      BY <1>1, <2>1
    <3> QED BY <3>1
  <2>2. ASSUME NEW j \in 1..Len(rest), rest[j] = g
        PROVE  \E i \in 1..Len(free) : free[i] = g
    <3>1. j + 1 \in 1..Len(free) /\ free[j + 1] = g
      BY <1>1, <2>2
    <3> QED BY <3>1
  <2>3. 1 \in 1..Len(free)
    BY <1>1
  <2> QED BY <1>1, <2>1, <2>2, <2>3
<1> QED BY <1>1, <1>2, <1>3, <1>4, <1>5 DEF FreeOK

(* A frame that is held goes back to the list. *)
Gives(free, all, f, X, Y) == f \in X /\ all = <<f>> \o free /\ Y = X \ {f}

LEMMA GiveFrame ==
    ASSUME NEW free, NEW lvl, NEW X, NEW f, NEW all, NEW Y,
           FreeOK(free, lvl, X), Gives(free, all, f, X, Y)
    PROVE  FreeOK(all, lvl, Y)
<1>0. f \in X /\ all = <<f>> \o free /\ Y = X \ {f}
  BY DEF Gives
<1>1. /\ free \in Seq(Frame) /\ Len(free) \in Nat /\ f \in Frame
      /\ all \in Seq(Frame) /\ Len(all) = Len(free) + 1 /\ all[1] = f
      /\ \A i \in 1..Len(free) : all[i + 1] = free[i]
      /\ \A i \in 1..Len(all) : i # 1 => i - 1 \in 1..Len(free) /\ all[i] = free[i - 1]
  BY <1>0 DEF FreeOK
<1>2. ASSUME NEW i \in 1..Len(all), NEW j \in 1..Len(all), i # j PROVE all[i] # all[j]
  BY <1>0, <1>1, <1>2 DEF FreeOK
<1>3. \A i \in 1..Len(all) : all[i] \notin Y
  BY <1>0, <1>1 DEF FreeOK
<1>4. ASSUME NEW g \in Frame
      PROVE  (\E i \in 1..Len(all) : all[i] = g) <=> g = f \/ \E i \in 1..Len(free) : free[i] = g
  <2>1. ASSUME NEW i \in 1..Len(free), free[i] = g
        PROVE  \E j \in 1..Len(all) : all[j] = g
    <3>1. i + 1 \in 1..Len(all) /\ all[i + 1] = g
      BY <1>1, <2>1
    <3> QED BY <3>1
  <2>2. 1 \in 1..Len(all)
    BY <1>1
  <2> QED BY <1>1, <2>1, <2>2
<1> QED BY <1>0, <1>1, <1>2, <1>3, <1>4 DEF FreeOK

(* A frame that is held becomes a table or a page, or the other way round. *)
LEMMA UseFrame ==
    ASSUME NEW free, NEW lvl, NEW X, NEW f, NEW Y, NEW l, NEW lvl2,
           FreeOK(free, lvl, X), lvl \in [Frame -> 0..4], f \in X, Y = X \ {f},
           l \in 0..3, lvl2 = [lvl EXCEPT ![f] = l]
    PROVE  FreeOK(free, lvl2, Y)
BY DEF FreeOK

Leaves(lvl, lvl2, f, X, Y) ==
    f \in Frame /\ lvl[f] # 4 /\ Y = X \cup {f} /\ lvl2 = [lvl EXCEPT ![f] = 4]

LEMMA UnuseFrame ==
    ASSUME NEW free, NEW lvl, NEW X, NEW f, NEW Y, NEW lvl2,
           FreeOK(free, lvl, X), lvl \in [Frame -> 0..4], Leaves(lvl, lvl2, f, X, Y)
    PROVE  FreeOK(free, lvl2, Y)
BY DEF FreeOK, Leaves

-----------------------------------------------------------------------------
(* Walks.                                                                  *)

(* Tables stay where they are. *)
Grown(m, n, lvl, lvl2) ==
    /\ \A u \in Frame : lvl[u] # 4 => lvl2[u] = lvl[u]
    /\ \A u \in Frame, j \in Idx :
          lvl[u] \in 2..3 /\ m.mem[u][j] # ZeroPte => n.mem[u][j] = m.mem[u][j]

Reaches(m, d, lvl, lvl2, t, i) ==
    IF d.ok THEN /\ d.pgtbl \in Frame /\ lvl2[d.pgtbl] = lvl[t] - 1
                 /\ d.m.mem[t][i] = Link(d.pgtbl)
            ELSE d.m = m /\ m.mem[t][i] = ZeroPte

LEMMA DescendLemma ==
    ASSUME NEW m, NEW lvl, NEW par, NEW X, NEW t, NEW i, NEW alloc, NEW d,
           Sound(m, lvl, par, X), t \in Frame, i \in Idx, lvl[t] \in 2..3,
           d = Descend(m, t, i, alloc)
    PROVE  /\ \E lvl2, par2 : /\ Sound(d.m, lvl2, par2, X) /\ SameAll(m, d.m)
                              /\ Grown(m, d.m, lvl, lvl2) /\ Reaches(m, d, lvl, lvl2, t, i)
           /\ ~alloc => d.m = m
<1>1. /\ m \in MemType /\ m.mem \in Tables /\ Graph(m.mem, lvl, par) /\ FreeOK(m.free, lvl, X)
      /\ lvl \in [Frame -> 0..4] /\ par \in [Frame -> Frame \X Idx]
      /\ m = [mem |-> m.mem, free |-> m.free]
  BY DEF Sound, Graph, MemType
<1>2. PICK e : e = m.mem[t][i]
  OBVIOUS
<1>3. e = ZeroPte \/ \E f \in Frame : e = Link(f) /\ lvl[f] = lvl[t] - 1
  <2>1. EntryOK(m.mem[t][i], t, i, lvl, par)
    BY <1>1 DEF Graph
  <2> QED BY <1>2, <2>1 DEF EntryOK
<1>4. CASE e # ZeroPte
  <2>1. PICK f \in Frame : e = Link(f) /\ lvl[f] = lvl[t] - 1
    BY <1>3, <1>4
  <2>2. e.valid /\ e.ppn = f
    BY <2>1, PteFacts
  <2>3. d = [ok |-> TRUE, m |-> m, pgtbl |-> f]
    BY <1>2, <2>2 DEF Descend
  <2>4. d.ok /\ d.m = m /\ d.pgtbl = f
    BY <2>3
  <2>5. Grown(m, d.m, lvl, lvl) /\ SameAll(m, d.m) /\ Reaches(m, d, lvl, lvl, t, i)
    BY <1>2, <2>1, <2>4 DEF Grown, SameAll, Reaches
  <2> QED BY <2>4, <2>5
<1>5. CASE e = ZeroPte /\ (~alloc \/ m.free = <<>>)
  <2>1. ~e.valid
    BY <1>5, PteFacts
  <2>2. d = [ok |-> FALSE, m |-> m, pgtbl |-> NULL]
    BY <1>2, <1>5, <2>1 DEF Descend
  <2>3. ~d.ok /\ d.m = m
    BY <2>2
  <2>5. Grown(m, d.m, lvl, lvl) /\ SameAll(m, d.m) /\ Reaches(m, d, lvl, lvl, t, i)
    BY <1>2, <1>5, <2>3 DEF Grown, SameAll, Reaches
  <2> QED BY <2>3, <2>5
<1>6. CASE e = ZeroPte /\ alloc /\ m.free # <<>>
  <2>0. PICK mm, free : mm = m.mem /\ free = m.free
    OBVIOUS
  <2>a. Graph(mm, lvl, par) /\ FreeOK(free, lvl, X) /\ free # <<>>
    BY <1>1, <1>6, <2>0
  <2>1. PICK f, rest, Y : f = Head(free) /\ rest = Tail(free) /\ Y = X \cup {f}
    OBVIOUS
  <2>2. FreeOK(rest, lvl, Y) /\ f \in Frame /\ f \notin X /\ lvl[f] = 4
    BY ONLY <2>a, <2>1, TakeFrame
  <2>3. PICK zz : zz = [mm EXCEPT ![f] = [j \in Idx |-> ZeroPte]]
    OBVIOUS
  <2>4. /\ Graph(zz, lvl, par) /\ \A j \in Idx : zz[f][j] = ZeroPte
        /\ \A u \in Frame, j \in Idx : u # f => zz[u][j] = m.mem[u][j]
    <3>1. Clears(mm, zz, f)
      BY <2>3 DEF Clears
    <3>2. Graph(zz, lvl, par) /\ Cleared(mm, zz, f)
      BY ONLY <2>a, <2>2, <3>1, ClearFrame
    <3> QED BY <2>0, <3>2 DEF Cleared
  <2>5. ~e.valid
    BY <1>6, PteFacts
  <2>6. PICK n : n = [mem |-> [zz EXCEPT ![t][i] = Link(f)], free |-> rest]
    OBVIOUS
  <2>7. d = [ok |-> TRUE, pgtbl |-> f, m |-> n]
    BY <1>1, <1>2, <1>6, <2>0, <2>1, <2>3, <2>5, <2>6 DEF Descend, mm_alloc_physical, Link
  <2>8. PICK lvl2, par2 : /\ lvl2 = [lvl EXCEPT ![f] = lvl[t] - 1]
                          /\ par2 = [par EXCEPT ![f] = <<t, i>>]
    OBVIOUS
  <2>9. t # f /\ zz[t][i] = ZeroPte
    <3>1. t # f
      BY ONLY <2>2, lvl[t] \in 2..3
    <3> QED BY <1>2, <1>6, <2>4, <3>1
  <2>10. Adds(zz, n.mem, lvl, t, i, f)
    <3>0. lvl[t] # 1
      OBVIOUS
    <3>3. PICK e2 : e2 = IF lvl[t] = 1 THEN Map(f) ELSE Link(f)
      OBVIOUS
    <3>4. e2 = Link(f)
      BY <3>0, <3>3
    <3>1. n.mem = [zz EXCEPT ![t][i] = e2]
      BY <2>6, <3>4
    <3>2. lvl[t] \in 1..3
      OBVIOUS
    <3> QED BY <2>2, <2>4, <2>9, <3>1, <3>2, <3>3 DEF Adds
  <2>11. Graph(n.mem, lvl2, par2)
    <3>1. PICK nn : nn = n.mem
      OBVIOUS
    <3>2. Adds(zz, nn, lvl, t, i, f) /\ Graph(zz, lvl, par)
      BY <2>4, <2>10, <3>1
    <3>4. Settles(lvl, lvl2, par, par2, t, i, f)
      BY <2>8 DEF Settles
    <3>3. Graph(nn, lvl2, par2)
      BY ONLY <3>2, <3>4, AddEntry
    <3> QED BY <3>1, <3>3
  <2>12. FreeOK(rest, lvl2, X)
    <3>1. f \in Y /\ X = Y \ {f}
      BY <2>1, <2>2
    <3>2. PICK l : l = lvl[t] - 1
      OBVIOUS
    <3>3. l \in 0..3 /\ lvl2 = [lvl EXCEPT ![f] = l] /\ lvl \in [Frame -> 0..4]
      BY <1>1, <2>8, <3>2
    <3> QED BY ONLY <2>2, <3>1, <3>3, UseFrame
  <2>13. Sound(n, lvl2, par2, X)
    <3>1. n.mem \in Tables /\ rest \in Seq(Frame)
      BY <2>11, <2>12 DEF Graph, FreeOK
    <3> QED BY <2>6, <2>11, <2>12, <3>1 DEF Sound, MemType
  <2>14. Written(zz, n.mem, t, i, Link(f))
    <3>1. PICK x : x = Link(f)
      OBVIOUS
    <3>2. Stores(zz, n.mem, t, i, x) /\ zz \in Tables
      BY <2>2, <2>4, <2>6, <3>1, PteFacts DEF Stores, Graph
    <3>3. Written(zz, n.mem, t, i, x)
      BY ONLY <3>2, StoreFacts
    <3> QED BY <3>1, <3>3
  <2>15. Links(m.mem, n.mem, lvl, t, i, f)
    BY <1>2, <1>6, <2>2, <2>4, <2>9, <2>14 DEF Links, Written
  <2>16. SameAll(m, n)
    BY <1>1, <2>11, <2>15, LinkTranslate
  <2>17. Grown(m, n, lvl, lvl2)
    <3>1. \A u \in Frame : lvl[u] # 4 => lvl2[u] = lvl[u]
      BY <1>1, <2>2, <2>8
    <3> QED BY <1>2, <1>6, <2>2, <2>15, <3>1 DEF Grown, Links
  <2>18. d.m = n /\ d.ok /\ d.pgtbl = f
    BY <2>7
  <2>19. Reaches(m, d, lvl, lvl2, t, i)
    BY <1>1, <2>2, <2>8, <2>15, <2>18 DEF Reaches, Links
  <2> QED BY <1>6, <2>13, <2>16, <2>17, <2>18, <2>19
<1> QED BY <1>4, <1>5, <1>6

(* mm_paging_walk maps nothing; where it gets to is the entry of va. *)
LEMMA WalkLemma ==
    ASSUME NEW m, NEW lvl, NEW par, NEW X, NEW va, NEW alloc, NEW w,
           Sound(m, lvl, par, X), va \in Va, w = mm_paging_walk(m, va, alloc)
    PROVE  /\ \E lvl2, par2 : /\ Sound(w.m, lvl2, par2, X) /\ SameAll(m, w.m)
                              /\ w.ok => w.pgtbl \in Frame /\ lvl2[w.pgtbl] = 1
           /\ w.ok => Slot(w.m.mem, va, w.pgtbl)
           /\ ~alloc => w.m = m /\ (~w.ok => Translate(m, va) = ZeroPte)
<1>1. /\ lvl[Root] = 3 /\ Root \in Frame /\ lvl[Root] \in 2..3 /\ Graph(m.mem, lvl, par)
      /\ vpn2(va) \in Idx /\ vpn1(va) \in Idx
  <2>1. lvl[Root] = 3 /\ Root \in Frame /\ Graph(m.mem, lvl, par)
    BY PagingConstants DEF Sound, Graph
  <2> QED BY <2>1, VpnFacts
<1>2. PICK d, i2, i1 : d = Descend(m, Root, i2, alloc) /\ i2 = vpn2(va) /\ i1 = vpn1(va)
  OBVIOUS
<1>3. PICK lvl1, par1 : /\ Sound(d.m, lvl1, par1, X) /\ SameAll(m, d.m)
                        /\ Grown(m, d.m, lvl, lvl1) /\ Reaches(m, d, lvl, lvl1, Root, i2)
  BY <1>1, <1>2, DescendLemma
<1>4. ~alloc => d.m = m
  BY <1>1, <1>2, DescendLemma
<1>5. w = IF d.ok THEN Descend(d.m, d.pgtbl, i1, alloc) ELSE d
  BY <1>2 DEF mm_paging_walk
<1>6. ASSUME ~d.ok PROVE \A t \in Frame : ~Slot(m.mem, va, t)
  <2>1. m.mem[Root][vpn2(va)] = ZeroPte
    BY <1>2, <1>3, <1>6 DEF Reaches
  <2> QED BY <2>1, PteFacts DEF Slot
<1>7. CASE ~d.ok
  <2>1. w = d
    BY <1>5, <1>7
  <2>2. Translate(m, va) = ZeroPte
    <3>1. Found(m, lvl, va)
      BY <1>1, TranslateFacts
    <3> QED BY <1>6, <1>7, <3>1 DEF Found
  <2> QED BY <1>3, <1>4, <1>7, <2>1, <2>2
<1>8. CASE d.ok
  <2>1. PICK t1 : t1 = d.pgtbl
    OBVIOUS
  <2>2. t1 \in Frame /\ lvl1[t1] = 2 /\ lvl1[t1] \in 2..3 /\ d.m.mem[Root][i2] = Link(t1)
    BY <1>1, <1>3, <1>8, <2>1 DEF Reaches
  <2>3. w = Descend(d.m, t1, i1, alloc)
    BY <1>5, <1>8, <2>1
  <2>4. PICK lvl2, par2 : /\ Sound(w.m, lvl2, par2, X) /\ SameAll(d.m, w.m)
                          /\ Grown(d.m, w.m, lvl1, lvl2) /\ Reaches(d.m, w, lvl1, lvl2, t1, i1)
    <3>1. i1 \in Idx
      BY <1>1, <1>2
    <3> QED BY <1>3, <2>2, <2>3, <3>1, DescendLemma
  <2>5. ~alloc => w.m = d.m
    <3>1. i1 \in Idx
      BY <1>1, <1>2
    <3> QED BY <1>3, <2>2, <2>3, <3>1, DescendLemma
  <2>6. SameAll(m, w.m)
    BY <1>3, <2>4 DEF SameAll
  <2>7. w.ok => /\ w.pgtbl \in Frame /\ lvl2[w.pgtbl] = 1
                /\ w.m.mem[t1][i1] = Link(w.pgtbl)
    BY <2>2, <2>4 DEF Reaches
  <2>8. w.ok => Slot(w.m.mem, va, w.pgtbl)
    <3>1. lvl1[Root] = 3
      BY <1>1, <1>3 DEF Grown
    <3>2. d.m.mem[Root][i2] # ZeroPte
      BY <2>2, PteFacts
    <3>3. w.m.mem[Root][i2] = Link(t1)
      BY <1>1, <1>2, <2>2, <2>4, <3>1, <3>2 DEF Grown
    <3> QED BY <1>2, <2>2, <2>7, <3>3 DEF Slot
  <2>9. ASSUME ~alloc, ~w.ok PROVE Translate(m, va) = ZeroPte
    <3>1. d.m = m /\ m.mem[t1][i1] = ZeroPte /\ m.mem[Root][i2] = Link(t1)
      BY <1>4, <2>2, <2>4, <2>9 DEF Reaches
    <3>2. \A t \in Frame : ~Slot(m.mem, va, t)
      BY <1>2, <2>2, <3>1, PteFacts DEF Slot
    <3>3. Found(m, lvl, va)
      BY <1>1, TranslateFacts
    <3> QED BY <3>2, <3>3 DEF Found
  <2> QED BY <1>4, <2>4, <2>5, <2>6, <2>7, <2>8, <2>9
<1> QED BY <1>7, <1>8

-----------------------------------------------------------------------------
(* The operations on memory.  X are the frames that the caller holds.      *)
Good(m, X) == \E lvl, par : Sound(m, lvl, par, X)

LEMMA RecordStore ==
    ASSUME NEW m \in MemType, NEW t, NEW i, NEW e
    PROVE  [m EXCEPT !.mem[t][i] = e] = [mem |-> [m.mem EXCEPT ![t][i] = e], free |-> m.free]
BY DEF MemType

LEMMA SameMem ==
    ASSUME NEW m, NEW n, m.mem = n.mem
    PROVE  SameAll(m, n)
BY DEF SameAll, Translate

(* mm_alloc_physical. *)
Took(m, n, X, f) == Good(n, X \cup {f}) /\ f \in Frame /\ f \notin X /\ SameAll(m, n)

LEMMA AllocLemma ==
    ASSUME NEW m, NEW X, NEW f, NEW n, Good(m, X), m.free # <<>>, f = Head(m.free),
           n = mm_alloc_physical(m)
    PROVE  Took(m, n, X, f)
<1>1. PICK lvl, par : Sound(m, lvl, par, X)
  BY DEF Good
<1>2. PICK free, rest, Y : free = m.free /\ rest = Tail(free) /\ Y = X \cup {f}
  OBVIOUS
<1>3. /\ m \in MemType /\ Graph(m.mem, lvl, par) /\ FreeOK(free, lvl, X)
      /\ free # <<>> /\ f = Head(free)
  BY <1>1, <1>2 DEF Sound
<1>4. FreeOK(rest, lvl, Y) /\ f \in Frame /\ f \notin X
  BY ONLY <1>2, <1>3, TakeFrame
<1>5. n = [mem |-> m.mem, free |-> rest]
  BY <1>2, <1>3 DEF mm_alloc_physical, MemType
<1>6. n.mem = m.mem /\ n.free = rest /\ rest \in Seq(Frame) /\ n \in MemType
  BY <1>3, <1>4, <1>5 DEF MemType, FreeOK
<1>7. Sound(n, lvl, par, Y)
  BY <1>3, <1>4, <1>6 DEF Sound
<1>8. SameAll(m, n)
  BY <1>6, SameMem
<1> QED BY <1>2, <1>4, <1>7, <1>8 DEF Took, Good

(* mm_free_physical. *)
Gave(m, n, X, f) == /\ Good(n, X \ {f}) /\ SameAll(m, n) /\ n.mem = m.mem
                    /\ n.free \in Seq(Frame) /\ n.free = <<f>> \o m.free

LEMMA FreeLemma ==
    ASSUME NEW m, NEW X, NEW f, NEW n, Good(m, X), f \in X, n = mm_free_physical(m, f)
    PROVE  Gave(m, n, X, f)
<1>1. PICK lvl, par : Sound(m, lvl, par, X)
  BY DEF Good
<1>2. PICK free, all, Y : free = m.free /\ all = <<f>> \o free /\ Y = X \ {f}
  OBVIOUS
<1>3. m \in MemType /\ Graph(m.mem, lvl, par) /\ FreeOK(free, lvl, X) /\ f \in X
  BY <1>1, <1>2 DEF Sound
<1>4. FreeOK(all, lvl, Y)
  <2>1. Gives(free, all, f, X, Y)
    BY <1>2 DEF Gives
  <2> QED BY ONLY <1>3, <2>1, GiveFrame
<1>5. n = [mem |-> m.mem, free |-> all]
  BY <1>2, <1>3 DEF mm_free_physical, MemType
<1>6. n.mem = m.mem /\ n.free = all /\ all \in Seq(Frame) /\ n \in MemType
  BY <1>3, <1>4, <1>5 DEF MemType, FreeOK
<1>7. Sound(n, lvl, par, Y)
  BY <1>3, <1>4, <1>6 DEF Sound
<1>8. SameAll(m, n)
  BY <1>6, SameMem
<1> QED BY <1>2, <1>6, <1>7, <1>8 DEF Gave, Good

(* mm_paging_map: the assert holds, as the address faults.  A failure      *)
(* leaves everything as it was, but for the tables that it has added.      *)
Mapped(m, X, va, pa, r) ==
    \/ /\ r.ret = "ok" /\ Good(r.m, X \ {pa})
       /\ Translate(r.m, va) = Map(pa) /\ SameBut(m, r.m, va)
    \/ r.ret = "fail" /\ Good(r.m, X) /\ SameAll(m, r.m)

LEMMA MapLemma ==
    ASSUME NEW m, NEW X, NEW va, NEW pa, NEW r, Good(m, X), va \in Va,
           Translate(m, va) = ZeroPte, pa \in X \cup Device,
           r = mm_paging_map(m, va, pa, "PGPERM_KRW")
    PROVE  Mapped(m, X, va, pa, r)
<1>1. PICK lvl, par : Sound(m, lvl, par, X)
  BY DEF Good
<1>2. PICK alloc, w : alloc = TRUE /\ w = mm_paging_walk(m, va, alloc)
  OBVIOUS
<1>3. PICK lvl2, par2 : /\ Sound(w.m, lvl2, par2, X) /\ SameAll(m, w.m)
                        /\ w.ok => w.pgtbl \in Frame /\ lvl2[w.pgtbl] = 1
  BY <1>1, <1>2, WalkLemma
<1>4. w.ok => Slot(w.m.mem, va, w.pgtbl)
  BY <1>1, <1>2, WalkLemma
<1>5. PICK n, t, i : n = w.m /\ t = w.pgtbl /\ i = vpn0(va)
  OBVIOUS
<1>6. r = IF ~w.ok THEN [ret |-> "fail", m |-> n]
          ELSE IF n.mem[t][i].valid THEN [ret |-> "assert", m |-> n]
          ELSE [ret |-> "ok", m |-> [n EXCEPT !.mem[t][i] = Map(pa)]]
  BY <1>2, <1>5 DEF mm_paging_map, Map
<1>7. CASE ~w.ok
  BY <1>3, <1>5, <1>6, <1>7 DEF Mapped, Good
<1>8. CASE w.ok
  <2>1. /\ Sound(n, lvl2, par2, X) /\ SameAll(m, n) /\ t \in Frame /\ lvl2[t] = 1
        /\ Slot(n.mem, va, t) /\ i \in Idx
    BY <1>3, <1>4, <1>5, <1>8, VpnFacts
  <2>2. /\ n \in MemType /\ n = [mem |-> n.mem, free |-> n.free]
        /\ Graph(n.mem, lvl2, par2) /\ FreeOK(n.free, lvl2, X)
        /\ lvl2 \in [Frame -> 0..4] /\ X \subseteq Frame
    BY <2>1 DEF Sound, MemType, Graph, FreeOK
  <2>3. Translate(n, va) = ZeroPte
    BY <2>1 DEF SameAll
  <2>4. n.mem[t][i] = ZeroPte
    <3>1. Found(n, lvl2, va)
      BY <2>2, TranslateFacts
    <3>2. \A x \in Frame : Slot(n.mem, va, x) => x = t
      BY <2>1, SlotUnique
    <3> QED BY <1>5, <2>1, <2>3, <3>1, <3>2 DEF Found
  <2>5. PICK mm, free, nn, e, k : /\ mm = n.mem /\ free = n.free /\ e = Map(pa)
                                  /\ nn = [mm EXCEPT ![t][i] = e]
                                  /\ k = [mem |-> nn, free |-> free]
    OBVIOUS
  <2>6. r = [ret |-> "ok", m |-> k]
    BY <1>6, <1>8, <2>2, <2>4, <2>5, PteFacts
  <2>7. Graph(mm, lvl2, par2) /\ FreeOK(free, lvl2, X) /\ mm[t][i] = ZeroPte
    BY <2>2, <2>4, <2>5
  <2>8. Written(mm, nn, t, i, e)
    <3>1. Stores(mm, nn, t, i, e) /\ mm \in Tables
      BY <2>1, <2>2, <2>5, <2>7, PteFacts DEF Stores, Graph
    <3> QED BY ONLY <3>1, StoreFacts
  <2>9. PICK Y : Y = X \ {pa}
    OBVIOUS
  <2>10. \E l3, p3 : Graph(nn, l3, p3) /\ FreeOK(free, l3, Y)
    <3>1. CASE pa \in Device
      <4>1. Graph(nn, lvl2, par2)
        BY <2>1, <2>5, <2>7, <3>1, AddDevice
      <4>2. Y = X
        BY <2>2, <2>9, <3>1, PagingConstants
      <4> QED BY <2>7, <4>1, <4>2
    <3>2. CASE pa \in X
      <4>1. pa \in Frame /\ lvl2[pa] = 4
        BY <2>2, <2>7, <3>2 DEF FreeOK
      <4>2. PICK l3, p3, l : /\ l = 0 /\ l3 = [lvl2 EXCEPT ![pa] = l]
                             /\ p3 = [par2 EXCEPT ![pa] = <<t, i>>]
        OBVIOUS
      <4>3. Settles(lvl2, l3, par2, p3, t, i, pa)
        BY <2>1, <4>2 DEF Settles
      <4>4. Adds(mm, nn, lvl2, t, i, pa)
        BY <2>1, <2>5, <2>7, <4>1 DEF Adds
      <4>5. Graph(nn, l3, p3)
        BY ONLY <2>7, <4>3, <4>4, AddEntry
      <4>6. l \in 0..3
        BY <4>2
      <4>7. FreeOK(free, l3, Y)
        BY ONLY <2>2, <2>7, <2>9, <3>2, <4>2, <4>6, UseFrame
      <4> QED BY <4>5, <4>7
    <3> QED BY <3>1, <3>2
  <2>11. PICK l3, p3 : Graph(nn, l3, p3) /\ FreeOK(free, l3, Y)
    BY <2>10
  <2>12. k.mem = nn /\ k.free = free /\ k \in MemType
    BY <2>5, <2>11 DEF MemType, Graph, FreeOK
  <2>13. Good(k, Y)
    BY <2>11, <2>12 DEF Good, Sound
  <2>14. Translate(k, va) = e /\ SameBut(n, k, va)
    <3>1. /\ Graph(n.mem, lvl2, par2) /\ Graph(k.mem, l3, p3) /\ Slot(n.mem, va, t)
          /\ Written(n.mem, k.mem, t, vpn0(va), e)
      BY <1>5, <2>1, <2>2, <2>5, <2>8, <2>11, <2>12
    <3> QED BY <2>1, <3>1, StoreTranslate
  <2>15. SameBut(m, k, va)
    BY <2>1, <2>14 DEF SameAll, SameBut
  <2>16. r.ret = "ok" /\ r.m = k
    BY <2>6
  <2> QED BY <2>5, <2>9, <2>13, <2>14, <2>15, <2>16 DEF Mapped
<1> QED BY <1>7, <1>8

(* mm_paging_unmap of an address that is mapped. *)
Unmapped(m, X, va, x, r) ==
    /\ r.ok /\ r.pa = x /\ r.m.free = m.free
    /\ x \in Frame => Good(r.m, X \cup {x}) /\ x \notin X
    /\ x \in Device => Good(r.m, X)
    /\ Translate(r.m, va) = ZeroPte /\ SameBut(m, r.m, va)

LEMMA UnmapLemma ==
    ASSUME NEW m, NEW X, NEW va, NEW x, NEW r, Good(m, X), va \in Va,
           x \in Frame \cup Device, Translate(m, va) = Map(x), r = mm_paging_unmap(m, va)
    PROVE  Unmapped(m, X, va, x, r)
<1>1. PICK lvl, par : Sound(m, lvl, par, X)
  BY DEF Good
<1>2. PICK alloc, w : alloc = FALSE /\ w = mm_paging_walk(m, va, alloc)
  OBVIOUS
<1>3. /\ w.ok => Slot(w.m.mem, va, w.pgtbl)
      /\ w.m = m /\ (~w.ok => Translate(m, va) = ZeroPte)
  BY <1>1, <1>2, WalkLemma
<1>4. w.ok => w.pgtbl \in Frame
  BY <1>1, <1>2, WalkLemma
<1>5. w.ok
  BY <1>3, PteFacts
<1>6. PICK t, i : t = w.pgtbl /\ i = vpn0(va)
  OBVIOUS
<1>7. t \in Frame /\ i \in Idx /\ Slot(m.mem, va, t)
  BY <1>3, <1>4, <1>5, <1>6, VpnFacts
<1>8. /\ m \in MemType /\ m = [mem |-> m.mem, free |-> m.free]
      /\ Graph(m.mem, lvl, par) /\ FreeOK(m.free, lvl, X)
      /\ lvl \in [Frame -> 0..4] /\ X \subseteq Frame
  BY <1>1 DEF Sound, MemType, Graph, FreeOK
<1>9. m.mem[t][i] = Map(x) /\ lvl[t] = 1
  <2>1. Found(m, lvl, va)
    BY <1>8, TranslateFacts
  <2>2. \A y \in Frame : Slot(m.mem, va, y) => y = t
    BY <1>7, SlotUnique
  <2> QED BY <1>6, <1>7, <2>1, <2>2 DEF Found
<1>10. PICK mm, free, nn, e, k : /\ mm = m.mem /\ free = m.free /\ e = ZeroPte
                                 /\ nn = [mm EXCEPT ![t][i] = e]
                                 /\ k = [mem |-> nn, free |-> free]
  OBVIOUS
<1>11. r = [ok |-> TRUE, pa |-> x, m |-> k]
  <2>1. m.mem[t][i].valid /\ m.mem[t][i].ppn = x
    BY <1>9, PteFacts
  <2>2. r = [ok |-> TRUE, pa |-> x, m |-> [m EXCEPT !.mem[t][i] = ZeroPte]]
    BY <1>2, <1>5, <1>6, <2>1 DEF mm_paging_unmap
  <2>3. [m EXCEPT !.mem[t][i] = ZeroPte] = k
    <3>1. [m EXCEPT !.mem[t][i] = ZeroPte]
             = [mem |-> [m.mem EXCEPT ![t][i] = ZeroPte], free |-> m.free]
      BY <1>8, RecordStore
    <3> QED BY <1>10, <3>1
  <2> QED BY <2>2, <2>3
<1>12. Graph(mm, lvl, par) /\ FreeOK(free, lvl, X) /\ mm[t][i] = Map(x)
  BY <1>8, <1>9, <1>10
<1>13. Written(mm, nn, t, i, e)
  <2>1. Stores(mm, nn, t, i, e) /\ mm \in Tables
    BY <1>7, <1>10, <1>12, PteFacts DEF Stores, Graph
  <2> QED BY ONLY <2>1, StoreFacts
<1>14. PICK l2 : l2 = Freed(lvl, x)
  OBVIOUS
<1>15. Graph(nn, l2, par) /\ (x \in Frame => lvl[x] = 0)
  <2>1. Removes(mm, nn, t, i, x)
    BY <1>7, <1>10, <1>12 DEF Removes
  <2> QED BY ONLY <1>9, <1>12, <1>14, <2>1, RemoveEntry
<1>16. PICK Y : Y = X \cup {x}
  OBVIOUS
<1>17. x \in Frame => FreeOK(free, l2, Y) /\ x \notin X
  <2> SUFFICES ASSUME x \in Frame PROVE FreeOK(free, l2, Y) /\ x \notin X
    OBVIOUS
  <2>1. lvl[x] # 4 /\ l2 = [lvl EXCEPT ![x] = 4]
    BY <1>14, <1>15 DEF Freed
  <2>2. Leaves(lvl, l2, x, X, Y)
    BY <1>16, <2>1 DEF Leaves
  <2>3. FreeOK(free, l2, Y)
    BY ONLY <1>8, <1>12, <2>2, UnuseFrame
  <2> QED BY <1>12, <2>1, <2>3 DEF FreeOK
<1>18. x \in Device => FreeOK(free, l2, X)
  BY <1>12, <1>14, PagingConstants DEF Freed
<1>19. k.mem = nn /\ k.free = free /\ k \in MemType
  BY <1>8, <1>10, <1>15 DEF MemType, Graph
<1>20. /\ x \in Frame => Good(k, Y) /\ x \notin X
       /\ x \in Device => Good(k, X)
  BY <1>15, <1>17, <1>18, <1>19 DEF Good, Sound
<1>21. Translate(k, va) = e /\ SameBut(m, k, va)
  <2>1. /\ Graph(m.mem, lvl, par) /\ Graph(k.mem, l2, par) /\ Slot(m.mem, va, t)
        /\ Written(m.mem, k.mem, t, vpn0(va), e)
    BY <1>6, <1>7, <1>8, <1>10, <1>13, <1>15, <1>19
  <2> QED BY <1>7, <2>1, StoreTranslate
<1>22. r.ok /\ r.pa = x /\ r.m = k
  BY <1>11
<1> QED BY <1>10, <1>16, <1>19, <1>20, <1>21, <1>22 DEF Unmapped

-----------------------------------------------------------------------------
(* The inductive invariant.  It holds after a panic as well: the kernel    *)
(* has run out of memory then, and nothing was mapped by the last call of  *)
(* mm_paging_map.                                                          *)

(* The VMAs are parts of Va, and apart from each other. *)
Apart(r, q) == r[2] <= q[1] \/ q[2] <= r[1]
RangeOK(r)  == r \in Va \X Nat /\ r[1] < r[2] /\ r[2] - 1 \in Va
VmasOK      == (\A r \in vmas : RangeOK(r)) /\ \A r, q \in vmas : r # q => Apart(r, q)

(* Every segment and every mapped region has a VMA of its own, *)
IoOK(io) == <<io.addr, io.size>> \in Regions
OwnersOK ==
    /\ segments \subseteq vmas
    /\ \A io \in iomem : IoOK(io) /\ IoRange(io) \in vmas /\ IoRange(io) \notin segments
    /\ \A io, jo \in iomem : IoRange(io) = IoRange(jo) => io = jo

(* and so has the call under way, but that paging_fail has only its pages  *)
(* that were mapped.                                                       *)
PlainCall == [f : {"segment_alloc", "segment_free", "paging_fail", "iomem_unmap"},
              lo : Va, hi : Nat, va : Nat]
IoCall    == [f : {"iomem_map"}, lo : Va, hi : Nat, va : Nat, region : Regions]
CallVma(v) == /\ v \in vmas /\ v \notin segments /\ \A io \in iomem : IoRange(io) # v
              /\ v[1] = call.lo /\ call.hi <= v[2]
              /\ call.f # "paging_fail" => call.hi = v[2]
CallOK ==
    call # Idle =>
    /\ call \in PlainCall \cup IoCall /\ call.va \in call.lo..call.hi
    /\ \E v \in vmas : CallVma(v)
    /\ call.f = "iomem_map" => call.hi = call.lo + IoPages(call.region[1], call.region[2])

Owned == VmasOK /\ OwnersOK /\ CallOK

(* What an access finds. *)
SegmentsMapped ==
    \A s \in segments, va \in Va : Covers(s, va) => \E f \in Frame : Translate(M, va) = Map(f)
IoMapped ==
    \A io \in iomem, va \in Va :
       Covers(IoRange(io), va) =>
          Translate(M, va) = Map(align_down(io.addr) + (va - align_down(io.ptr)))
CallPte(va, pte) ==
    /\ call.f \in {"segment_alloc", "segment_free"} => \E f \in Frame : pte = Map(f)
    /\ call.f = "iomem_map" => pte = Map(align_down(call.region[1]) + (va - call.lo))
    /\ call.f \in {"paging_fail", "iomem_unmap"} => \E d \in Device : pte = Map(d)
CallMapped == \A va \in Va : Covers(Mapping, va) => CallPte(va, Translate(M, va))
NothingElse ==
    \A va \in Va : Translate(M, va) # ZeroPte =>
       \/ \E s \in segments : Covers(s, va)
       \/ \E io \in iomem : Covers(IoRange(io), va)
       \/ Covers(Mapping, va)

Content == SegmentsMapped /\ IoMapped /\ CallMapped /\ NothingElse

(* What the TLB has kept. *)
Entry == [va : Va, pte : Pte]
Fresh(t) ==
    /\ t.pte.ppn \in Frame /\ t.pte # Translate(M, t.va) =>
          call.f = "segment_free" /\ \E j \in DOMAIN M.free : M.free[j] = t.pte.ppn
    /\ (\E s \in segments : Covers(s, t.va)) => t.pte = Translate(M, t.va)
TlbOK == tlb \in Seq(Entry) /\ \A i \in DOMAIN tlb : Fresh(tlb[i])

IInv == /\ panic \in {"no", "out of memory"} /\ Good(M, {})
        /\ Owned /\ Content /\ TlbOK

LEMMA TranslateType ==
    ASSUME NEW m, NEW X, NEW va, Good(m, X), va \in Va
    PROVE  Translate(m, va) \in Pte
<1>1. PICK lvl, par : Sound(m, lvl, par, X)
  BY DEF Good
<1>2. Graph(m.mem, lvl, par) /\ m.mem \in [Frame -> [Idx -> Pte]]
  BY <1>1 DEF Sound, Graph, Tables
<1>3. Found(m, lvl, va)
  BY <1>2, TranslateFacts
<1>4. vpn0(va) \in Idx
  BY VpnFacts
<1> QED BY <1>2, <1>3, <1>4, PteFacts DEF Found

(* The pages of a region. *)
LEMMA IoFacts ==
    ASSUME NEW r \in Regions
    PROVE  /\ IoPages(r[1], r[2]) \in Nat /\ IoPages(r[1], r[2]) > 0
           /\ align_down(r[1]) \in Nat
           /\ align_down(r[1] + r[2] - 1) = align_down(r[1]) + IoPages(r[1], r[2]) - 1
           /\ \A i \in 0..(IoPages(r[1], r[2]) - 1) : align_down(r[1]) + i \in Device
<1>1. PICK B, a, n : B = PageBytes /\ a = r[1] /\ n = r[2]
  OBVIOUS
<1>2. B \in Nat /\ B > 0 /\ a \in Nat /\ n \in Nat /\ n > 0
  <2>1. r \in Nat \X (Nat \ {0})
    BY RegionsAssumption
  <2> QED BY <1>1, <2>1, PagingConstants
<1>3. PICK q, o : q = a \div B /\ o = a % B
  OBVIOUS
<1>4. q \in Nat /\ o \in 0..(B - 1) /\ a = B * q + o
  BY <1>2, <1>3, DivFacts
<1>5. PICK x, k, l : x = o + n - 1 /\ k = x \div B /\ l = x % B
  OBVIOUS
<1>6. x \in Nat
  BY <1>2, <1>4, <1>5
<1>7. k \in Nat /\ l \in 0..(B - 1) /\ x = B * k + l
  BY <1>2, <1>5, <1>6, DivFacts
<1>8. (a + n - 1) \div B = q + k
  <2>1. PICK y, z : y = a + n - 1 /\ z = q + k
    OBVIOUS
  <2>2. y \in Nat /\ z \in Nat
    BY <1>2, <1>4, <1>7, <2>1
  <2>3. B * (q + k) = B * q + B * k
    BY <1>2, <1>4, <1>7
  <2>4. y = B * z + l
    BY <1>2, <1>4, <1>5, <1>7, <2>1, <2>3
  <2>5. y \div B = z
    BY ONLY <1>2, <1>7, <2>2, <2>4, DivUnique
  <2> QED BY ONLY <2>1, <2>5
<1>9. (n + (a - q * B) + B - 1) \div B = k + 1
  <2>1. PICK y, z : y = n + (a - q * B) + B - 1 /\ z = k + 1
    OBVIOUS
  <2>2. q * B = B * q /\ B * (k + 1) = B * k + B
    BY <1>2, <1>4, <1>7
  <2>3. y = x + B
    BY <1>2, <1>4, <1>5, <2>1, <2>2
  <2>4. y \in Nat /\ z \in Nat /\ y = B * z + l
    BY <1>2, <1>6, <1>7, <2>1, <2>2, <2>3
  <2> QED BY <1>2, <1>7, <2>1, <2>4, DivUnique
<1>10. IoPages(r[1], r[2]) = k + 1 /\ align_down(r[1]) = q /\ align_down(r[1] + r[2] - 1) = q + k
  BY <1>1, <1>3, <1>8, <1>9 DEF IoPages, align_up, align_down
<1>11. q + (k + 1) - 1 = q + k /\ k + 1 \in Nat /\ k + 1 > 0
  BY <1>4, <1>7
<1>12. \A i \in 0..(IoPages(r[1], r[2]) - 1) : align_down(r[1]) + i \in Device
  BY RegionsAssumption
<1> QED BY <1>4, <1>10, <1>11, <1>12

LEMMA AlignPage ==
    ASSUME NEW lo \in Nat
    PROVE  align_down(lo * PageBytes) = lo
<1>1. PICK B, y : B = PageBytes /\ y = lo * B
  OBVIOUS
<1>2. B \in Nat /\ B > 0
  BY <1>1, PagingConstants
<1>3. y \in Nat /\ y = B * lo + 0 /\ 0 \in 0..(B - 1)
  BY <1>1, <1>2
<1>4. y \div B = lo
  BY <1>2, <1>3, DivUnique
<1> QED BY <1>1, <1>4 DEF align_down

(* The call under way has addresses of its own. *)
LEMMA CallApart ==
    ASSUME Owned, call # Idle, NEW va, call.lo <= va, va < call.hi, va \in Nat
    PROVE  /\ va \in Va /\ \A s \in segments : ~Covers(s, va)
           /\ \A io \in iomem : ~Covers(IoRange(io), va)
<1>1. PICK v \in vmas : CallVma(v)
  BY DEF Owned, CallOK
<1>2. v[1] <= va /\ va < v[2] /\ RangeOK(v)
  <2>1. v[1] = call.lo /\ call.hi <= v[2] /\ RangeOK(v) /\ call.hi \in Nat /\ call.lo \in Nat
    BY <1>1 DEF CallVma, Owned, CallOK, VmasOK, PlainCall, IoCall, Va
  <2> QED BY <2>1 DEF RangeOK
<1>3. ASSUME NEW q \in vmas, q # v PROVE ~Covers(q, va)
  <2>1. Apart(q, v) /\ RangeOK(q)
    BY <1>3 DEF Owned, VmasOK
  <2>2. q[1] \in Nat /\ q[2] \in Nat /\ v[1] \in Nat /\ v[2] \in Nat
    BY <1>2, <2>1 DEF RangeOK, Va
  <2> QED BY <1>2, <2>1, <2>2 DEF Apart, Covers
<1>4. va \in Va
  <2>1. v[2] - 1 \in Va /\ v[2] \in Nat
    BY <1>2 DEF RangeOK
  <2>2. PICK K : K = Radix * Radix * Radix /\ K \in Nat
    BY PagingConstants
  <2> QED BY <1>2, <2>1, <2>2 DEF Va
<1> QED BY <1>1, <1>3, <1>4 DEF CallVma, Owned, OwnersOK

(* vma_find finds the VMA of a segment or a region. *)
LEMMA VmaOfLemma ==
    ASSUME VmasOK, NEW r \in vmas
    PROVE  VmaOf(r[1]) = r
<1>1. r[1] \in Nat /\ r[2] \in Nat /\ Covers(r, r[1])
  BY DEF VmasOK, RangeOK, Covers, Va
<1>2. ASSUME NEW q \in vmas, Covers(q, r[1]) PROVE q = r
  <2>1. q[1] \in Nat /\ q[2] \in Nat /\ r[1] < r[2]
    BY DEF VmasOK, RangeOK, Va
  <2>2. q # r => Apart(q, r)
    BY DEF VmasOK
  <2> QED BY <1>1, <1>2, <2>1, <2>2 DEF Apart, Covers
<1> QED BY <1>1, <1>2 DEF VmaOf

-----------------------------------------------------------------------------
(* Steps that leave parts of the state alone.                              *)

LEMMA OwnedSame ==
    ASSUME Owned, UNCHANGED <<vmas, segments, iomem, call>>
    PROVE  Owned'
BY DEF Owned, VmasOK, OwnersOK, CallOK, CallVma

LEMMA ContentSame ==
    ASSUME Content, SameAll(M, M'), UNCHANGED <<segments, iomem, call>>
    PROVE  Content'
<1>1. \A va \in Va : Translate(M', va) = Translate(M, va)
  BY DEF SameAll
<1>2. SegmentsMapped'
  BY <1>1 DEF Content, SegmentsMapped
<1>3. IoMapped'
  BY <1>1 DEF Content, IoMapped
<1>4. Mapping' = Mapping
  BY DEF Mapping
<1>5. CallMapped'
  BY <1>1, <1>4 DEF Content, CallMapped, CallPte
<1>6. NothingElse'
  BY <1>1, <1>4 DEF Content, NothingElse
<1> QED BY <1>2, <1>3, <1>5, <1>6 DEF Content

LEMMA TlbEntry ==
    ASSUME TlbOK, NEW i \in DOMAIN tlb
    PROVE  tlb[i] \in Entry /\ tlb[i].va \in Va /\ Fresh(tlb[i])
<1>1. \A S, s : s \in Seq(S) => \A j \in DOMAIN s : s[j] \in S
  OBVIOUS
<1>2. tlb[i] \in Entry
  BY <1>1 DEF TlbOK
<1>3. tlb[i].va \in Va
  BY <1>2 DEF Entry
<1> QED BY <1>2, <1>3 DEF TlbOK

LEMMA TlbSame ==
    ASSUME TlbOK, SameAll(M, M'), call.f # "segment_free",
           segments' \subseteq segments, UNCHANGED tlb
    PROVE  TlbOK'
<1>1. ASSUME NEW i \in DOMAIN tlb PROVE Fresh(tlb[i])'
  <2>1. tlb[i].va \in Va /\ Fresh(tlb[i])
    BY <1>1, TlbEntry
  <2>2. Translate(M', tlb[i].va) = Translate(M, tlb[i].va)
    BY <2>1 DEF SameAll
  <2> QED BY <2>1, <2>2 DEF Fresh
<1> QED BY <1>1 DEF TlbOK

LEMMA MappingIdle ==
    ASSUME call = Idle, NEW va \in Va
    PROVE  ~Covers(Mapping, va)
BY DEF Mapping, Idle, Covers, Va

LEMMA TlbEmpty ==
    ASSUME tlb' = <<>>
    PROVE  TlbOK'
BY DEF TlbOK

(* The fields of the call under way. *)
LEMMA CallFacts ==
    ASSUME CallOK, call # Idle
    PROVE  /\ call.f \in {"segment_alloc", "segment_free", "iomem_map",
                           "paging_fail", "iomem_unmap"}
           /\ call.lo \in Nat /\ call.hi \in Nat /\ call.va \in Nat
           /\ call.lo <= call.va /\ call.va <= call.hi
           /\ call.f = "iomem_map" => call \in IoCall /\ call.region \in Regions
           /\ call.f # "iomem_map" => call \in PlainCall
<1>1. call \in PlainCall \cup IoCall /\ call.va \in call.lo..call.hi
  BY DEF CallOK
<1> QED BY <1>1 DEF PlainCall, IoCall, Va

LEMMA NotIdle ==
    ASSUME call.f # "none"
    PROVE  call # Idle
BY DEF Idle

(* The call goes on to its next page. *)
LEMMA Advanced ==
    ASSUME Owned, call # Idle, call.va < call.hi, call' = [call EXCEPT !.va = @ + 1],
           UNCHANGED <<vmas, segments, iomem>>
    PROVE  /\ Owned' /\ call' # Idle
           /\ call'.f = call.f /\ call'.lo = call.lo /\ call'.hi = call.hi
           /\ call'.va = call.va + 1
           /\ call.f = "iomem_map" => call'.region = call.region
<1>0. CallOK
  BY DEF Owned
<1>1. /\ call'.f = call.f /\ call'.lo = call.lo /\ call'.hi = call.hi
      /\ call'.va = call.va + 1
      /\ call.f = "iomem_map" => call'.region = call.region
      /\ call' \in PlainCall \cup IoCall
  <2>1. CASE call \in PlainCall
    BY <1>0, <2>1, CallFacts DEF PlainCall
  <2>2. CASE call \in IoCall
    BY <1>0, <2>2, CallFacts DEF IoCall
  <2> QED BY <1>0, <2>1, <2>2, CallFacts
<1>2. call' # Idle
  BY <1>0, <1>1, CallFacts DEF Idle
<1>3. call'.va \in call'.lo..call'.hi
  BY <1>0, <1>1, CallFacts
<1>4. \E v \in vmas' : CallVma(v)'
  <2>1. PICK v \in vmas : CallVma(v)
    BY <1>0 DEF CallOK
  <2>2. CallVma(v)'
    BY <1>1, <2>1 DEF CallVma
  <2> QED BY <2>1, <2>2
<1>5. CallOK'
  <2>1. call'.f = "iomem_map" => call'.hi = call'.lo + IoPages(call'.region[1], call'.region[2])
    BY <1>0, <1>1 DEF CallOK
  <2> QED BY <1>1, <1>3, <1>4, <2>1 DEF CallOK
<1>6. VmasOK' /\ OwnersOK'
  BY DEF Owned, VmasOK, OwnersOK
<1> QED BY <1>1, <1>2, <1>5, <1>6 DEF Owned
-----------------------------------------------------------------------------
(* A page of the call under way is mapped. *)
LEMMA MapStep ==
    ASSUME IInv, call.f \in {"segment_alloc", "iomem_map"}, call.va < call.hi, Advance,
           Good(M', {}), SameBut(M, M', call.va), CallPte(call.va, Translate(M', call.va))
    PROVE  IInv'
<1>1. /\ call # Idle /\ call' = [call EXCEPT !.va = @ + 1] /\ Owned /\ Content /\ TlbOK
      /\ UNCHANGED <<vmas, tlb, segments, iomem, panic>> /\ CallOK
  BY NotIdle DEF IInv, Advance, Owned
<1>2. /\ Owned' /\ call' # Idle
      /\ call'.f = call.f /\ call'.lo = call.lo /\ call'.hi = call.hi
      /\ call'.va = call.va + 1
      /\ call.f = "iomem_map" => call'.region = call.region
  BY <1>1, Advanced
<1>3. call.lo \in Nat /\ call.hi \in Nat /\ call.va \in Nat /\ call.lo <= call.va
  BY <1>1, CallFacts
<1>4. /\ call.va \in Va /\ \A s \in segments : ~Covers(s, call.va)
      /\ \A io \in iomem : ~Covers(IoRange(io), call.va)
  BY <1>1, <1>3, CallApart
<1>5. \A va \in Va : va # call.va => Translate(M', va) = Translate(M, va)
  BY DEF SameBut
<1>6. SegmentsMapped'
  BY <1>1, <1>4, <1>5 DEF Content, SegmentsMapped
<1>7. IoMapped'
  BY <1>1, <1>4, <1>5 DEF Content, IoMapped
<1>8. ASSUME NEW va \in Va
      PROVE  Covers(Mapping', va) <=> Covers(Mapping, va) \/ va = call.va
  <2>1. Mapping = <<call.lo, call.va>> /\ Mapping' = <<call.lo, call.va + 1>>
    BY <1>2 DEF Mapping
  <2> QED BY <1>3, <2>1 DEF Covers, Va
<1>9. CallMapped'
  <2>1. ASSUME NEW va \in Va, Covers(Mapping', va) PROVE CallPte(va, Translate(M, va))'
    <3>1. CASE va = call.va
      BY <1>2, <3>1 DEF CallPte
    <3>2. CASE va # call.va
      BY <1>1, <1>2, <1>5, <1>8, <2>1, <3>2 DEF Content, CallMapped, CallPte
    <3> QED BY <3>1, <3>2
  <2> QED BY <2>1 DEF CallMapped
<1>10. NothingElse'
  BY <1>1, <1>5, <1>8 DEF Content, NothingElse
<1>11. TlbOK'
  <2>1. ASSUME NEW i \in DOMAIN tlb PROVE Fresh(tlb[i])'
    <3>1. tlb[i].va \in Va /\ Fresh(tlb[i])
      BY <1>1, <2>1, TlbEntry
    <3>2. CASE tlb[i].va # call.va
      BY <1>1, <1>2, <1>5, <3>1, <3>2 DEF Fresh
    <3>3. CASE tlb[i].va = call.va
      <4>1. Translate(M, call.va) = ZeroPte
        <5>1. ~Covers(Mapping, call.va)
          BY <1>3 DEF Mapping, Covers
        <5> QED BY <1>1, <1>4, <5>1 DEF Content, NothingElse
      <4>2. tlb[i].pte.ppn \notin Frame
        <5>1. tlb[i].pte.ppn \in Frame => tlb[i].pte = ZeroPte
          BY <3>1, <3>3, <4>1 DEF Fresh
        <5> QED BY <5>1, PagingConstants DEF ZeroPte
      <4> QED BY <1>1, <1>4, <3>3, <4>2 DEF Fresh
    <3> QED BY <3>2, <3>3
  <2> QED BY <1>1, <2>1 DEF TlbOK
<1> QED BY <1>1, <1>2, <1>6, <1>7, <1>9, <1>10, <1>11 DEF IInv, Content

(* A page of the call under way is unmapped; a frame of a segment is free  *)
(* then.                                                                   *)
LEMMA UnmapStep ==
    ASSUME IInv, call.f \in {"segment_free", "paging_fail", "iomem_unmap"}, call.va < call.hi,
           Advance, Good(M', {}), SameBut(M, M', call.va), Translate(M', call.va) = ZeroPte,
           NEW x \in Frame \cup Device, Translate(M, call.va) = Map(x),
           \A j \in DOMAIN M.free : \E k \in DOMAIN M'.free : M'.free[k] = M.free[j],
           x \in Frame => call.f = "segment_free" /\ \E k \in DOMAIN M'.free : M'.free[k] = x
    PROVE  IInv'
<1>1. /\ call # Idle /\ call' = [call EXCEPT !.va = @ + 1] /\ Owned /\ Content /\ TlbOK
      /\ UNCHANGED <<vmas, tlb, segments, iomem, panic>> /\ CallOK
  BY NotIdle DEF IInv, Advance, Owned
<1>2. /\ Owned' /\ call' # Idle
      /\ call'.f = call.f /\ call'.lo = call.lo /\ call'.hi = call.hi
      /\ call'.va = call.va + 1
  BY <1>1, Advanced
<1>3. call.lo \in Nat /\ call.hi \in Nat /\ call.va \in Nat /\ call.lo <= call.va
  BY <1>1, CallFacts
<1>4. /\ call.va \in Va /\ \A s \in segments : ~Covers(s, call.va)
      /\ \A io \in iomem : ~Covers(IoRange(io), call.va)
  BY <1>1, <1>3, CallApart
<1>5. \A va \in Va : va # call.va => Translate(M', va) = Translate(M, va)
  BY DEF SameBut
<1>6. SegmentsMapped'
  BY <1>1, <1>4, <1>5 DEF Content, SegmentsMapped
<1>7. IoMapped'
  BY <1>1, <1>4, <1>5 DEF Content, IoMapped
<1>8. ASSUME NEW va \in Va
      PROVE  Covers(Mapping', va) <=> Covers(Mapping, va) /\ va # call.va
  <2>1. Mapping = <<call.va, call.hi>> /\ Mapping' = <<call.va + 1, call.hi>>
    BY <1>2 DEF Mapping
  <2> QED BY <1>3, <2>1 DEF Covers, Va
<1>9. CallMapped'
  BY <1>1, <1>2, <1>5, <1>8 DEF Content, CallMapped, CallPte
<1>10. NothingElse'
  BY <1>1, <1>5, <1>8 DEF Content, NothingElse
<1>11. TlbOK'
  <2>1. ASSUME NEW i \in DOMAIN tlb PROVE Fresh(tlb[i])'
    <3>1. tlb[i].va \in Va /\ Fresh(tlb[i])
      BY <1>1, <2>1, TlbEntry
    <3>2. CASE tlb[i].va # call.va
      BY <1>1, <1>2, <1>5, <3>1, <3>2 DEF Fresh
    <3>3. CASE tlb[i].va = call.va
      <4>1. ASSUME tlb[i].pte.ppn \in Frame
            PROVE  call.f = "segment_free" /\ \E k \in DOMAIN M'.free : M'.free[k] = tlb[i].pte.ppn
        <5>1. CASE tlb[i].pte # Translate(M, call.va)
          BY <3>1, <3>3, <4>1, <5>1 DEF Fresh
        <5>2. CASE tlb[i].pte = Translate(M, call.va)
          <6>1. tlb[i].pte.ppn = x
            BY <5>2, PteFacts
          <6> QED BY <4>1, <6>1
        <5> QED BY <5>1, <5>2
      <4> QED BY <1>1, <1>2, <1>4, <3>3, <4>1 DEF Fresh
    <3> QED BY <3>2, <3>3
  <2> QED BY <1>1, <2>1 DEF TlbOK
<1> QED BY <1>1, <1>2, <1>6, <1>7, <1>9, <1>10, <1>11 DEF IInv, Content

-----------------------------------------------------------------------------
(* A new VMA, for the call that starts. *)
LEMMA StartOwned ==
    ASSUME Owned, call = Idle, NEW r, RangeOK(r), \A q \in vmas : Apart(r, q),
           vmas' = vmas \cup {r}, UNCHANGED <<segments, iomem>>,
           call' \in PlainCall \cup IoCall, call'.f \in {"segment_alloc", "iomem_map"},
           call'.lo = r[1], call'.hi = r[2], call'.va = r[1],
           call'.f = "iomem_map" =>
              call'.hi = call'.lo + IoPages(call'.region[1], call'.region[2])
    PROVE  Owned'
<1>1. r[1] \in Nat /\ r[2] \in Nat /\ r[1] < r[2]
  BY DEF RangeOK, Va
<1>2. r \notin vmas
  BY <1>1 DEF Apart
<1>3. ASSUME NEW p \in vmas', NEW q \in vmas', p # q PROVE Apart(p, q)
  BY <1>3 DEF Apart, Owned, VmasOK
<1>4. VmasOK'
  BY <1>3 DEF Owned, VmasOK
<1>5. OwnersOK'
  BY DEF Owned, OwnersOK
<1>6. CallVma(r)'
  BY <1>1, <1>2 DEF CallVma, Owned, OwnersOK
<1>7. call'.va \in call'.lo..call'.hi
  BY <1>1
<1> QED BY <1>4, <1>5, <1>6, <1>7 DEF Owned, CallOK

LEMMA StartContent ==
    ASSUME Content, call = Idle, UNCHANGED <<M, segments, iomem>>,
           call'.f \in {"segment_alloc", "iomem_map"}, call'.va = call'.lo, call'.lo \in Nat
    PROVE  Content'
<1>1. ASSUME NEW va \in Va PROVE ~Covers(Mapping, va) /\ ~Covers(Mapping', va)
  <2>1. Mapping' = <<call'.lo, call'.lo>>
    BY DEF Mapping
  <2> QED BY <2>1, MappingIdle DEF Covers, Va
<1>2. SegmentsMapped' /\ IoMapped'
  BY DEF Content, SegmentsMapped, IoMapped
<1>3. CallMapped'
  BY <1>1 DEF CallMapped
<1>4. NothingElse'
  BY <1>1 DEF Content, NothingElse
<1> QED BY <1>2, <1>3, <1>4 DEF Content

LEMMA RangesLemma ==
    ASSUME VmasOK, NEW n \in Nat, n > 0, NEW align, NEW r \in Ranges(n, align)
    PROVE  /\ RangeOK(r) /\ r[1] \in Va /\ r[2] = r[1] + n /\ r[2] \in Nat
           /\ \A q \in vmas : Apart(r, q)
<1>1. PICK lo \in Starts : r = <<lo, lo + n>> /\ Unused(lo, lo + n)
  BY DEF Ranges
<1>2. lo \in Va /\ lo \in Nat /\ r[1] = lo /\ r[2] = lo + n
  BY <1>1, PagingConstants DEF Va
<1>3. RangeOK(r)
  BY <1>1, <1>2 DEF RangeOK, Unused
<1>4. \A q \in vmas : Apart(r, q)
  BY <1>1, <1>2 DEF Unused, Apart
<1> QED BY <1>2, <1>3, <1>4

LEMMA SegmentAllocInv ==
    ASSUME IInv, SegmentAlloc
    PROVE  IInv'
<1>1. PICK n \in SegSizes : \E r \in Ranges(n, SegPages) :
         Start("segment_alloc", r) /\ vmas' = vmas \cup {r}
  BY DEF SegmentAlloc
<1>2. PICK r \in Ranges(n, SegPages) : Start("segment_alloc", r) /\ vmas' = vmas \cup {r}
  BY <1>1
<1>3. /\ call = Idle /\ Owned /\ Content /\ TlbOK /\ Good(M, {})
      /\ UNCHANGED <<M, tlb, segments, iomem, panic>> /\ VmasOK
  BY DEF SegmentAlloc, IInv, Owned
<1>4. n \in Nat /\ n > 0
  BY <1>1, PagingConstants
<1>5. /\ RangeOK(r) /\ r[1] \in Va /\ r[2] = r[1] + n /\ r[2] \in Nat /\ r[1] \in Nat
      /\ \A q \in vmas : Apart(r, q)
  BY <1>2, <1>3, <1>4, RangesLemma DEF Va
<1>6. call' = [f |-> "segment_alloc", lo |-> r[1], hi |-> r[2], va |-> r[1]]
  BY <1>2 DEF Start
<1>7. /\ call' \in PlainCall \cup IoCall /\ call'.f = "segment_alloc"
      /\ call'.lo = r[1] /\ call'.hi = r[2] /\ call'.va = r[1]
  BY <1>5, <1>6 DEF PlainCall
<1>8. Owned'
  BY <1>2, <1>3, <1>5, <1>7, StartOwned
<1>9. Content'
  BY <1>3, <1>5, <1>7, StartContent
<1>10. TlbOK'
  <2>1. SameAll(M, M') /\ call.f # "segment_free"
    BY <1>3 DEF SameAll, Idle
  <2> QED BY <1>3, <2>1, TlbSame
<1> QED BY <1>3, <1>8, <1>9, <1>10 DEF IInv

LEMMA IomemMapInv ==
    ASSUME IInv, IomemMap
    PROVE  IInv'
<1>1. PICK g \in Regions :
         \/ \E r \in Ranges(IoPages(g[1], g[2]), 1) :
               /\ call' = [f |-> "iomem_map", lo |-> r[1], hi |-> r[2], va |-> r[1], region |-> g]
               /\ vmas' = vmas \cup {r}
         \/ UNCHANGED <<call, vmas>>
  BY DEF IomemMap
<1>3. /\ call = Idle /\ Owned /\ Content /\ TlbOK /\ Good(M, {})
      /\ UNCHANGED <<M, tlb, segments, iomem, panic>> /\ VmasOK
  BY DEF IomemMap, IInv, Owned
<1>4. TlbOK' /\ SameAll(M, M')
  <2>1. SameAll(M, M') /\ call.f # "segment_free"
    BY <1>3 DEF SameAll, Idle
  <2> QED BY <1>3, <2>1, TlbSame
<1>5. CASE UNCHANGED <<call, vmas>>
  <2>1. Owned' /\ Content'
    BY <1>3, <1>4, <1>5, OwnedSame, ContentSame
  <2> QED BY <1>3, <1>4, <2>1 DEF IInv
<1>6. CASE \E r \in Ranges(IoPages(g[1], g[2]), 1) :
              /\ call' = [f |-> "iomem_map", lo |-> r[1], hi |-> r[2], va |-> r[1], region |-> g]
              /\ vmas' = vmas \cup {r}
  <2>0. PICK n : n = IoPages(g[1], g[2]) /\ n \in Nat /\ n > 0
    BY IoFacts
  <2>2. PICK r \in Ranges(n, 1) :
              /\ call' = [f |-> "iomem_map", lo |-> r[1], hi |-> r[2], va |-> r[1], region |-> g]
              /\ vmas' = vmas \cup {r}
    BY <1>6, <2>0
  <2>5. /\ RangeOK(r) /\ r[1] \in Va /\ r[2] = r[1] + n /\ r[2] \in Nat /\ r[1] \in Nat
        /\ \A q \in vmas : Apart(r, q)
    BY <1>3, <2>0, <2>2, RangesLemma DEF Va
  <2>7. /\ call' \in PlainCall \cup IoCall /\ call'.f = "iomem_map" /\ call'.region = g
        /\ call'.lo = r[1] /\ call'.hi = r[2] /\ call'.va = r[1]
    BY <2>2, <2>5 DEF IoCall
  <2>8. Owned'
    BY <1>3, <2>0, <2>2, <2>5, <2>7, StartOwned
  <2>9. Content'
    BY <1>3, <2>5, <2>7, StartContent
  <2> QED BY <1>3, <1>4, <2>8, <2>9 DEF IInv
<1> QED BY <1>1, <1>5, <1>6

(* A segment is given back. *)
LEMMA SegmentFreeInv ==
    ASSUME IInv, SegmentFree
    PROVE  IInv'
<1>1. PICK s \in segments : Start("segment_free", VmaOf(s[1])) /\ segments' = segments \ {s}
  BY DEF SegmentFree
<1>2. /\ call = Idle /\ Owned /\ Content /\ TlbOK /\ Good(M, {})
      /\ UNCHANGED <<M, vmas, tlb, iomem, panic>> /\ VmasOK /\ OwnersOK
  BY DEF SegmentFree, IInv, Owned
<1>3. s \in vmas /\ RangeOK(s) /\ VmaOf(s[1]) = s
  BY <1>1, <1>2, VmaOfLemma DEF OwnersOK, VmasOK
<1>4. s[1] \in Va /\ s[1] \in Nat /\ s[2] \in Nat /\ s[1] < s[2]
  BY <1>3 DEF RangeOK, Va
<1>5. call' = [f |-> "segment_free", lo |-> s[1], hi |-> s[2], va |-> s[1]]
  BY <1>1, <1>3 DEF Start
<1>6. /\ call' \in PlainCall /\ call'.f = "segment_free"
      /\ call'.lo = s[1] /\ call'.hi = s[2] /\ call'.va = s[1]
  BY <1>4, <1>5 DEF PlainCall
<1>7. CallOK'
  <2>1. CallVma(s)'
    BY <1>1, <1>2, <1>3, <1>4, <1>6 DEF CallVma, OwnersOK
  <2>2. call'.va \in call'.lo..call'.hi
    BY <1>4, <1>6
  <2> QED BY <1>2, <1>3, <1>6, <2>1, <2>2 DEF CallOK
<1>8. Owned'
  BY <1>1, <1>2, <1>7 DEF Owned, VmasOK, OwnersOK
<1>9. ASSUME NEW va \in Va PROVE ~Covers(Mapping, va) /\ (Covers(Mapping', va) <=> Covers(s, va))
  <2>1. Mapping' = <<s[1], s[2]>>
    BY <1>6 DEF Mapping
  <2> QED BY <1>2, <2>1, MappingIdle DEF Covers
<1>10. SegmentsMapped' /\ IoMapped'
  BY <1>1, <1>2 DEF Content, SegmentsMapped, IoMapped
<1>11. CallMapped'
  BY <1>1, <1>2, <1>6, <1>9 DEF Content, SegmentsMapped, CallMapped, CallPte
<1>12. NothingElse'
  BY <1>1, <1>2, <1>9 DEF Content, NothingElse
<1>13. TlbOK'
  <2>1. SameAll(M, M') /\ call.f # "segment_free" /\ segments' \subseteq segments
    BY <1>1, <1>2 DEF SameAll, Idle
  <2> QED BY <1>2, <2>1, TlbSame
<1> QED BY <1>2, <1>8, <1>10, <1>11, <1>12, <1>13 DEF IInv, Content

(* A region is given back. *)
LEMMA IoDevice ==
    ASSUME NEW io, IoOK(io), IoRange(io)[1] \in Nat, NEW va \in Nat, Covers(IoRange(io), va)
    PROVE  align_down(io.addr) + (va - align_down(io.ptr)) \in Device
<1>1. PICK r, n, lo : /\ r = <<io.addr, io.size>> /\ n = IoPages(io.addr, io.size)
                      /\ lo = align_down(io.ptr)
  OBVIOUS
<1>2. r \in Regions /\ r[1] = io.addr /\ r[2] = io.size
  BY <1>1 DEF IoOK
<1>3. IoRange(io) = <<lo, lo + n>>
  BY <1>1 DEF IoRange
<1>4. n \in Nat /\ \A i \in 0..(n - 1) : align_down(io.addr) + i \in Device
  BY <1>1, <1>2, IoFacts
<1>5. lo \in Nat /\ lo <= va /\ va < lo + n
  BY <1>3 DEF Covers
<1>6. va - lo \in 0..(n - 1)
  BY <1>4, <1>5
<1> QED BY <1>1, <1>4, <1>6

LEMMA IomemUnmapInv ==
    ASSUME IInv, IomemUnmap
    PROVE  IInv'
<1>1. PICK io \in iomem : /\ Start("iomem_unmap", VmaOf(align_down(io.ptr)))
                          /\ iomem' = iomem \ {io}
  BY DEF IomemUnmap
<1>2. /\ call = Idle /\ Owned /\ Content /\ TlbOK /\ Good(M, {})
      /\ UNCHANGED <<M, vmas, tlb, segments, panic>> /\ VmasOK /\ OwnersOK
  BY DEF IomemUnmap, IInv, Owned
<1>3. PICK s : s = IoRange(io)
  OBVIOUS
<1>4. s \in vmas /\ s \notin segments /\ RangeOK(s) /\ IoOK(io) /\ s[1] = align_down(io.ptr)
  BY <1>1, <1>2, <1>3 DEF OwnersOK, VmasOK, IoRange
<1>5. VmaOf(s[1]) = s
  BY <1>2, <1>4, VmaOfLemma
<1>6. s[1] \in Va /\ s[1] \in Nat /\ s[2] \in Nat /\ s[1] < s[2]
  BY <1>4 DEF RangeOK, Va
<1>7. call' = [f |-> "iomem_unmap", lo |-> s[1], hi |-> s[2], va |-> s[1]]
  BY <1>1, <1>4, <1>5 DEF Start
<1>8. /\ call' \in PlainCall /\ call'.f = "iomem_unmap"
      /\ call'.lo = s[1] /\ call'.hi = s[2] /\ call'.va = s[1]
  BY <1>6, <1>7 DEF PlainCall
<1>9. CallOK'
  <2>1. CallVma(s)'
    BY <1>1, <1>2, <1>3, <1>4, <1>6, <1>8 DEF CallVma, OwnersOK
  <2>2. call'.va \in call'.lo..call'.hi
    BY <1>6, <1>8
  <2> QED BY <1>2, <1>4, <1>8, <2>1, <2>2 DEF CallOK
<1>10. Owned'
  BY <1>1, <1>2, <1>9 DEF Owned, VmasOK, OwnersOK
<1>11. ASSUME NEW va \in Va PROVE ~Covers(Mapping, va) /\ (Covers(Mapping', va) <=> Covers(s, va))
  <2>1. Mapping' = <<s[1], s[2]>>
    BY <1>8 DEF Mapping
  <2> QED BY <1>2, <2>1, MappingIdle DEF Covers
<1>12. SegmentsMapped' /\ IoMapped'
  BY <1>1, <1>2 DEF Content, SegmentsMapped, IoMapped
<1>13. ASSUME NEW va \in Va, Covers(s, va) PROVE \E d \in Device : Translate(M, va) = Map(d)
  <2>1. Translate(M, va) = Map(align_down(io.addr) + (va - align_down(io.ptr)))
    BY <1>1, <1>2, <1>3, <1>13 DEF Content, IoMapped
  <2>2. va \in Nat
    BY DEF Va
  <2>3. align_down(io.addr) + (va - align_down(io.ptr)) \in Device
    BY <1>3, <1>4, <1>6, <1>13, <2>2, IoDevice
  <2> QED BY <2>1, <2>3
<1>14. CallMapped'
  BY <1>2, <1>8, <1>11, <1>13 DEF CallMapped, CallPte
<1>15. NothingElse'
  BY <1>1, <1>2, <1>3, <1>11 DEF Content, NothingElse
<1>16. TlbOK'
  <2>1. SameAll(M, M') /\ call.f # "segment_free" /\ segments' \subseteq segments
    BY <1>2 DEF SameAll, Idle
  <2> QED BY <1>2, <2>1, TlbSame
<1> QED BY <1>2, <1>10, <1>12, <1>14, <1>15, <1>16 DEF IInv, Content

-----------------------------------------------------------------------------
(* The pages of a call.                                                    *)

(* Out of memory: nothing has changed but the tables and the free list. *)
LEMMA PanicStep ==
    ASSUME IInv, Good(M', {}), SameAll(M, M'), call.f = "segment_alloc", Panic("out of memory")
    PROVE  IInv'
<1>1. /\ UNCHANGED <<vmas, tlb, call, segments, iomem>> /\ panic' = "out of memory"
      /\ Owned /\ Content /\ TlbOK /\ call.f # "segment_free" /\ segments' \subseteq segments
  BY DEF Panic, IInv
<1>2. Owned' /\ Content' /\ TlbOK'
  BY <1>1, OwnedSame, ContentSame, TlbSame
<1> QED BY <1>1, <1>2 DEF IInv

(* The next page of a call that maps is not mapped yet. *)
LEMMA NextIsFree ==
    ASSUME IInv, call.f \in {"segment_alloc", "iomem_map"}, call.va < call.hi
    PROVE  call.va \in Va /\ Translate(M, call.va) = ZeroPte
<1>1. call # Idle /\ Owned /\ Content /\ CallOK
  BY NotIdle DEF IInv, Owned
<1>2. call.lo \in Nat /\ call.hi \in Nat /\ call.va \in Nat /\ call.lo <= call.va
  BY <1>1, CallFacts
<1>3. /\ call.va \in Va /\ \A s \in segments : ~Covers(s, call.va)
      /\ \A io \in iomem : ~Covers(IoRange(io), call.va)
  BY <1>1, <1>2, CallApart
<1>4. ~Covers(Mapping, call.va)
  BY <1>2 DEF Mapping, Covers
<1> QED BY <1>1, <1>3, <1>4 DEF Content, NothingElse

(* The next page of a call that unmaps is mapped. *)
LEMMA NextIsMapped ==
    ASSUME IInv, call.f \in {"segment_free", "paging_fail", "iomem_unmap"}, call.va < call.hi
    PROVE  call.va \in Va /\ CallPte(call.va, Translate(M, call.va))
<1>1. call # Idle /\ Owned /\ Content /\ CallOK
  BY NotIdle DEF IInv, Owned
<1>2. call.lo \in Nat /\ call.hi \in Nat /\ call.va \in Nat /\ call.lo <= call.va
  BY <1>1, CallFacts
<1>3. call.va \in Va
  BY <1>1, <1>2, CallApart
<1>4. Covers(Mapping, call.va)
  BY <1>2 DEF Mapping, Covers
<1> QED BY <1>1, <1>3, <1>4 DEF Content, CallMapped

LEMMA SegmentAllocPageInv ==
    ASSUME IInv, SegmentAllocPage
    PROVE  IInv'
<1>1. call.f = "segment_alloc" /\ call.va < call.hi /\ Good(M, {})
  BY DEF SegmentAllocPage, Looping, IInv
<1>2. CASE M.free = <<>>
  <2>1. M' = M /\ Panic("out of memory")
    BY <1>2 DEF SegmentAllocPage
  <2>2. Good(M', {}) /\ SameAll(M, M')
    BY <1>1, <2>1 DEF SameAll
  <2> QED BY <1>1, <2>1, <2>2, PanicStep
<1>3. CASE M.free # <<>>
  <2>1. PICK pa, n, E, va, r : /\ pa = Head(M.free) /\ n = mm_alloc_physical(M) /\ E = {}
                               /\ va = call.va
                               /\ r = mm_paging_map(n, va, pa, "PGPERM_KRW")
    OBVIOUS
  <2>2. /\ r.ret = "ok" => M' = r.m /\ Advance
        /\ r.ret = "fail" => M' = mm_free_physical(r.m, pa) /\ Panic("out of memory")
    BY <1>3, <2>1 DEF SegmentAllocPage
  <2>3. Took(M, n, E, pa)
    BY <1>1, <1>3, <2>1, AllocLemma
  <2>4. PICK Y : Y = E \cup {pa}
    OBVIOUS
  <2>5. Good(n, Y) /\ pa \in Frame /\ SameAll(M, n) /\ pa \in Y /\ Y \ {pa} = {}
    BY <2>1, <2>3, <2>4 DEF Took
  <2>6. va \in Va /\ Translate(n, va) = ZeroPte
    <3>1. call.va \in Va /\ Translate(M, call.va) = ZeroPte
      BY <1>1, NextIsFree
    <3> QED BY <2>1, <2>5, <3>1 DEF SameAll
  <2>7. Mapped(n, Y, va, pa, r)
    BY <2>1, <2>5, <2>6, MapLemma
  <2>8. CASE r.ret = "ok"
    <3>1. Good(M', {}) /\ Translate(M', va) = Map(pa) /\ SameBut(n, M', va) /\ Advance
      BY <2>2, <2>5, <2>7, <2>8 DEF Mapped
    <3>2. SameBut(M, M', call.va)
      BY <2>1, <2>5, <3>1 DEF SameBut, SameAll
    <3>3. CallPte(call.va, Translate(M', call.va))
      BY <1>1, <2>1, <2>5, <3>1 DEF CallPte
    <3> QED BY <1>1, <3>1, <3>2, <3>3, MapStep
  <2>9. CASE r.ret = "fail"
    <3>1. PICK k, z : k = r.m /\ z = mm_free_physical(k, pa)
      OBVIOUS
    <3>2. Good(k, Y) /\ SameAll(n, k)
      BY <2>7, <2>9, <3>1 DEF Mapped
    <3>3. Gave(k, z, Y, pa)
      BY <2>5, <3>1, <3>2, FreeLemma
    <3>4. Good(M', {}) /\ SameAll(k, M') /\ Panic("out of memory")
      BY <2>2, <2>5, <2>9, <3>1, <3>3 DEF Gave
    <3>5. SameAll(M, M')
      BY <2>5, <3>2, <3>4 DEF SameAll
    <3> QED BY <1>1, <3>4, <3>5, PanicStep
  <2> QED BY <2>7, <2>8, <2>9 DEF Mapped
<1> QED BY <1>2, <1>3

LEMMA SegmentFreePageInv ==
    ASSUME IInv, SegmentFreePage
    PROVE  IInv'
<1>1. call.f = "segment_free" /\ call.va < call.hi /\ Good(M, {})
  BY DEF SegmentFreePage, Looping, IInv
<1>2. call.va \in Va /\ \E f \in Frame : Translate(M, call.va) = Map(f)
  BY <1>1, NextIsMapped DEF CallPte
<1>3. PICK x \in Frame : Translate(M, call.va) = Map(x)
  BY <1>2
<1>4. PICK E, va, r, Y : /\ E = {} /\ va = call.va /\ r = mm_paging_unmap(M, va) /\ Y = E \cup {x}
  OBVIOUS
<1>5. Unmapped(M, E, va, x, r)
  BY <1>1, <1>2, <1>3, <1>4, UnmapLemma
<1>6. /\ r.ok /\ r.pa = x /\ r.m.free = M.free /\ Good(r.m, Y) /\ x \in Y /\ Y \ {x} = {}
      /\ Translate(r.m, va) = ZeroPte /\ SameBut(M, r.m, va)
  BY <1>4, <1>5 DEF Unmapped
<1>7. PICK k, z : k = r.m /\ z = mm_free_physical(k, x)
  OBVIOUS
<1>8. Gave(k, z, Y, x)
  BY <1>6, <1>7, FreeLemma
<1>9. M' = z /\ Advance
  BY <1>4, <1>6, <1>7 DEF SegmentFreePage
<1>10. /\ Good(M', {}) /\ SameAll(k, M') /\ M'.free = <<x>> \o M.free
  BY <1>6, <1>7, <1>8, <1>9 DEF Gave
<1>11. SameBut(M, M', call.va) /\ Translate(M', call.va) = ZeroPte
  BY <1>2, <1>4, <1>6, <1>7, <1>10 DEF SameBut, SameAll
<1>12. /\ \A j \in DOMAIN M.free : \E i \in DOMAIN M'.free : M'.free[i] = M.free[j]
       /\ \E i \in DOMAIN M'.free : M'.free[i] = x
  <2>1. PICK free, all : free = M.free /\ all = M'.free
    OBVIOUS
  <2>2. free \in Seq(Frame) /\ all = <<x>> \o free
    BY <1>1, <1>10, <2>1 DEF Good, Sound, FreeOK
  <2>3. /\ Len(free) \in Nat /\ Len(all) = Len(free) + 1
        /\ DOMAIN free = 1..Len(free) /\ DOMAIN all = 1..Len(all)
    BY <2>2
  <2>4. all[1] = x /\ 1 \in DOMAIN all
    BY <2>2, <2>3
  <2>5. ASSUME NEW j \in DOMAIN free PROVE j + 1 \in DOMAIN all /\ all[j + 1] = free[j]
    BY <2>2, <2>3, <2>5
  <2> QED BY <2>1, <2>4, <2>5
<1> QED BY <1>1, <1>3, <1>9, <1>10, <1>11, <1>12, UnmapStep

(* iomem_unmap and paging_fail. *)
LEMMA UnmapDevice ==
    ASSUME IInv, call.f \in {"paging_fail", "iomem_unmap"}, call.va < call.hi,
           M' = mm_paging_unmap(M, call.va).m,
           IF mm_paging_unmap(M, call.va).ok THEN Advance ELSE Panic("assert")
    PROVE  IInv'
<1>1. Good(M, {})
  BY DEF IInv
<1>2. call.va \in Va /\ \E d \in Device : Translate(M, call.va) = Map(d)
  BY NextIsMapped DEF CallPte
<1>3. PICK x \in Device : Translate(M, call.va) = Map(x)
  BY <1>2
<1>4. PICK E, va, r : E = {} /\ va = call.va /\ r = mm_paging_unmap(M, va)
  OBVIOUS
<1>5. Unmapped(M, E, va, x, r)
  BY <1>1, <1>2, <1>3, <1>4, UnmapLemma
<1>6. /\ r.ok /\ M'.free = M.free /\ Good(M', {}) /\ Advance /\ x \notin Frame
      /\ Translate(M', call.va) = ZeroPte /\ SameBut(M, M', call.va)
  BY <1>4, <1>5, PagingConstants DEF Unmapped
<1> QED BY <1>3, <1>6, UnmapStep

LEMMA IomemMapPageInv ==
    ASSUME IInv, IomemMapPage
    PROVE  IInv'
<1>1. call.f = "iomem_map" /\ call.va < call.hi /\ Good(M, {}) /\ Owned /\ CallOK /\ call # Idle
  BY NotIdle DEF IomemMapPage, Looping, IInv, Owned
<1>2. PICK pa, E, va, r : /\ pa = align_down(call.region[1]) + (call.va - call.lo)
                          /\ E = {} /\ va = call.va
                          /\ r = mm_paging_map(M, va, pa, "PGPERM_KRW")
  OBVIOUS
<1>3. /\ M' = r.m
      /\ r.ret = "ok" => Advance
      /\ r.ret = "fail" =>
            /\ call' = [f |-> "paging_fail", lo |-> call.lo, hi |-> call.va, va |-> call.lo]
            /\ UNCHANGED <<vmas, tlb, segments, iomem, panic>>
  BY <1>2 DEF IomemMapPage
<1>4. /\ call.lo \in Nat /\ call.hi \in Nat /\ call.va \in Nat /\ call.lo <= call.va
      /\ call.region \in Regions
      /\ call.hi = call.lo + IoPages(call.region[1], call.region[2])
  BY <1>1, CallFacts DEF CallOK
<1>5. pa \in Device
  <2>1. PICK n : n = IoPages(call.region[1], call.region[2])
    OBVIOUS
  <2>2. n \in Nat /\ \A i \in 0..(n - 1) : align_down(call.region[1]) + i \in Device
    BY <1>4, <2>1, IoFacts
  <2>3. call.va - call.lo \in 0..(n - 1)
    BY <1>1, <1>4, <2>1, <2>2
  <2> QED BY <1>2, <2>2, <2>3
<1>6. va \in Va /\ Translate(M, va) = ZeroPte
  BY <1>1, <1>2, NextIsFree
<1>7. Mapped(M, E, va, pa, r)
  BY <1>1, <1>2, <1>5, <1>6, MapLemma
<1>8. CASE r.ret = "ok"
  <2>1. Good(M', {}) /\ Translate(M', va) = Map(pa) /\ SameBut(M, M', call.va) /\ Advance
    <3>1. E \ {pa} = {}
      BY <1>2
    <3> QED BY <1>2, <1>3, <1>7, <1>8, <3>1 DEF Mapped
  <2>2. CallPte(call.va, Translate(M', call.va))
    BY <1>1, <1>2, <2>1 DEF CallPte
  <2> QED BY <1>1, <2>1, <2>2, MapStep
<1>9. CASE r.ret = "fail"
  <2>1. /\ Good(M', {}) /\ SameAll(M, M')
        /\ call' = [f |-> "paging_fail", lo |-> call.lo, hi |-> call.va, va |-> call.lo]
        /\ UNCHANGED <<vmas, tlb, segments, iomem, panic>>
    BY <1>2, <1>3, <1>7, <1>9 DEF Mapped
  <2>2. /\ call'.f = "paging_fail" /\ call'.lo = call.lo /\ call'.hi = call.va
        /\ call'.va = call.lo
    BY <2>1
  <2>3. call' \in PlainCall
    BY <1>1, <1>4, <2>1, CallFacts DEF PlainCall, IoCall
  <2>4. CallOK'
    <3>1. PICK v \in vmas : CallVma(v)
      BY <1>1 DEF CallOK
    <3>2. v[2] = call.hi
      BY <1>1, <3>1 DEF CallVma
    <3>3. CallVma(v)'
      BY <1>1, <1>4, <2>1, <2>2, <3>1, <3>2 DEF CallVma
    <3>4. call'.va \in call'.lo..call'.hi
      BY <1>4, <2>2
    <3> QED BY <2>1, <2>2, <2>3, <3>1, <3>3, <3>4 DEF CallOK
  <2>5. Owned'
    BY <1>1, <2>1, <2>4 DEF Owned, VmasOK, OwnersOK
  <2>6. Content /\ TlbOK /\ call.f # "segment_free" /\ segments' \subseteq segments
    BY <1>1, <2>1 DEF IInv
  <2>7. \A u \in Va : Translate(M', u) = Translate(M, u)
    BY <2>1 DEF SameAll
  <2>8. Mapping' = Mapping
    BY <1>1, <2>2 DEF Mapping
  <2>9. SegmentsMapped' /\ IoMapped'
    BY <2>1, <2>6, <2>7 DEF Content, SegmentsMapped, IoMapped
  <2>10. NothingElse'
    BY <2>1, <2>6, <2>7, <2>8 DEF Content, NothingElse
  <2>11. CallMapped'
    <3>1. ASSUME NEW u \in Va, Covers(Mapping, u)
          PROVE  \E d \in Device : Translate(M, u) = Map(d)
      <4>1. Translate(M, u) = Map(align_down(call.region[1]) + (u - call.lo))
        BY <1>1, <2>6, <3>1 DEF Content, CallMapped, CallPte
      <4>2. call.lo <= u /\ u < call.hi /\ u \in Nat
        BY <1>1, <1>4, <3>1 DEF Mapping, Covers, Va
      <4>3. PICK n : n = IoPages(call.region[1], call.region[2])
        OBVIOUS
      <4>4. n \in Nat /\ \A i \in 0..(n - 1) : align_down(call.region[1]) + i \in Device
        BY <1>4, <4>3, IoFacts
      <4>5. u - call.lo \in 0..(n - 1)
        BY <1>4, <4>2, <4>3, <4>4
      <4> QED BY <4>1, <4>4, <4>5
    <3> QED BY <2>2, <2>7, <2>8, <3>1 DEF CallMapped, CallPte
  <2>12. TlbOK'
    BY <2>1, <2>6, TlbSame
  <2> QED BY <2>1, <2>5, <2>9, <2>10, <2>11, <2>12 DEF IInv, Content
<1> QED BY <1>7, <1>8, <1>9 DEF Mapped

-----------------------------------------------------------------------------
(* The ends of the calls. *)

LEMMA SegmentAllocEndInv ==
    ASSUME IInv, SegmentAllocEnd
    PROVE  IInv'
<1>1. /\ call.f = "segment_alloc" /\ call.va = call.hi /\ tlb' = <<>> /\ call' = Idle
      /\ segments' = segments \cup {CallRange} /\ UNCHANGED <<M, vmas, iomem, panic>>
      /\ Good(M, {}) /\ Owned /\ Content /\ CallOK /\ call # Idle
  BY NotIdle DEF SegmentAllocEnd, Looped, mm_paging_fence, IInv, Owned
<1>2. PICK v \in vmas : CallVma(v)
  BY <1>1 DEF CallOK
<1>3. v = CallRange /\ v = <<call.lo, call.hi>>
  <2>1. RangeOK(v)
    BY <1>1 DEF Owned, VmasOK
  <2>2. v = <<v[1], v[2]>>
    BY <2>1 DEF RangeOK
  <2> QED BY <1>1, <1>2, <2>2 DEF CallVma, CallRange
<1>4. Owned'
  <2>1. OwnersOK'
    BY <1>1, <1>2, <1>3 DEF Owned, OwnersOK, CallVma
  <2>2. VmasOK' /\ CallOK'
    BY <1>1 DEF Owned, VmasOK, CallOK
  <2> QED BY <2>1, <2>2 DEF Owned
<1>5. Mapping = v
  BY <1>1, <1>3 DEF Mapping
<1>6. SegmentsMapped'
  <2>1. \A va \in Va : Covers(v, va) => \E f \in Frame : Translate(M, va) = Map(f)
    BY <1>1, <1>5 DEF Content, CallMapped, CallPte
  <2> QED BY <1>1, <1>3, <2>1 DEF Content, SegmentsMapped
<1>7. IoMapped'
  BY <1>1 DEF Content, IoMapped
<1>8. CallMapped'
  <2>1. \A va \in Va : ~Covers(Mapping', va)
    BY <1>1 DEF Mapping, Idle, Covers, Va
  <2> QED BY <2>1 DEF CallMapped
<1>9. NothingElse'
  BY <1>1, <1>3, <1>5 DEF Content, NothingElse
<1>10. TlbOK'
  BY <1>1, TlbEmpty
<1> QED BY <1>1, <1>4, <1>6, <1>7, <1>8, <1>9, <1>10 DEF IInv, Content

LEMMA IomemMapEndInv ==
    ASSUME IInv, IomemMapEnd
    PROVE  IInv'
<1>1. PICK io : io = [ptr |-> call.lo * PageBytes,
                      addr |-> call.region[1], size |-> call.region[2]]
  OBVIOUS
<1>2. /\ call.f = "iomem_map" /\ call.va = call.hi /\ call' = Idle
      /\ iomem' = iomem \cup {io} /\ UNCHANGED <<M, vmas, tlb, segments, panic>>
      /\ Good(M, {}) /\ Owned /\ Content /\ TlbOK /\ CallOK /\ call # Idle
  BY <1>1, NotIdle DEF IomemMapEnd, Looped, IInv, Owned
<1>3. PICK v \in vmas : CallVma(v)
  BY <1>2 DEF CallOK
<1>4. v = <<call.lo, call.hi>>
  <2>1. RangeOK(v)
    BY <1>2 DEF Owned, VmasOK
  <2>2. v = <<v[1], v[2]>>
    BY <2>1 DEF RangeOK
  <2> QED BY <1>2, <1>3, <2>2 DEF CallVma
<1>5. /\ call.lo \in Nat /\ call.region \in Regions
      /\ call.hi = call.lo + IoPages(call.region[1], call.region[2])
  BY <1>2, CallFacts DEF CallOK
<1>6. io.addr = call.region[1] /\ io.size = call.region[2] /\ align_down(io.ptr) = call.lo
  BY <1>1, <1>5, AlignPage
<1>7. IoRange(io) = v
  BY <1>4, <1>5, <1>6 DEF IoRange
<1>8. IoOK(io)
  <2>1. call.region = <<call.region[1], call.region[2]>>
    BY <1>5, RegionsAssumption
  <2> QED BY <1>5, <1>6, <2>1 DEF IoOK
<1>9. Owned'
  <2>1. OwnersOK'
    <3>1. \A jo \in iomem : IoRange(jo) # v
      BY <1>3 DEF CallVma
    <3>2. v \notin segments
      BY <1>3 DEF CallVma
    <3> QED BY <1>2, <1>7, <1>8, <3>1, <3>2 DEF Owned, OwnersOK
  <2>2. VmasOK' /\ CallOK'
    BY <1>2 DEF Owned, VmasOK, CallOK
  <2> QED BY <2>1, <2>2 DEF Owned
<1>10. Mapping = v
  BY <1>2, <1>4 DEF Mapping
<1>11. IoMapped'
  <2>1. \A va \in Va : Covers(v, va) =>
           Translate(M, va) = Map(align_down(io.addr) + (va - align_down(io.ptr)))
    BY <1>2, <1>6, <1>10 DEF Content, CallMapped, CallPte
  <2> QED BY <1>2, <1>7, <2>1 DEF Content, IoMapped
<1>12. SegmentsMapped'
  BY <1>2 DEF Content, SegmentsMapped
<1>13. CallMapped'
  <2>1. \A va \in Va : ~Covers(Mapping', va)
    BY <1>2 DEF Mapping, Idle, Covers, Va
  <2> QED BY <2>1 DEF CallMapped
<1>14. NothingElse'
  BY <1>2, <1>7, <1>10 DEF Content, NothingElse
<1>15. TlbOK'
  <2>1. SameAll(M, M') /\ call.f # "segment_free" /\ segments' \subseteq segments
    BY <1>2 DEF SameAll
  <2> QED BY <1>2, <2>1, TlbSame
<1> QED BY <1>2, <1>9, <1>11, <1>12, <1>13, <1>14, <1>15 DEF IInv, Content

(* A call that has unmapped all its pages ends, and its VMA is free or is  *)
(* left behind.                                                            *)
LEMMA EndOfUnmap ==
    ASSUME IInv, call.f \in {"segment_free", "paging_fail", "iomem_unmap"}, call.va = call.hi,
           call' = Idle, UNCHANGED <<M, segments, iomem, panic>>, TlbOK',
           \/ vmas' = vmas
           \/ call.f # "paging_fail" /\ vmas' = vmas \ {CallRange}
    PROVE  IInv'
<1>1. Good(M, {}) /\ Owned /\ Content /\ CallOK /\ call # Idle /\ OwnersOK /\ VmasOK
  BY NotIdle DEF IInv, Owned
<1>2. PICK v \in vmas : CallVma(v)
  BY <1>1 DEF CallOK
<1>3. vmas' \subseteq vmas /\ \A r \in vmas : r # v => r \in vmas'
  <2>1. CASE vmas' = vmas
    BY <2>1
  <2>2. CASE call.f # "paging_fail" /\ vmas' = vmas \ {CallRange}
    <3>1. v = <<v[1], v[2]>>
      BY <1>1 DEF VmasOK, RangeOK
    <3>2. v = CallRange
      BY <1>2, <2>2, <3>1 DEF CallVma, CallRange
    <3> QED BY <2>2, <3>2
  <2> QED BY <2>1, <2>2
<1>4. VmasOK' /\ CallOK'
  BY <1>1, <1>3 DEF VmasOK, CallOK
<1>5. OwnersOK'
  BY <1>1, <1>2, <1>3 DEF OwnersOK, CallVma
<1>6. ASSUME NEW va \in Va PROVE ~Covers(Mapping, va) /\ ~Covers(Mapping', va)
  <2>1. Mapping = <<call.hi, call.hi>> /\ Mapping' = <<0, 0>> /\ call.hi \in Nat
    BY <1>1, CallFacts DEF Mapping, Idle
  <2> QED BY <2>1 DEF Covers, Va
<1>7. SegmentsMapped' /\ IoMapped'
  BY <1>1 DEF Content, SegmentsMapped, IoMapped
<1>8. CallMapped'
  BY <1>6 DEF CallMapped
<1>9. NothingElse'
  BY <1>1, <1>6 DEF Content, NothingElse
<1> QED BY <1>1, <1>4, <1>5, <1>7, <1>8, <1>9 DEF IInv, Owned, Content

LEMMA SegmentFreeEndInv ==
    ASSUME IInv, SegmentFreeEnd
    PROVE  IInv'
<1>1. TlbOK'
  BY TlbEmpty DEF SegmentFreeEnd, mm_paging_fence
<1> QED BY <1>1, EndOfUnmap DEF SegmentFreeEnd, Looped

LEMMA IomemUnmapEndInv ==
    ASSUME IInv, IomemUnmapEnd
    PROVE  IInv'
<1>1. TlbOK /\ SameAll(M, M') /\ call.f # "segment_free" /\ segments' \subseteq segments
  BY DEF IomemUnmapEnd, Looped, SameAll, IInv
<1>2. TlbOK'
  BY <1>1, TlbSame DEF IomemUnmapEnd
<1> QED BY <1>2, EndOfUnmap DEF IomemUnmapEnd, Looped

LEMMA PagingFailInv ==
    ASSUME IInv, PagingFail
    PROVE  IInv'
<1>1. CASE Looping("paging_fail")
  <2>1. call.f = "paging_fail" /\ call.va < call.hi
    BY <1>1 DEF Looping
  <2>2. /\ M' = mm_paging_unmap(M, call.va).m
        /\ IF mm_paging_unmap(M, call.va).ok THEN Advance ELSE Panic("assert")
    <3>1. ~Looped("paging_fail")
      <4>1. call.va \in Nat /\ call.hi \in Nat
        BY <2>1, CallFacts, NotIdle DEF IInv, Owned
      <4> QED BY <2>1, <4>1 DEF Looped
    <3> QED BY <3>1 DEF PagingFail
  <2> QED BY <2>1, <2>2, UnmapDevice
<1>2. CASE ~Looping("paging_fail")
  <2>1. /\ call.f = "paging_fail" /\ call.va = call.hi /\ call' = Idle
        /\ UNCHANGED <<M, vmas, tlb, segments, iomem, panic>>
    BY <1>2 DEF PagingFail, Looped
  <2>2. TlbOK /\ SameAll(M, M') /\ call.f # "segment_free" /\ segments' \subseteq segments
    BY <2>1 DEF SameAll, IInv
  <2>3. TlbOK'
    BY <2>1, <2>2, TlbSame
  <2> QED BY <2>1, <2>3, EndOfUnmap
<1> QED BY <1>1, <1>2

LEMMA IomemUnmapPageInv ==
    ASSUME IInv, IomemUnmapPage
    PROVE  IInv'
BY UnmapDevice DEF IomemUnmapPage, Looping

(* The TLB reads a translation. *)
LEMMA FillTlbInv ==
    ASSUME IInv, FillTlb
    PROVE  IInv'
<1>1. PICK va \in Va : LET kept == IF Len(tlb) < TlbSize THEN tlb ELSE Tail(tlb)
                       IN  tlb' = Append(kept, [va |-> va, pte |-> Translate(M, va)])
  BY DEF FillTlb
<1>2. PICK e, kept, old : /\ e = [va |-> va, pte |-> Translate(M, va)] /\ old = tlb
                          /\ kept = IF Len(tlb) < TlbSize THEN tlb ELSE Tail(tlb)
  OBVIOUS
<1>3. /\ UNCHANGED <<M, vmas, call, segments, iomem, panic>> /\ tlb' = Append(kept, e)
      /\ Good(M, {}) /\ Owned /\ Content /\ TlbOK
  BY <1>1, <1>2 DEF FillTlb, IInv
<1>4. e \in Entry
  <2>1. Translate(M, va) \in Pte
    BY <1>3, TranslateType
  <2> QED BY <1>2, <2>1 DEF Entry
<1>5. old \in Seq(Entry) /\ TlbSize \in Nat /\ TlbSize > 0
  BY <1>2, <1>3, PagingConstants DEF TlbOK
<1>6. /\ kept \in Seq(Entry)
      /\ \A i \in DOMAIN kept : \E j \in DOMAIN old : kept[i] = old[j]
  <2>1. CASE Len(old) < TlbSize
    BY <1>2, <1>5, <2>1
  <2>2. CASE ~(Len(old) < TlbSize)
    <3>1. kept = Tail(old) /\ old # <<>>
      BY <1>2, <1>5, <2>2
    <3>2. /\ kept \in Seq(Entry) /\ Len(old) \in Nat /\ Len(kept) = Len(old) - 1
          /\ DOMAIN kept = 1..Len(kept) /\ DOMAIN old = 1..Len(old)
      BY <1>5, <3>1
    <3>3. ASSUME NEW i \in DOMAIN kept PROVE i + 1 \in DOMAIN old /\ kept[i] = old[i + 1]
      BY <1>5, <3>1, <3>2, <3>3
    <3> QED BY <3>2, <3>3
  <2> QED BY <2>1, <2>2
<1>7. /\ tlb' \in Seq(Entry)
      /\ \A i \in DOMAIN tlb' : tlb'[i] = e \/ \E j \in DOMAIN kept : tlb'[i] = kept[j]
  <2>1. PICK s : s = tlb'
    OBVIOUS
  <2>2. s = Append(kept, e)
    BY <1>3, <2>1
  <2>3. /\ s \in Seq(Entry) /\ Len(kept) \in Nat /\ Len(s) = Len(kept) + 1
        /\ DOMAIN s = 1..Len(s) /\ DOMAIN kept = 1..Len(kept)
    BY <1>4, <1>6, <2>2
  <2>4. ASSUME NEW i \in DOMAIN s PROVE s[i] = e \/ (i \in DOMAIN kept /\ s[i] = kept[i])
    BY <1>4, <1>6, <2>2, <2>3, <2>4
  <2> QED BY <2>1, <2>3, <2>4
<1>8. TlbOK'
  <2>1. \A t : Fresh(t) <=> Fresh(t)'
    BY <1>3 DEF Fresh
  <2>2. Fresh(e)
    BY <1>2 DEF Fresh
  <2>3. ASSUME NEW i \in DOMAIN tlb' PROVE Fresh(tlb'[i])
    BY <1>2, <1>3, <1>6, <1>7, <2>2, <2>3 DEF TlbOK
  <2> QED BY <1>3, <1>7, <2>3 DEF TlbOK, Fresh
<1>9. Owned' /\ Content'
  <2>1. SameAll(M, M')
    BY <1>3 DEF SameAll
  <2> QED BY <1>3, <2>1, OwnedSame, ContentSame
<1> QED BY <1>3, <1>8, <1>9 DEF IInv

LEMMA StutterInv ==
    ASSUME IInv, UNCHANGED vars
    PROVE  IInv'
<1>1. /\ UNCHANGED <<M, vmas, tlb, call, segments, iomem, panic>>
      /\ Good(M, {}) /\ Owned /\ Content /\ TlbOK
  BY DEF vars, IInv
<1>2. SameAll(M, M')
  BY <1>1 DEF SameAll
<1>3. Owned' /\ Content'
  BY <1>1, <1>2, OwnedSame, ContentSame
<1>4. TlbOK'
  BY <1>1 DEF TlbOK, Fresh
<1> QED BY <1>1, <1>3, <1>4 DEF IInv

LEMMA NextInv ==
    ASSUME IInv, [Next]_vars
    PROVE  IInv'
<1>1. CASE UNCHANGED vars
  BY <1>1, StutterInv
<1>2. CASE FillTlb
  BY <1>2, FillTlbInv
<1>3. CASE SegmentAlloc \/ SegmentAllocPage \/ SegmentAllocEnd
  BY <1>3, SegmentAllocInv, SegmentAllocPageInv, SegmentAllocEndInv
<1>4. CASE SegmentFree \/ SegmentFreePage \/ SegmentFreeEnd
  BY <1>4, SegmentFreeInv, SegmentFreePageInv, SegmentFreeEndInv
<1>5. CASE IomemMap \/ IomemMapPage \/ IomemMapEnd
  BY <1>5, IomemMapInv, IomemMapPageInv, IomemMapEndInv
<1>6. CASE PagingFail
  BY <1>6, PagingFailInv
<1>7. CASE IomemUnmap \/ IomemUnmapPage \/ IomemUnmapEnd
  BY <1>7, IomemUnmapInv, IomemUnmapPageInv, IomemUnmapEndInv
<1>8. CASE Halt
  BY <1>8, StutterInv DEF Halt
<1> QED BY <1>1, <1>2, <1>3, <1>4, <1>5, <1>6, <1>7, <1>8 DEF Next

-----------------------------------------------------------------------------
(* The boot stub.                                                          *)

(* The step from n to n + 1, for a set: the library's induction rules take *)
(* a predicate.                                                            *)
LEMMA SetInduction ==
    ASSUME NEW S, 0 \in S, \A n \in Nat : n \in S => n + 1 \in S
    PROVE  \A n \in Nat : n \in S
<1> DEFINE T == {n \in Nat : n \notin S}
<1>1. SUFFICES ASSUME T # {} PROVE FALSE
  OBVIOUS
<1>2. PICK R : R = OpToRel(<, Nat)
  OBVIOUS
<1>3. IsWellFoundedOn(R, Nat)
  BY <1>2, NatLessThanWellFounded
<1>4. \E x \in T : \A y \in T : ~(<<y, x>> \in R)
  <2>1. T \subseteq Nat
    OBVIOUS
  <2> HIDE DEF T
  <2> QED BY <1>1, <1>3, <2>1, WFMin
<1>5. PICK x \in T : \A y \in T : ~(<<y, x>> \in R)
  BY <1>4
<1>6. x # 0 /\ x - 1 \in Nat /\ x - 1 \in T
  OBVIOUS
<1>7. <<x - 1, x>> \in R
  BY <1>2, <1>6 DEF OpToRel
<1> QED BY <1>5, <1>6, <1>7

BootRun(f) ==
    /\ f[0] = EmptyMemory
    /\ \A n \in 0..(SegPages - 1) : f[n + 1] = BootMapPage(f[n], n).m

LEMMA BootLoop == BootRun(BootMemory)
<1> DEFINE a == EmptyMemory
           Step(x, i) == BootMapPage(x, i).m
           Is(f, n) == f = [c \in 0..n |-> IF c = 0 THEN a ELSE Step(f[c - 1], c - 1)]
           S == {n \in Nat : \E f : Is(f, n)}
<1> HIDE DEF a, Step
<1>0. SegPages \in Nat
  BY PagingConstants
<1>1. 0 \in S
  <2>1. PICK f : f = [i \in 0..0 |-> a]
    OBVIOUS
  <2>2. Is(f, 0)
    BY <2>1
  <2> QED BY <2>2
<1>2. ASSUME NEW n \in Nat, n \in S PROVE n + 1 \in S
  <2>1. PICK f : Is(f, n)
    BY <1>2
  <2>2. PICK g : g = [i \in 0..(n + 1) |-> IF i <= n THEN f[i] ELSE Step(f[n], n)]
    OBVIOUS
  <2>3. ASSUME NEW i \in 0..(n + 1)
        PROVE  g[i] = IF i = 0 THEN a ELSE Step(g[i - 1], i - 1)
    <3>1. CASE i = 0
      BY <2>1, <2>2, <3>1
    <3>2. CASE i # 0 /\ i <= n
      <4>1. i \in 0..n /\ i - 1 \in 0..(n + 1) /\ i - 1 <= n
        BY <3>2
      <4>2. f[i] = Step(f[i - 1], i - 1)
        BY <2>1, <3>2, <4>1
      <4>3. g[i] = f[i] /\ g[i - 1] = f[i - 1]
        BY <2>2, <3>2, <4>1
      <4> QED BY <3>2, <4>2, <4>3
    <3>3. CASE i = n + 1
      <4>1. g[i] = Step(f[n], n) /\ g[n] = f[n] /\ i - 1 = n /\ i # 0
        BY <2>2, <3>3
      <4> QED BY <4>1
    <3> QED BY <3>1, <3>2, <3>3
  <2>4. Is(g, n + 1)
    BY <2>2, <2>3
  <2> QED BY <2>4
<1>3. SegPages \in S
  <2> HIDE DEF S
  <2> QED BY <1>0, <1>1, <1>2, SetInduction
<1>4. PICK f : f = CHOOSE x : Is(x, SegPages)
  OBVIOUS
<1>5. Is(f, SegPages)
  BY <1>3, <1>4
<1>6. BootMemory = f
  BY <1>4 DEF BootMemory, a, Step
<1>7. f[0] = a
  BY <1>0, <1>5
<1>8. ASSUME NEW i \in 0..(SegPages - 1) PROVE f[i + 1] = Step(f[i], i)
  <2>1. i + 1 \in 0..SegPages /\ i + 1 # 0 /\ (i + 1) - 1 = i
    BY <1>0
  <2> QED BY <1>5, <2>1
<1> QED BY <1>6, <1>7, <1>8 DEF a, Step, BootRun

(* The frames: none is in both sequences, none twice in one. *)
Unreserved == {FreeFrames[i] : i \in 1..Len(FreeFrames)}

LEMMA FrameFacts ==
    /\ BootFrames \in Seq(Frame) /\ FreeFrames \in Seq(Frame)
    /\ \A i, j \in 1..Len(BootFrames) : i # j => BootFrames[i] # BootFrames[j]
    /\ \A i, j \in 1..Len(FreeFrames) : i # j => FreeFrames[i] # FreeFrames[j]
    /\ \A i \in 1..Len(BootFrames) : BootFrames[i] \notin Unreserved
    /\ \A f \in Frame :
          f # Root <=> f \in Unreserved \/ \E i \in 1..Len(BootFrames) : BootFrames[i] = f
    /\ Unreserved \subseteq Frame
<1>1. PICK b, u, all : b = BootFrames /\ u = FreeFrames /\ all = b \o u
  OBVIOUS
<1>2. /\ b \in Seq(Frame \ {Root}) /\ u \in Seq(Frame \ {Root})
      /\ \A i, j \in DOMAIN all : i # j => all[i] # all[j]
      /\ \A f \in Frame \ {Root} : \E i \in DOMAIN all : all[i] = f
  BY <1>1, FramesAssumption
<1>3. /\ Len(b) \in Nat /\ Len(u) \in Nat /\ DOMAIN all = 1..(Len(b) + Len(u))
      /\ \A i \in 1..Len(b) : all[i] = b[i] /\ b[i] \in Frame \ {Root}
      /\ \A i \in 1..Len(u) : all[Len(b) + i] = u[i] /\ u[i] \in Frame \ {Root}
  BY <1>1, <1>2
<1>4. b \in Seq(Frame) /\ u \in Seq(Frame)
  BY <1>2
<1>5. ASSUME NEW i \in 1..Len(b), NEW j \in 1..Len(b), i # j PROVE b[i] # b[j]
  <2>1. i \in DOMAIN all /\ j \in DOMAIN all
    BY <1>3
  <2>2. all[i] # all[j]
    BY ONLY <1>2, <1>5, <2>1
  <2>3. all[i] = b[i] /\ all[j] = b[j]
    BY ONLY <1>3, i \in 1..Len(b), j \in 1..Len(b)
  <2> QED BY ONLY <2>2, <2>3
<1>6. ASSUME NEW i \in 1..Len(u), NEW j \in 1..Len(u), i # j PROVE u[i] # u[j]
  <2>1. Len(b) + i \in DOMAIN all /\ Len(b) + j \in DOMAIN all /\ Len(b) + i # Len(b) + j
    BY <1>3, <1>6
  <2>2. all[Len(b) + i] # all[Len(b) + j]
    BY ONLY <1>2, <2>1
  <2>3. all[Len(b) + i] = u[i] /\ all[Len(b) + j] = u[j]
    BY ONLY <1>3, i \in 1..Len(u), j \in 1..Len(u)
  <2> QED BY ONLY <2>2, <2>3
<1>7. ASSUME NEW i \in 1..Len(b), NEW j \in 1..Len(u) PROVE b[i] # u[j]
  <2>1. i \in DOMAIN all /\ Len(b) + j \in DOMAIN all /\ i # Len(b) + j
    BY <1>3
  <2>2. all[i] # all[Len(b) + j]
    BY ONLY <1>2, <2>1
  <2>3. all[i] = b[i] /\ all[Len(b) + j] = u[j]
    BY ONLY <1>3, i \in 1..Len(b), j \in 1..Len(u)
  <2> QED BY ONLY <2>2, <2>3
<1>8. ASSUME NEW f \in Frame, f # Root
      PROVE  (\E i \in 1..Len(u) : u[i] = f) \/ \E i \in 1..Len(b) : b[i] = f
  <2>1. PICK i \in DOMAIN all : all[i] = f
    BY <1>2, <1>8
  <2>2. CASE i <= Len(b)
    BY <1>3, <2>1, <2>2
  <2>3. CASE ~(i <= Len(b))
    <3>1. i - Len(b) \in 1..Len(u) /\ Len(b) + (i - Len(b)) = i
      BY <1>3, <2>3
    <3>2. u[i - Len(b)] = f
      BY <1>3, <2>1, <3>1
    <3> QED BY <3>1, <3>2
  <2> QED BY <2>2, <2>3
<1>9. Unreserved = {u[i] : i \in 1..Len(u)}
  BY <1>1 DEF Unreserved
<1>10. \A i \in 1..Len(b) : b[i] \notin Unreserved
  BY <1>7, <1>9
<1>11. ASSUME NEW f \in Frame
       PROVE  f # Root <=> f \in Unreserved \/ \E i \in 1..Len(b) : b[i] = f
  BY <1>3, <1>8, <1>9
<1>12. Unreserved \subseteq Frame
  BY <1>3, <1>9
<1> QED BY <1>1, <1>4, <1>5, <1>6, <1>10, <1>11, <1>12

(* The pages below n are mapped. *)
Booting(m, X, n) ==
    /\ Good(m, X)
    /\ \A va \in Va : /\ va < n => \E f \in Frame : Translate(m, va) = Map(f)
                      /\ va >= n => Translate(m, va) = ZeroPte

LEMMA BootFirst ==
    ASSUME NEW X, X = Unreserved
    PROVE  Booting(EmptyMemory, X, 0)
<1>1. PICK m, mm, free : m = EmptyMemory /\ mm = m.mem /\ free = m.free
  OBVIOUS
<1>2. /\ m = [mem |-> mm, free |-> free] /\ free = BootFrames
      /\ mm = [f \in Frame |-> IF \E i \in DOMAIN FreeFrames : FreeFrames[i] = f THEN Data
                               ELSE [i \in Idx |-> ZeroPte]]
  BY <1>1 DEF EmptyMemory
<1>3. PICK lvl, par : /\ lvl = [f \in Frame |-> IF f = Root THEN 3 ELSE 4]
                      /\ par = [f \in Frame |-> <<Root, 0>>]
  OBVIOUS
<1>4. Root \in Frame /\ 0 \in Idx
  BY PagingConstants DEF Idx
<1>5. Data \in [Idx -> Pte]
  <2>1. {"R", "W"} \in SUBSET Flags
    BY DEF Flags
  <2> QED BY <1>4, <2>1 DEF Data, Pte
<1>6. mm \in Tables /\ lvl \in [Frame -> 0..4] /\ par \in [Frame -> Frame \X Idx]
  BY <1>2, <1>3, <1>4, <1>5, PteFacts DEF Tables
<1>root. ASSUME NEW i \in Idx PROVE mm[Root][i] = ZeroPte
  <2>1. \A k \in DOMAIN FreeFrames : FreeFrames[k] # Root
    BY FramesAssumption
  <2> QED BY <1>2, <1>4, <2>1
<1>7. ASSUME NEW t \in Frame, NEW i \in Idx, lvl[t] \in 1..3
      PROVE  EntryOK(mm[t][i], t, i, lvl, par)
  <2>1. t = Root
    BY <1>3, <1>7
  <2> QED BY <1>root, <2>1 DEF EntryOK
<1>8. \A f \in Frame : lvl[f] \notin 0..2
  BY <1>3
<1>9. Graph(mm, lvl, par)
  BY <1>3, <1>6, <1>7, <1>8 DEF Graph
<1>10. FreeOK(free, lvl, X)
  <2>1. \A f \in Frame : lvl[f] = 4 <=> f # Root
    BY <1>3
  <2> QED BY <1>2, <2>1, FrameFacts DEF FreeOK
<1>11. m \in MemType
  BY <1>2, <1>6, <1>10 DEF MemType, FreeOK
<1>12. Good(m, X)
  BY <1>1, <1>9, <1>10, <1>11 DEF Good, Sound
<1>13. ASSUME NEW va \in Va PROVE Translate(m, va) = ZeroPte
  <2>1. Found(m, lvl, va)
    BY <1>1, <1>9, TranslateFacts
  <2>2. mm[Root][vpn2(va)] = ZeroPte
    BY <1>root, VpnFacts
  <2>3. \A t \in Frame : ~Slot(mm, va, t)
    BY <2>2, PteFacts DEF Slot
  <2> QED BY <1>1, <2>1, <2>3 DEF Found
<1>14. \A va \in Va : ~(va < 0)
  BY DEF Va
<1> QED BY <1>1, <1>12, <1>13, <1>14 DEF Booting

LEMMA BootNext ==
    ASSUME NEW m, NEW X, NEW n, NEW r, Booting(m, X, n), n \in 0..(SegPages - 1),
           m.free # <<>>, r = BootMapPage(m, n), r.ret # "fail"
    PROVE  Booting(r.m, X, n + 1)
<1>1. PICK pa, k, Y : pa = Head(m.free) /\ k = mm_alloc_physical(m) /\ Y = X \cup {pa}
  OBVIOUS
<1>2. r = mm_paging_map(k, n, pa, "PGPERM_KRW")
  BY <1>1 DEF BootMapPage
<1>3. Took(m, k, X, pa)
  BY <1>1, AllocLemma DEF Booting
<1>4. Good(k, Y) /\ pa \in Frame /\ pa \in Y /\ Y \ {pa} = X /\ SameAll(m, k)
  BY <1>1, <1>3 DEF Took
<1>5. n \in Va
  <2>1. PICK K : K = Radix * Radix * Radix /\ K \in Nat /\ SegPages <= K /\ SegPages \in Nat
    BY PagingConstants
  <2> QED BY <2>1 DEF Va
<1>6. n \in Nat
  BY <1>5 DEF Va
<1>7. Translate(k, n) = ZeroPte
  BY <1>4, <1>5, <1>6 DEF Booting, SameAll
<1>8. Mapped(k, Y, n, pa, r)
  BY <1>2, <1>4, <1>5, <1>7, MapLemma
<1>9. Good(r.m, X) /\ Translate(r.m, n) = Map(pa) /\ SameBut(k, r.m, n)
  BY <1>4, <1>8 DEF Mapped
<1>10. ASSUME NEW va \in Va
       PROVE  /\ va < n + 1 => \E f \in Frame : Translate(r.m, va) = Map(f)
              /\ va >= n + 1 => Translate(r.m, va) = ZeroPte
  <2>0. va \in Nat
    BY DEF Va
  <2>1. CASE va = n
    BY <1>4, <1>6, <1>9, <2>1
  <2>2. CASE va # n
    <3>1. Translate(r.m, va) = Translate(m, va)
      BY <1>4, <1>9, <2>2 DEF SameAll, SameBut
    <3>2. (va < n + 1 => va < n) /\ (va >= n + 1 => va >= n)
      BY <1>6, <2>0, <2>2
    <3> QED BY <3>1, <3>2 DEF Booting
  <2> QED BY <2>1, <2>2
<1> QED BY <1>9, <1>10 DEF Booting

LEMMA BootLast ==
    ASSUME NEW X, X = Unreserved
    PROVE  Booting(BootMemory[SegPages], X, SegPages)
<1>0. SegPages \in Nat
  BY PagingConstants
<1>1. PICK f : f = BootMemory
  OBVIOUS
<1>2. BootRun(f)
  BY <1>1, BootLoop
<1> DEFINE Loop(n) == Booting(f[n], X, n)
           S == {n \in Nat : n <= SegPages => Loop(n)}
<1>3. Loop(0)
  BY <1>2, BootFirst DEF BootRun
<1>4. ASSUME NEW n \in Nat, n < SegPages, Loop(n) PROVE Loop(n + 1)
  <2>1. n \in 0..(SegPages - 1)
    BY <1>0, <1>4
  <2>2. PICK m, r : m = f[n] /\ r = BootMapPage(m, n)
    OBVIOUS
  <2>3. m.free # <<>> /\ r.ret # "fail"
    BY <1>1, <2>1, <2>2, BootAssumption
  <2>4. f[n + 1] = r.m
    BY <1>2, <2>1, <2>2 DEF BootRun
  <2>5. Booting(m, X, n)
    BY <1>4, <2>2
  <2>6. Booting(r.m, X, n + 1)
    BY ONLY <2>1, <2>2, <2>3, <2>5, BootNext
  <2> QED BY <2>4, <2>6
<1>5. Loop(SegPages)
  <2> HIDE DEF Loop
  <2>1. 0 \in S
    BY <1>3
  <2>2. ASSUME NEW n \in Nat, n \in S PROVE n + 1 \in S
    <3>1. CASE n < SegPages
      <4>1. Loop(n)
        BY <1>0, <2>2, <3>1
      <4>2. Loop(n + 1)
        BY <1>4, <3>1, <4>1
      <4> QED BY <4>2
    <3>2. CASE ~(n < SegPages)
      BY <1>0, <3>2
    <3> QED BY <3>1, <3>2
  <2>3. SegPages \in S
    <3> HIDE DEF S
    <3> QED BY <1>0, <2>1, <2>2, SetInduction
  <2> QED BY <1>0, <2>3
<1> QED BY <1>1, <1>5

LEMMA InitInv ==
    ASSUME Init
    PROVE  IInv
<1>1. PICK m, X, E : m = BootMemory[SegPages] /\ X = Unreserved /\ E = {}
  OBVIOUS
<1>2. Booting(m, X, SegPages) /\ m.free = <<>>
  BY <1>1, BootLast, BootAssumption
<1>3. PICK lvl, par : Sound(m, lvl, par, X)
  BY <1>2 DEF Booting, Good
<1>4. /\ M = [mem |-> m.mem, free |-> FreeFrames] /\ vmas = {<<0, SegPages>>}
      /\ segments = {<<0, SegPages>>} /\ iomem = {} /\ tlb = <<>> /\ call = Idle /\ panic = "no"
  BY <1>1 DEF Init
<1>5. M.mem = m.mem /\ M.free = FreeFrames
  BY <1>4
<1>6. Good(M, {})
  <2>1. M \in MemType /\ Graph(M.mem, lvl, par)
    BY <1>3, <1>4, <1>5, FrameFacts DEF Sound, MemType
  <2>2. \A f \in Frame : lvl[f] = 4 <=> f \in X
    BY <1>2, <1>3 DEF Sound, FreeOK
  <2>3. \A f \in Frame : f \in X <=> \E i \in 1..Len(FreeFrames) : FreeFrames[i] = f
    BY <1>1 DEF Unreserved
  <2>4. FreeOK(FreeFrames, lvl, E)
    BY <1>1, <2>2, <2>3, FrameFacts DEF FreeOK
  <2> QED BY <1>1, <1>5, <2>1, <2>4 DEF Good, Sound
<1>7. \A va \in Va : Translate(M, va) = Translate(m, va)
  BY <1>5, SameMem DEF SameAll
<1>8. SegPages \in Nat /\ SegPages > 0 /\ SegPages - 1 \in Va /\ 0 \in Va
  <2>1. PICK K : /\ K = Radix * Radix * Radix /\ K \in Nat
                 /\ SegPages <= K /\ SegPages \in Nat /\ SegPages > 0
    BY PagingConstants
  <2> QED BY <2>1 DEF Va
<1>9. Owned
  BY <1>4, <1>8 DEF Owned, VmasOK, RangeOK, OwnersOK, CallOK
<1>10. ASSUME NEW va \in Va PROVE Covers(<<0, SegPages>>, va) <=> va < SegPages
  BY DEF Covers, Va
<1>11. SegmentsMapped
  BY <1>2, <1>4, <1>7, <1>10 DEF SegmentsMapped, Booting
<1>12. IoMapped
  BY <1>4 DEF IoMapped
<1>13. CallMapped
  BY <1>4, MappingIdle DEF CallMapped
<1>14. NothingElse
  <2>1. ASSUME NEW va \in Va, Translate(M, va) # ZeroPte PROVE Covers(<<0, SegPages>>, va)
    <3>1. ~(va >= SegPages)
      BY <1>2, <1>7, <2>1 DEF Booting
    <3> QED BY <1>8, <1>10, <3>1 DEF Va
  <2> QED BY <1>4, <2>1 DEF NothingElse
<1>15. TlbOK
  BY <1>4 DEF TlbOK
<1> QED BY <1>4, <1>6, <1>9, <1>11, <1>12, <1>13, <1>14, <1>15 DEF IInv, Content

-----------------------------------------------------------------------------
(* Every frame has one use.                                                *)

EntriesOf(mm, t) == {<<mm[t][i].ppn, <<t, i>>>> : i \in {j \in Idx : mm[t][j].valid}}

(* The valid entries of a table of level 2 or 3. *)
LEMMA LinkEntries ==
    ASSUME NEW mm, NEW lvl, NEW par, NEW t, Graph(mm, lvl, par), t \in Frame, lvl[t] \in 2..3
    PROVE  /\ \A r \in EntriesOf(mm, t) :
                 r[1] \in Frame /\ lvl[r[1]] = lvl[t] - 1 /\ r[2] = par[r[1]]
           /\ \A f \in Frame :
                 lvl[f] = lvl[t] - 1 /\ par[f][1] = t => <<f, par[f]>> \in EntriesOf(mm, t)
<1>1. ASSUME NEW r \in EntriesOf(mm, t)
      PROVE  r[1] \in Frame /\ lvl[r[1]] = lvl[t] - 1 /\ r[2] = par[r[1]]
  <2>1. PICK i \in Idx : mm[t][i].valid /\ r = <<mm[t][i].ppn, <<t, i>>>>
    BY DEF EntriesOf
  <2>2. EntryOK(mm[t][i], t, i, lvl, par)
    BY DEF Graph
  <2>3. mm[t][i] # ZeroPte
    BY <2>1, PteFacts
  <2>4. PICK f \in Frame : mm[t][i] = Link(f) /\ lvl[f] = lvl[t] - 1 /\ par[f] = <<t, i>>
    BY <2>2, <2>3 DEF EntryOK
  <2>5. mm[t][i].ppn = f
    BY <2>4, PteFacts
  <2>6. r[1] = f /\ r[2] = <<t, i>>
    BY <2>1, <2>5
  <2> QED BY <2>4, <2>6
<1>2. ASSUME NEW f \in Frame, lvl[f] = lvl[t] - 1, par[f][1] = t
      PROVE  <<f, par[f]>> \in EntriesOf(mm, t)
  <2>1. lvl[f] \in 0..2 /\ lvl[f] # 0
    BY <1>2
  <2>2. PICK u \in Frame, i \in Idx :
           /\ par[f] = <<u, i>> /\ mm[u][i] = IF lvl[f] = 0 THEN Map(f) ELSE Link(f)
    BY <2>1 DEF Graph, ParentOK
  <2>3. u = t /\ mm[t][i] = Link(f)
    BY <1>2, <2>1, <2>2
  <2>4. mm[t][i].valid /\ mm[t][i].ppn = f
    BY <2>3, PteFacts
  <2> QED BY <2>2, <2>3, <2>4 DEF EntriesOf
<1> QED BY <1>1, <1>2

(* The valid entries of a table of level 1. *)
LEMMA MapEntries ==
    ASSUME NEW mm, NEW lvl, NEW par, NEW t, Graph(mm, lvl, par), t \in Frame, lvl[t] = 1
    PROVE  /\ \A r \in EntriesOf(mm, t) :
                 \/ r[1] \in Frame /\ lvl[r[1]] = 0 /\ r[2] = par[r[1]]
                 \/ r[1] \in Device
           /\ \A f \in Frame : lvl[f] = 0 /\ par[f][1] = t => <<f, par[f]>> \in EntriesOf(mm, t)
<1>1. ASSUME NEW r \in EntriesOf(mm, t)
      PROVE  \/ r[1] \in Frame /\ lvl[r[1]] = 0 /\ r[2] = par[r[1]]
             \/ r[1] \in Device
  <2>1. PICK i \in Idx : mm[t][i].valid /\ r = <<mm[t][i].ppn, <<t, i>>>>
    BY DEF EntriesOf
  <2>2. EntryOK(mm[t][i], t, i, lvl, par)
    BY DEF Graph
  <2>3. mm[t][i] # ZeroPte
    BY <2>1, PteFacts
  <2>4. \/ \E f \in Frame : mm[t][i] = Map(f) /\ lvl[f] = 0 /\ par[f] = <<t, i>>
        \/ \E d \in Device : mm[t][i] = Map(d)
    BY <2>2, <2>3 DEF EntryOK
  <2>5. \A f \in Frame \cup Device : mm[t][i] = Map(f) => mm[t][i].ppn = f
    BY PteFacts
  <2>6. r[1] = mm[t][i].ppn /\ r[2] = <<t, i>>
    BY <2>1
  <2> QED BY <2>4, <2>5, <2>6
<1>2. ASSUME NEW f \in Frame, lvl[f] = 0, par[f][1] = t
      PROVE  <<f, par[f]>> \in EntriesOf(mm, t)
  <2>2. PICK u \in Frame, i \in Idx :
           /\ par[f] = <<u, i>> /\ mm[u][i] = IF lvl[f] = 0 THEN Map(f) ELSE Link(f)
    BY <1>2 DEF Graph, ParentOK
  <2>3. u = t /\ mm[t][i] = Map(f)
    BY <1>2, <2>2
  <2>4. mm[t][i].valid /\ mm[t][i].ppn = f
    BY <2>3, PteFacts
  <2> QED BY <2>2, <2>3, <2>4 DEF EntriesOf
<1> QED BY <1>1, <1>2

(* The table that points to a frame is one level above it. *)
LEMMA ParentLevel ==
    ASSUME NEW mm, NEW lvl, NEW par, NEW f, Graph(mm, lvl, par), f \in Frame, lvl[f] \in 0..2
    PROVE  par[f][1] \in Frame /\ lvl[par[f][1]] = lvl[f] + 1
<1>1. PICK t \in Frame, i \in Idx : par[f] = <<t, i>> /\ lvl[t] = lvl[f] + 1
  BY DEF Graph, ParentOK
<1> QED BY <1>1

LEMMA DistinctLen ==
    ASSUME NEW s, NEW S, s \in Seq(S), \A i, j \in 1..Len(s) : i # j => s[i] # s[j]
    PROVE  Cardinality({s[i] : i \in DOMAIN s}) = Len(s)
<1>1. PICK n, T : n = Len(s) /\ T = {s[i] : i \in DOMAIN s}
  OBVIOUS
<1>2. n \in Nat /\ DOMAIN s = 1..n
  BY <1>1
<1>3. s \in [1..n -> T] /\ \A x \in T : \E i \in 1..n : s[i] = x
  BY <1>1, <1>2
<1>4. s \in Bijection(1..n, T)
  BY <1>1, <1>2, <1>3 DEF Bijection, Injection, Surjection, IsInjective
<1>5. ExistsBijection(1..n, T)
  BY <1>4 DEF ExistsBijection
<1>6. Cardinality(T) = n
  BY ONLY <1>2, <1>5, FS_CountingElements
<1> QED BY <1>1, <1>6

LEMMA FramesLemma ==
    ASSUME IInv
    PROVE  FramesHaveOneUse
<1>1. PICK lvl, par : Sound(M, lvl, par, {})
  BY DEF IInv, Good
<1>2. PICK mm, list : mm = M.mem /\ list = M.free
  OBVIOUS
<1>3. Graph(mm, lvl, par) /\ FreeOK(list, lvl, {}) /\ lvl \in [Frame -> 0..4]
  BY <1>1, <1>2 DEF Sound, Graph
<1>4. PICK level1, level0, pages : /\ level1 = EntriesOf(mm, Root)
                                   /\ level0 = UNION {EntriesOf(mm, r[1]) : r \in level1}
                                   /\ pages = UNION {EntriesOf(mm, r[1]) : r \in level0}
  OBVIOUS
<1>5. References = [tables |-> level1 \cup level0, pages |-> pages]
  BY <1>2, <1>4 DEF References, EntriesOf
<1>6. Root \in Frame /\ lvl[Root] = 3 /\ \A f \in Frame : lvl[f] = 3 => f = Root
  BY <1>3, PagingConstants DEF Graph
<1>7. /\ \A r \in level1 : r[1] \in Frame /\ lvl[r[1]] = 2 /\ r[2] = par[r[1]]
      /\ \A f \in Frame : lvl[f] = 2 => <<f, par[f]>> \in level1
  <2>1. /\ \A r \in level1 : r[1] \in Frame /\ lvl[r[1]] = 2 /\ r[2] = par[r[1]]
        /\ \A f \in Frame : lvl[f] = 2 /\ par[f][1] = Root => <<f, par[f]>> \in level1
    BY <1>3, <1>4, <1>6, LinkEntries
  <2>2. ASSUME NEW f \in Frame, lvl[f] = 2 PROVE par[f][1] = Root
    BY <1>3, <1>6, <2>2, ParentLevel
  <2> QED BY <2>1, <2>2
<1>8. ASSUME NEW r \in level0 PROVE r[1] \in Frame /\ lvl[r[1]] = 1 /\ r[2] = par[r[1]]
  <2>1. PICK q \in level1 : r \in EntriesOf(mm, q[1])
    BY <1>4, <1>8
  <2>2. PICK t : t = q[1]
    OBVIOUS
  <2>3. t \in Frame /\ lvl[t] = 2 /\ lvl[t] \in 2..3
    BY <1>7, <2>1, <2>2
  <2> QED BY <1>3, <2>1, <2>2, <2>3, LinkEntries
<1>9. ASSUME NEW f \in Frame, lvl[f] = 1 PROVE <<f, par[f]>> \in level0
  <2>1. PICK t : t = par[f][1]
    OBVIOUS
  <2>2. t \in Frame /\ lvl[t] = 2 /\ lvl[t] \in 2..3
    BY <1>3, <1>9, <2>1, ParentLevel
  <2>3. <<f, par[f]>> \in EntriesOf(mm, t)
    BY <1>3, <1>9, <2>1, <2>2, LinkEntries
  <2>4. <<t, par[t]>> \in level1 /\ <<t, par[t]>>[1] = t
    BY <1>7, <2>2
  <2> QED BY <1>4, <2>3, <2>4
<1>10. ASSUME NEW r \in pages
       PROVE  (r[1] \in Frame /\ lvl[r[1]] = 0 /\ r[2] = par[r[1]]) \/ r[1] \in Device
  <2>1. PICK q \in level0 : r \in EntriesOf(mm, q[1])
    BY <1>4, <1>10
  <2>2. PICK t : t = q[1]
    OBVIOUS
  <2>3. t \in Frame /\ lvl[t] = 1
    BY <1>8, <2>1, <2>2
  <2> QED BY <1>3, <2>1, <2>2, <2>3, MapEntries
<1>11. ASSUME NEW f \in Frame, lvl[f] = 0 PROVE <<f, par[f]>> \in pages
  <2>1. PICK t : t = par[f][1]
    OBVIOUS
  <2>2. t \in Frame /\ lvl[t] = 1
    BY <1>3, <1>11, <2>1, ParentLevel
  <2>3. <<f, par[f]>> \in EntriesOf(mm, t)
    BY <1>3, <1>11, <2>1, <2>2, MapEntries
  <2>4. <<t, par[t]>> \in level0 /\ <<t, par[t]>>[1] = t
    BY <1>9, <2>2
  <2> QED BY <1>4, <2>3, <2>4
<1>12. PICK free, tables, mapped : /\ free = {list[i] : i \in DOMAIN list}
                                   /\ tables = {r[1] : r \in level1 \cup level0} \cup {Root}
                                   /\ mapped = {r[1] : r \in pages} \cap Frame
  OBVIOUS
<1>13. \A f \in Frame : f \in free <=> lvl[f] = 4
  <2>1. list \in Seq(Frame) /\ \A f \in Frame : lvl[f] = 4 <=> \E i \in 1..Len(list) : list[i] = f
    BY <1>3 DEF FreeOK
  <2>2. DOMAIN list = 1..Len(list)
    BY <2>1
  <2> QED BY <1>12, <2>1, <2>2
<1>14. free \subseteq Frame
  BY <1>3, <1>12 DEF FreeOK
<1>15. \A f \in Frame : f \in tables <=> lvl[f] \in 1..3
  <2>1. ASSUME NEW f \in Frame, f \in tables PROVE lvl[f] \in 1..3
    BY <1>6, <1>7, <1>8, <1>12, <2>1
  <2>2. ASSUME NEW f \in Frame, lvl[f] \in 1..3 PROVE f \in tables
    <3>1. CASE lvl[f] = 3
      BY <1>6, <1>12, <3>1
    <3>2. CASE lvl[f] \in 1..2
      <4>1. <<f, par[f]>> \in level1 \cup level0 /\ <<f, par[f]>>[1] = f
        BY <1>7, <1>9, <3>2
      <4> QED BY <1>12, <4>1
    <3> QED BY <2>2, <3>1, <3>2
  <2> QED BY <2>1, <2>2
<1>16. tables \subseteq Frame
  BY <1>6, <1>7, <1>8, <1>12
<1>17. \A f \in Frame : f \in mapped <=> lvl[f] = 0
  <2>1. ASSUME NEW f \in Frame, f \in mapped PROVE lvl[f] = 0
    BY <1>10, <1>12, <2>1, PagingConstants
  <2>2. ASSUME NEW f \in Frame, lvl[f] = 0 PROVE f \in mapped
    <3>1. <<f, par[f]>> \in pages /\ <<f, par[f]>>[1] = f
      BY <1>11, <2>2
    <3> QED BY <1>12, <3>1
  <2> QED BY <2>1, <2>2
<1>18. Cardinality(free) = Len(list)
  <2>1. list \in Seq(Frame) /\ \A i, j \in 1..Len(list) : i # j => list[i] # list[j]
    BY <1>3 DEF FreeOK
  <2> QED BY <1>12, <2>1, DistinctLen
<1>19. \A f \in Frame : lvl[f] \in 0..4
  BY <1>3
<1>20. free \cap tables = {} /\ free \cap mapped = {} /\ tables \cap mapped = {}
  BY <1>12, <1>13, <1>14, <1>15, <1>16, <1>17
<1>21. Frame = free \cup tables \cup mapped
  BY <1>12, <1>13, <1>14, <1>15, <1>16, <1>17, <1>19
<1>22. ASSUME NEW r1 \in (level1 \cup level0) \cup pages,
              NEW r2 \in (level1 \cup level0) \cup pages,
              r1[1] = r2[1], r1[1] \in Frame
       PROVE  r1[2] = r2[2]
  <2>1. Frame \cap Device = {}
    BY PagingConstants
  <2> QED BY <1>7, <1>8, <1>10, <1>22, <2>1
<1>23. References.tables = level1 \cup level0 /\ References.pages = pages
  BY <1>5
<1>24. /\ {M.free[i] : i \in DOMAIN M.free} = free /\ Len(M.free) = Len(list)
       /\ {r[1] : r \in References.tables} \cup {Root} = tables
       /\ {r[1] : r \in References.pages} \cap Frame = mapped
  BY <1>2, <1>12, <1>23
<1>25. \A r1, r2 \in References.tables \cup References.pages :
          (r1[1] = r2[1] /\ r1[1] \in Frame) => r1[2] = r2[2]
  BY <1>22, <1>23
<1>26. FramesHaveOneUse <=>
         (panic = "no" =>
          /\ Cardinality(free) = Len(list)
          /\ free \cap tables = {} /\ free \cap mapped = {} /\ tables \cap mapped = {}
          /\ Frame = free \cup tables \cup mapped
          /\ \A r1, r2 \in References.tables \cup References.pages :
                (r1[1] = r2[1] /\ r1[1] \in Frame) => r1[2] = r2[2])
  BY ONLY <1>24, Zenon DEF FramesHaveOneUse
<1> QED BY <1>18, <1>20, <1>21, <1>25, <1>26

-----------------------------------------------------------------------------
LEMMA TypeLemma ==
    ASSUME IInv
    PROVE  TypeOK
<1>1. M \in MemType
  BY DEF IInv, Good, Sound
<1>2. M.mem \in [Frame -> [Idx -> Pte]] /\ M.free \in Seq(Frame)
  BY <1>1 DEF MemType, Tables
<1>3. vmas \subseteq Va \X Nat /\ segments \subseteq Va \X Nat
  BY DEF IInv, Owned, VmasOK, RangeOK, OwnersOK
<1>4. \A i \in DOMAIN tlb : tlb[i] \in [va : Va, pte : Pte]
  BY TlbEntry DEF IInv, Entry
<1>5. call = Idle \/ call.va \in call.lo..call.hi
  BY DEF IInv, Owned, CallOK
<1>6. panic \in {"no", "assert", "out of memory"}
  BY DEF IInv
<1> QED BY <1>2, <1>3, <1>4, <1>5, <1>6 DEF TypeOK

LEMMA MappingsLemma ==
    ASSUME IInv
    PROVE  MappingsAreThoseAsked
<1>1. SegmentsMapped /\ IoMapped /\ NothingElse
  BY DEF IInv, Content
<1>2. ASSUME NEW va \in Va, NEW pte, pte = Translate(M, va)
      PROVE  IF \E s \in segments : Covers(s, va)
             THEN pte.ppn \in Frame /\ pte = Leaf(pte.ppn, "PGPERM_KRW")
             ELSE IF \E io \in iomem : Covers(IoRange(io), va)
             THEN \E io \in iomem :
                     /\ Covers(IoRange(io), va)
                     /\ pte = Leaf(align_down(io.addr) + (va - align_down(io.ptr)), "PGPERM_KRW")
             ELSE pte # Fault => Covers(Mapping, va)
  <2>1. CASE \E s \in segments : Covers(s, va)
    <3>1. PICK f \in Frame : pte = Map(f)
      BY <1>1, <1>2, <2>1 DEF SegmentsMapped
    <3>2. pte.ppn = f
      BY <3>1, PteFacts
    <3> QED BY <2>1, <3>1, <3>2 DEF Map
  <2>2. CASE /\ ~\E s \in segments : Covers(s, va)
             /\ \E io \in iomem : Covers(IoRange(io), va)
    BY <1>1, <1>2, <2>2 DEF IoMapped, Map
  <2>3. CASE /\ ~\E s \in segments : Covers(s, va)
             /\ ~\E io \in iomem : Covers(IoRange(io), va)
    BY <1>1, <1>2, <2>3 DEF NothingElse, Fault
  <2> QED BY <2>1, <2>2, <2>3
<1> QED BY <1>2 DEF MappingsAreThoseAsked

LEMMA RegionsLemma ==
    ASSUME IInv
    PROVE  RegionsAreCovered
<1>1. IoMapped /\ OwnersOK /\ VmasOK
  BY DEF IInv, Content, Owned
<1>2. ASSUME NEW io \in iomem, NEW first, NEW last, NEW lo, first = align_down(io.addr),
             last = align_down(io.addr + io.size - 1), lo = align_down(io.ptr),
             NEW p \in first..last
      PROVE  Translate(M, lo + (p - first)).ppn = p
  <2>1. PICK n, r : n = IoPages(io.addr, io.size) /\ r = <<io.addr, io.size>>
    OBVIOUS
  <2>2. r \in Regions /\ r[1] = io.addr /\ r[2] = io.size
    BY <1>1, <2>1 DEF OwnersOK, IoOK
  <2>3. n \in Nat /\ n > 0 /\ first \in Nat /\ last = first + n - 1
    BY <1>2, <2>1, <2>2, IoFacts
  <2>4. IoRange(io) = <<lo, lo + n>> /\ RangeOK(IoRange(io))
    BY <1>1, <1>2, <2>1 DEF OwnersOK, VmasOK, IoRange
  <2>5. lo \in Nat /\ lo + n - 1 \in Va
    <3>1. PICK q, e : q = IoRange(io) /\ e = lo + n
      OBVIOUS
    <3>2. q = <<lo, e>> /\ q \in Va \X Nat /\ q[2] - 1 \in Va
      BY <2>4, <3>1 DEF RangeOK
    <3>3. lo \in Va /\ e - 1 \in Va
      BY <3>2
    <3>4. lo \in Nat
      BY <3>3 DEF Va
    <3>5. e \in Nat /\ e - 1 = lo + n - 1
      BY <2>3, <3>1, <3>4
    <3> QED BY ONLY <3>3, <3>4, <3>5
  <2>6. PICK u : u = lo + (p - first)
    OBVIOUS
  <2>7. u \in Nat /\ lo <= u /\ u <= lo + n - 1 /\ p \in Nat /\ first + (u - lo) = p
    BY <2>3, <2>5, <2>6
  <2>8. u \in Va
    <3>1. PICK K : K = Radix * Radix * Radix /\ K \in Nat
      BY PagingConstants
    <3> QED BY <2>3, <2>5, <2>7, <3>1 DEF Va
  <2>9. Covers(IoRange(io), u)
    BY <2>3, <2>4, <2>5, <2>7 DEF Covers
  <2>10. Translate(M, u) = Map(first + (u - lo))
    BY <1>1, <1>2, <2>8, <2>9 DEF IoMapped
  <2>11. first + (u - lo) \in Device
    <3>1. IoOK(io) /\ IoRange(io)[1] \in Nat
      BY <1>1, <2>4, <2>5 DEF OwnersOK
    <3> QED BY <1>2, <2>7, <2>9, <3>1, IoDevice
  <2>12. Map(p).ppn = p
    BY <2>7, <2>11, PteFacts
  <2> QED BY <2>6, <2>7, <2>10, <2>12
<1> QED BY <1>2 DEF RegionsAreCovered

LEMMA FencesLemma ==
    ASSUME IInv
    PROVE  FencesAreInTime
<1>1. \A i \in DOMAIN tlb : Fresh(tlb[i])
  BY DEF IInv, TlbOK
<1>2. NoStaleFrames
  BY <1>1 DEF Fresh, NoStaleFrames
<1>3. SegmentsHaveTakenEffect
  BY <1>1 DEF Fresh, SegmentsHaveTakenEffect
<1> QED BY <1>2, <1>3 DEF FencesAreInTime

(* The tables are a tree below Root, the free list and the tree share the  *)
(* frames, the VMAs are apart and each has one owner, what an access finds *)
(* is what the owner of the address has mapped, and the TLB is not stale   *)
(* where it matters: for every size of the tables, of the segments and of  *)
(* the TLB, whichever calls of mm_paging_map fail.                         *)
THEOREM Invariance == Spec => []IInv
<1>1. Init => IInv
  BY InitInv
<1>2. IInv /\ [Next]_vars => IInv'
  BY NextInv
<1> QED BY <1>1, <1>2, PTL DEF Spec

(* The state of paging.c and of its two users has its types. *)
THEOREM TypeCorrect == Spec => []TypeOK
<1>1. IInv => TypeOK
  BY TypeLemma
<1> QED BY <1>1, Invariance, PTL

(* Every frame of RAM is free, or a table that one entry points to, or     *)
(* mapped at one address: mm_paging_walk, segment_alloc and segment_free   *)
(* lose no frame, and give none to two users.                              *)
THEOREM OneUse == Spec => []FramesHaveOneUse
<1>1. IInv => FramesHaveOneUse
  BY FramesLemma
<1> QED BY <1>1, Invariance, PTL

(* The hardware finds at each address what segment_alloc or iomem_map has  *)
(* asked for there, and nothing where nothing was asked for.               *)
THEOREM Mappings == Spec => []MappingsAreThoseAsked
<1>1. IInv => MappingsAreThoseAsked
  BY MappingsLemma
<1> QED BY <1>1, Invariance, PTL

(* iomem_map covers every byte of the region, wherever in a page it starts *)
(* and ends.                                                               *)
THEOREM Covered == Spec => []RegionsAreCovered
<1>1. IInv => RegionsAreCovered
  BY RegionsLemma
<1> QED BY <1>1, Invariance, PTL

(* The asserts of mm_paging_map, segment_free and iomem_unmap hold. *)
THEOREM AssertsHold == Spec => []NoAssertFails
<1>1. IInv => NoAssertFails
  BY DEF IInv, NoAssertFails
<1> QED BY <1>1, Invariance, PTL

(* No translation that the hart has kept leads to a frame that was given   *)
(* to somebody else, although segment_free gives frames back before        *)
(* mm_paging_fence; and a segment can be used when segment_alloc returns.  *)
THEOREM InTime == Spec => []FencesAreInTime
<1>1. IInv => FencesAreInTime
  BY FencesLemma
<1> QED BY <1>1, Invariance, PTL
=============================================================================
