------------------------- MODULE QuerySessionProofs -------------------------
(***************************************************************************)
(* Theorems about filters of any depth and about a session with any texts, *)
(* documents and pagings.                                                  *)
(***************************************************************************)
EXTENDS QuerySession, FiniteSetTheorems, FunctionTheorems, SequenceTheorems,
        WellFoundedInduction, TLAPS

-----------------------------------------------------------------------------
(* Filters are built in layers, and what holds of leaves and passes from   *)
(* kids to their filter holds of all.                                      *)

\* What holds of 0 and passes from each number to the next holds up to any m.
LEMMA CountingUp ==
  ASSUME NEW m \in Nat, NEW T,
         0 \in T,
         \A n \in Nat : n < m /\ n \in T => n + 1 \in T
  PROVE  0..m \subseteq T
<1> DEFINE R == OpToRel(<, Nat)
           Out == {n \in 0..m : n \notin T}
<1>1. IsWellFoundedOn(R, Nat)
  BY NatLessThanWellFounded
<1>2. \A x, y \in Nat : <<x, y>> \in R <=> x < y
  BY DEF OpToRel
<1> HIDE DEF R
<1>3. SUFFICES ASSUME Out # {} PROVE FALSE
  OBVIOUS
<1>4. Out \subseteq Nat
  OBVIOUS
<1>5. PICK x \in Out : \A y \in Out : ~(<<y, x>> \in R)
  BY <1>1, <1>3, <1>4, WFMin
<1>6. x \in 0..m /\ x # 0 /\ x \notin T
  BY <1>5
<1>7. x - 1 \in Nat /\ x - 1 < m /\ x - 1 < x /\ x - 1 \in 0..m /\ (x - 1) + 1 = x
  BY <1>6
<1>8. x - 1 \notin Out
  BY <1>2, <1>4, <1>5, <1>7
<1> QED BY <1>6, <1>7, <1>8

\* The layers are what their definition says (there is one that says it of itself).
LEMMA FilterExprToDef ==
  \A n \in 0..MaxDepth :
    FilterExprTo[n] = IF n = 0 THEN Leaves ELSE FilterExprTo[n - 1] \cup Branches(FilterExprTo[n - 1])
<1> DEFINE Body(g, n) == IF n = 0 THEN Leaves ELSE g[n - 1] \cup Branches(g[n - 1])
           Reached == {m \in 0..MaxDepth : \E g : \A n \in 0..m : g[n] = Body(g, n)}
<1>1. 0 \in Reached
  <2> DEFINE g == [n \in {0} |-> Leaves]
  <2>1. \A n \in 0..0 : g[n] = Body(g, n)
    OBVIOUS
  <2> HIDE DEF Body, g
  <2> QED BY <2>1, MaxDepthAssumption
<1>2. ASSUME NEW m \in Nat, m < MaxDepth, m \in Reached
      PROVE  m + 1 \in Reached
  <2>1. PICK g : \A n \in 0..m : g[n] = Body(g, n)
    BY <1>2
  <2> DEFINE h == [n \in 0..(m + 1) |-> Body(g, n)]
  <2>2. \A n \in 0..m : h[n] = g[n]
    <3> HIDE DEF Body
    <3> QED BY <2>1
  <2>3. \A n \in 0..(m + 1) : h[n] = Body(h, n)
    <3> SUFFICES ASSUME NEW n \in 0..(m + 1) PROVE h[n] = Body(h, n)
      OBVIOUS
    <3>1. n # 0 => n - 1 \in 0..m
      OBVIOUS
    <3>2. n # 0 => h[n - 1] = g[n - 1]
      BY <2>2, <3>1
    <3>3. h[n] = Body(g, n)
      OBVIOUS
    <3> HIDE DEF h
    <3> QED BY <3>2, <3>3
  <2>4. m + 1 \in 0..MaxDepth
    BY <1>2, MaxDepthAssumption
  <2> HIDE DEF Body, h
  <2> QED BY <2>3, <2>4
<1>3. MaxDepth \in Reached
  <2> HIDE DEF Reached
  <2>1. 0..MaxDepth \subseteq Reached
    BY <1>1, <1>2, CountingUp, MaxDepthAssumption
  <2> QED BY <2>1, MaxDepthAssumption
<1>4. PICK g : \A n \in 0..MaxDepth : g[n] = Body(g, n)
  BY <1>3
<1> DEFINE h == [n \in 0..MaxDepth |-> g[n]]
<1>5. \A n \in 0..MaxDepth : n # 0 => n - 1 \in 0..MaxDepth
  BY MaxDepthAssumption
<1>6. h = [n \in 0..MaxDepth |-> Body(h, n)]
  <2>1. \A n \in 0..MaxDepth : Body(h, n) = g[n]
    BY <1>4, <1>5
  <2> HIDE DEF Body
  <2> QED BY <2>1
<1>7. FilterExprTo = CHOOSE f : f = [n \in 0..MaxDepth |-> Body(f, n)]
  BY DEF FilterExprTo
<1> HIDE DEF Body, h
<1>8. FilterExprTo = [n \in 0..MaxDepth |-> Body(FilterExprTo, n)]
  BY <1>6, <1>7
<1>9. \A n \in 0..MaxDepth : FilterExprTo[n] = Body(FilterExprTo, n)
  BY <1>8
<1> QED BY <1>9 DEF Body

LEMMA LeafFacts ==
  ASSUME NEW c \in Leaves
  PROVE  /\ Conditional(c) /\ c.kind \in Comparing \cup Listing \cup {"ac"}
         /\ c.field \in Characters /\ c.values \in Seq(Operands)
         /\ c.kind \in Listing \/ Len(c.values) = 1
         /\ c = Condition(c.kind, c.field, c.values)
BY DEF Leaves, Conditional, Condition, Comparing, Listing

LEMMA BranchFacts ==
  ASSUME NEW S, NEW f \in Branches(S)
  PROVE  /\ ~Conditional(f) /\ f.kind \in {"and", "or"} /\ f.kids \in Seq(S)
         /\ f = Node(f.kind, f.kids)
BY DEF Branches, Conditional, Node

LEMMA NodeIsBranch ==
  ASSUME NEW S, NEW kind \in {"and", "or"}, NEW kids \in Seq(S)
  PROVE  /\ Node(kind, kids) \in Branches(S) /\ ~Conditional(Node(kind, kids))
         /\ Node(kind, kids).kind = kind /\ Node(kind, kids).kids = kids
BY DEF Branches, Conditional, Node

LEMMA LowestLayer == 0 \in 0..MaxDepth /\ FilterExprTo[0] = Leaves
<1>1. 0 \in 0..MaxDepth
  BY MaxDepthAssumption
<1> QED BY <1>1, FilterExprToDef

\* A filter of a layer is a leaf, or a branch with kids of the layer below.
LEMMA LayerFacts ==
  ASSUME NEW n \in 0..MaxDepth, NEW f \in FilterExprTo[n]
  PROVE  \/ f \in Leaves
         \/ n # 0 /\ f \in Branches(FilterExprTo[n - 1])
<1> DEFINE Fact(k, g) == g \in Leaves \/ (k # 0 /\ g \in Branches(FilterExprTo[k - 1]))
           T == {k \in 0..MaxDepth : \A g \in FilterExprTo[k] : Fact(k, g)}
<1>1. 0 \in T
  BY LowestLayer
<1>2. ASSUME NEW k \in Nat, k < MaxDepth, k \in T
      PROVE  k + 1 \in T
  <2>1. k + 1 \in 0..MaxDepth /\ k + 1 # 0 /\ (k + 1) - 1 = k /\ k \in 0..MaxDepth
    BY <1>2, MaxDepthAssumption
  <2>2. FilterExprTo[k + 1] = FilterExprTo[k] \cup Branches(FilterExprTo[k])
    BY <2>1, FilterExprToDef
  <2>3. k # 0 => Branches(FilterExprTo[k - 1]) \subseteq Branches(FilterExprTo[k])
    <3>1. k # 0 => FilterExprTo[k - 1] \subseteq FilterExprTo[k]
      BY <2>1, FilterExprToDef
    <3>2. \A A, B : A \subseteq B => Branches(A) \subseteq Branches(B)
      <4> SUFFICES ASSUME NEW A, NEW B, A \subseteq B PROVE Branches(A) \subseteq Branches(B)
        OBVIOUS
      <4>1. Seq(A) \subseteq Seq(B)
        OBVIOUS
      <4> QED BY <4>1 DEF Branches
    <3> QED BY <3>1, <3>2
  <2>4. \A g \in FilterExprTo[k + 1] : g \in Leaves \/ g \in Branches(FilterExprTo[k])
    BY <1>2, <2>2, <2>3
  <2> QED BY <2>1, <2>4
<1>3. n \in T
  <2> HIDE DEF T
  <2> QED BY <1>1, <1>2, CountingUp, MaxDepthAssumption
<1> QED BY <1>3

LEMMA LayerIsFilter ==
  ASSUME NEW n \in 0..MaxDepth
  PROVE  FilterExprTo[n] \subseteq FilterExpr
<1> DEFINE T == {k \in 0..MaxDepth : FilterExprTo[MaxDepth - k] \subseteq FilterExpr}
<1>1. 0 \in T
  BY MaxDepthAssumption DEF FilterExpr
<1>2. ASSUME NEW k \in Nat, k < MaxDepth, k \in T
      PROVE  k + 1 \in T
  <2> DEFINE m == MaxDepth - k
  <2>1. m \in 0..MaxDepth /\ m # 0 /\ MaxDepth - (k + 1) = m - 1 /\ k + 1 \in 0..MaxDepth
    BY <1>2, MaxDepthAssumption
  <2>2. FilterExprTo[m - 1] \subseteq FilterExprTo[m]
    BY <2>1, FilterExprToDef
  <2> QED BY <1>2, <2>1, <2>2
<1>3. MaxDepth - n \in T
  <2> HIDE DEF T
  <2> QED BY <1>1, <1>2, CountingUp, MaxDepthAssumption
<1> QED BY <1>3, MaxDepthAssumption

LEMMA LeafIsFilter == Leaves \subseteq FilterExpr
BY LayerIsFilter, LowestLayer

LEMMA FilterFacts ==
  ASSUME NEW f \in FilterExpr
  PROVE  \/ f \in Leaves /\ Conditional(f)
         \/ f \in Branches(FilterExpr) /\ ~Conditional(f)
<1>1. CASE f \in Leaves
  BY <1>1, LeafFacts
<1>2. CASE f \notin Leaves
  <2>1. MaxDepth # 0 /\ f \in Branches(FilterExprTo[MaxDepth - 1])
    BY <1>2, LayerFacts, MaxDepthAssumption DEF FilterExpr
  <2>2. FilterExprTo[MaxDepth - 1] \subseteq FilterExpr
    BY <2>1, LayerIsFilter, MaxDepthAssumption
  <2>3. Seq(FilterExprTo[MaxDepth - 1]) \subseteq Seq(FilterExpr)
    BY <2>2
  <2>4. f \in Branches(FilterExpr)
    BY <2>1, <2>3 DEF Branches
  <2> QED BY <2>4, BranchFacts
<1> QED BY <1>1, <1>2

LEMMA LayerHolds ==
  ASSUME NEW n \in 0..MaxDepth
  PROVE  /\ Leaves \subseteq FilterExprTo[n]
         /\ n < MaxDepth => Branches(FilterExprTo[n]) \subseteq FilterExprTo[n + 1]
<1> DEFINE T == {k \in 0..MaxDepth : Leaves \subseteq FilterExprTo[k]}
<1>1. 0 \in T
  BY LowestLayer
<1>2. ASSUME NEW k \in Nat, k < MaxDepth, k \in T
      PROVE  k + 1 \in T
  <2>1. k + 1 \in 0..MaxDepth /\ k + 1 # 0 /\ (k + 1) - 1 = k
    BY <1>2, MaxDepthAssumption
  <2> QED BY <1>2, <2>1, FilterExprToDef
<1>3. n \in T
  <2> HIDE DEF T
  <2> QED BY <1>1, <1>2, CountingUp, MaxDepthAssumption
<1>4. ASSUME n < MaxDepth
      PROVE  Branches(FilterExprTo[n]) \subseteq FilterExprTo[n + 1]
  <2>1. n + 1 \in 0..MaxDepth /\ n + 1 # 0 /\ (n + 1) - 1 = n
    BY <1>4, MaxDepthAssumption
  <2> QED BY <2>1, FilterExprToDef
<1> QED BY <1>3, <1>4

\* The same by layers: what holds of leaves in each layer, and passes from one
\* layer to the filters above it.
LEMMA LayerInduction ==
  ASSUME NEW P,
         \A n \in 0..MaxDepth : \A f \in Leaves : <<n, f>> \in P,
         \A n \in 0..MaxDepth :
           n < MaxDepth => \A f \in Branches(FilterExprTo[n]) :
             (\A i \in DOMAIN f.kids : f.kids[i] \in FilterExprTo[n] /\ <<n, f.kids[i]>> \in P)
               => <<n + 1, f>> \in P
  PROVE  \A n \in 0..MaxDepth : \A f \in FilterExprTo[n] : <<n, f>> \in P
<1> DEFINE Done == {n \in 0..MaxDepth : \A f \in FilterExprTo[n] : <<n, f>> \in P}
<1>1. 0 \in Done
  BY LowestLayer
<1>2. ASSUME NEW n \in Nat, n < MaxDepth, n \in Done
      PROVE  n + 1 \in Done
  <2>1. n \in 0..MaxDepth /\ n + 1 \in 0..MaxDepth /\ (n + 1) - 1 = n
    BY <1>2, MaxDepthAssumption
  <2>2. ASSUME NEW f \in FilterExprTo[n + 1], f \notin Leaves
        PROVE  <<n + 1, f>> \in P
    <3>1. f \in Branches(FilterExprTo[n])
      BY <2>1, <2>2, LayerFacts
    <3>2. \A i \in DOMAIN f.kids : f.kids[i] \in FilterExprTo[n] /\ <<n, f.kids[i]>> \in P
      BY <1>2, <3>1, BranchFacts
    <3> QED BY <1>2, <2>1, <3>1, <3>2
  <2> QED BY <2>1, <2>2
<1>3. 0..MaxDepth \subseteq Done
  <2> HIDE DEF Done
  <2> QED BY <1>1, <1>2, CountingUp, MaxDepthAssumption
<1> QED BY <1>3

\* What holds of leaves and passes from kids to their filter holds of all.
LEMMA FilterInduction ==
  ASSUME NEW T,
         Leaves \subseteq T,
         \A f \in FilterExpr :
           f \in Branches(FilterExpr) /\ (\A i \in DOMAIN f.kids : f.kids[i] \in T) => f \in T
  PROVE  FilterExpr \subseteq T
<1> DEFINE Done == {n \in 0..MaxDepth : FilterExprTo[n] \subseteq T}
<1>1. 0 \in Done
  BY LowestLayer
<1>2. ASSUME NEW n \in Nat, n < MaxDepth, n \in Done
      PROVE  n + 1 \in Done
  <2>1. n + 1 \in 0..MaxDepth /\ (n + 1) - 1 = n
    BY <1>2, MaxDepthAssumption
  <2>2. ASSUME NEW f \in FilterExprTo[n + 1], f \notin Leaves
        PROVE  f \in T
    <3>1. f \in Branches(FilterExprTo[n])
      BY <2>1, <2>2, LayerFacts
    <3>2. f \in FilterExpr
      BY <2>1, LayerIsFilter
    <3>3. f \in Branches(FilterExpr)
      BY <2>2, <3>2, FilterFacts
    <3>4. \A i \in DOMAIN f.kids : f.kids[i] \in T
      BY <1>2, <3>1, BranchFacts
    <3> QED BY <3>2, <3>3, <3>4
  <2> QED BY <2>1, <2>2
<1>3. MaxDepth \in Done
  <2> HIDE DEF Done
  <2> QED BY <1>1, <1>2, CountingUp, MaxDepthAssumption
<1> QED BY <1>3 DEF FilterExpr

LEMMA RewriteDef ==
  \A f \in FilterExpr :
    Rewrite[f] = IF Conditional(f) THEN RewriteLeaf(f) ELSE Node(f.kind, [i \in DOMAIN f.kids |-> Rewrite[f.kids[i]]])
<1> DEFINE Body(g, f) ==
             IF Conditional(f) THEN RewriteLeaf(f) ELSE Node(f.kind, [i \in DOMAIN f.kids |-> g[f.kids[i]]])
           Reached == {n \in 0..MaxDepth : \E g : \A f \in FilterExprTo[n] : g[f] = Body(g, f)}
<1>1. ASSUME NEW f, NEW g, NEW h, \A i \in DOMAIN f.kids : g[f.kids[i]] = h[f.kids[i]]
      PROVE  Body(g, f) = Body(h, f)
  BY <1>1
<1>2. ASSUME NEW f, NEW g, NEW h, f \in Leaves
      PROVE  Body(g, f) = Body(h, f)
  BY <1>2, LeafFacts
<1> HIDE DEF Body
<1>3. 0 \in Reached
  <2> DEFINE g == [f \in Leaves |-> Body(f, f)]
  <2>1. \A f \in Leaves : g[f] = Body(g, f)
    BY <1>2
  <2> QED BY <2>1, LowestLayer
<1>4. ASSUME NEW n \in Nat, n < MaxDepth, n \in Reached
      PROVE  n + 1 \in Reached
  <2>1. PICK g : \A f \in FilterExprTo[n] : g[f] = Body(g, f)
    BY <1>4
  <2>2. n \in 0..MaxDepth /\ n + 1 \in 0..MaxDepth /\ n + 1 # 0 /\ (n + 1) - 1 = n
    BY <1>4, MaxDepthAssumption
  <2> DEFINE h == [f \in FilterExprTo[n + 1] |-> Body(g, f)]
  <2>3. FilterExprTo[n] \subseteq FilterExprTo[n + 1]
    BY <2>2, FilterExprToDef
  <2>4. \A f \in FilterExprTo[n] : h[f] = g[f]
    BY <2>1, <2>3
  <2>5. ASSUME NEW f \in FilterExprTo[n + 1]
        PROVE  h[f] = Body(h, f)
    <3>1. h[f] = Body(g, f)
      OBVIOUS
    <3> HIDE DEF h
    <3>2. CASE f \in Leaves
      BY <1>2, <3>1, <3>2
    <3>3. CASE f \in Branches(FilterExprTo[n])
      <4>1. \A i \in DOMAIN f.kids : f.kids[i] \in FilterExprTo[n]
        BY <3>3, BranchFacts
      <4> QED BY <1>1, <2>4, <3>1, <4>1
    <3> QED BY <2>2, <3>2, <3>3, LayerFacts
  <2> HIDE DEF h
  <2> QED BY <2>2, <2>5
<1>5. PICK g : \A f \in FilterExpr : g[f] = Body(g, f)
  <2> HIDE DEF Reached
  <2>1. MaxDepth \in Reached
    BY <1>3, <1>4, CountingUp, MaxDepthAssumption
  <2> QED BY <2>1 DEF Reached, FilterExpr
<1> DEFINE h == [f \in FilterExpr |-> g[f]]
<1>6. h = [f \in FilterExpr |-> Body(h, f)]
  <2>1. ASSUME NEW f \in FilterExpr
        PROVE  Body(h, f) = g[f]
    <3>1. CASE f \in Leaves
      BY <1>2, <1>5, <3>1
    <3>2. CASE f \in Branches(FilterExpr)
      <4>1. \A i \in DOMAIN f.kids : h[f.kids[i]] = g[f.kids[i]]
        BY <3>2, BranchFacts
      <4> HIDE DEF h
      <4> QED BY <1>1, <1>5, <4>1
    <3> QED BY <3>1, <3>2, FilterFacts
  <2> QED BY <2>1
<1>7. Rewrite = CHOOSE g_1 : g_1 = [f \in FilterExpr |-> Body(g_1, f)]
  BY DEF Rewrite, Body
<1> HIDE DEF h
<1>8. Rewrite = [f \in FilterExpr |-> Body(Rewrite, f)]
  BY <1>6, <1>7
<1> QED BY <1>8 DEF Body

LEMMA PlacedDef ==
  \A f \in FilterExpr :
    Placed[f] = IF Conditional(f) THEN {[at |-> << >>, leaf |-> f]}
           ELSE UNION {{[at |-> <<i, p.at>>, leaf |-> p.leaf] : p \in Placed[f.kids[i]]} : i \in DOMAIN f.kids}
<1> DEFINE Body(g, f) ==
             IF Conditional(f) THEN {[at |-> << >>, leaf |-> f]}
           ELSE UNION {{[at |-> <<i, p.at>>, leaf |-> p.leaf] : p \in g[f.kids[i]]} : i \in DOMAIN f.kids}
           Reached == {n \in 0..MaxDepth : \E g : \A f \in FilterExprTo[n] : g[f] = Body(g, f)}
<1>1. ASSUME NEW f, NEW g, NEW h, \A i \in DOMAIN f.kids : g[f.kids[i]] = h[f.kids[i]]
      PROVE  Body(g, f) = Body(h, f)
  <2> DEFINE Below(k, i) == {[at |-> <<i, p.at>>, leaf |-> p.leaf] : p \in k[f.kids[i]]}
  <2>1. \A i \in DOMAIN f.kids : Below(g, i) = Below(h, i)
    BY <1>1
  <2>2. \A k : Body(k, f) = IF Conditional(f) THEN {[at |-> << >>, leaf |-> f]}
                           ELSE UNION {Below(k, i) : i \in DOMAIN f.kids}
    OBVIOUS
  <2> HIDE DEF Below, Body
  <2>3. {Below(g, i) : i \in DOMAIN f.kids} = {Below(h, i) : i \in DOMAIN f.kids}
    BY <2>1
  <2> QED BY <2>2, <2>3
<1>2. ASSUME NEW f, NEW g, NEW h, f \in Leaves
      PROVE  Body(g, f) = Body(h, f)
  BY <1>2, LeafFacts
<1> HIDE DEF Body
<1>3. 0 \in Reached
  <2> DEFINE g == [f \in Leaves |-> Body(f, f)]
  <2>1. \A f \in Leaves : g[f] = Body(g, f)
    BY <1>2
  <2> QED BY <2>1, LowestLayer
<1>4. ASSUME NEW n \in Nat, n < MaxDepth, n \in Reached
      PROVE  n + 1 \in Reached
  <2>1. PICK g : \A f \in FilterExprTo[n] : g[f] = Body(g, f)
    BY <1>4
  <2>2. n \in 0..MaxDepth /\ n + 1 \in 0..MaxDepth /\ n + 1 # 0 /\ (n + 1) - 1 = n
    BY <1>4, MaxDepthAssumption
  <2> DEFINE h == [f \in FilterExprTo[n + 1] |-> Body(g, f)]
  <2>3. FilterExprTo[n] \subseteq FilterExprTo[n + 1]
    BY <2>2, FilterExprToDef
  <2>4. \A f \in FilterExprTo[n] : h[f] = g[f]
    BY <2>1, <2>3
  <2>5. ASSUME NEW f \in FilterExprTo[n + 1]
        PROVE  h[f] = Body(h, f)
    <3>1. h[f] = Body(g, f)
      OBVIOUS
    <3> HIDE DEF h
    <3>2. CASE f \in Leaves
      BY <1>2, <3>1, <3>2
    <3>3. CASE f \in Branches(FilterExprTo[n])
      <4>1. \A i \in DOMAIN f.kids : f.kids[i] \in FilterExprTo[n]
        BY <3>3, BranchFacts
      <4> QED BY <1>1, <2>4, <3>1, <4>1
    <3> QED BY <2>2, <3>2, <3>3, LayerFacts
  <2> HIDE DEF h
  <2> QED BY <2>2, <2>5
<1>5. PICK g : \A f \in FilterExpr : g[f] = Body(g, f)
  <2> HIDE DEF Reached
  <2>1. MaxDepth \in Reached
    BY <1>3, <1>4, CountingUp, MaxDepthAssumption
  <2> QED BY <2>1 DEF Reached, FilterExpr
<1> DEFINE h == [f \in FilterExpr |-> g[f]]
<1>6. h = [f \in FilterExpr |-> Body(h, f)]
  <2>1. ASSUME NEW f \in FilterExpr
        PROVE  Body(h, f) = g[f]
    <3>1. CASE f \in Leaves
      BY <1>2, <1>5, <3>1
    <3>2. CASE f \in Branches(FilterExpr)
      <4>1. \A i \in DOMAIN f.kids : h[f.kids[i]] = g[f.kids[i]]
        BY <3>2, BranchFacts
      <4> HIDE DEF h
      <4> QED BY <1>1, <1>5, <4>1
    <3> QED BY <3>1, <3>2, FilterFacts
  <2> QED BY <2>1
<1>7. Placed = CHOOSE g_1 : g_1 = [f \in FilterExpr |-> Body(g_1, f)]
  BY DEF Placed, Body
<1> HIDE DEF h
<1>8. Placed = [f \in FilterExpr |-> Body(Placed, f)]
  BY <1>6, <1>7
<1> QED BY <1>8 DEF Body

LEMMA ReorderedDef ==
  \A f \in FilterExpr :
    Reordered[f] = IF Conditional(f) THEN {Condition(f.kind, f.field, v) : v \in Shuffled(f.values)}
           ELSE {Node(f.kind, k) :
                   k \in UNION {Shuffled(kids) : kids \in OneOfEach([i \in DOMAIN f.kids |-> Reordered[f.kids[i]]])}}
<1> DEFINE Body(g, f) ==
             IF Conditional(f) THEN {Condition(f.kind, f.field, v) : v \in Shuffled(f.values)}
           ELSE {Node(f.kind, k) :
                   k \in UNION {Shuffled(kids) : kids \in OneOfEach([i \in DOMAIN f.kids |-> g[f.kids[i]]])}}
           Reached == {n \in 0..MaxDepth : \E g : \A f \in FilterExprTo[n] : g[f] = Body(g, f)}
<1>1. ASSUME NEW f, NEW g, NEW h, \A i \in DOMAIN f.kids : g[f.kids[i]] = h[f.kids[i]]
      PROVE  Body(g, f) = Body(h, f)
  BY <1>1
<1>2. ASSUME NEW f, NEW g, NEW h, f \in Leaves
      PROVE  Body(g, f) = Body(h, f)
  BY <1>2, LeafFacts
<1> HIDE DEF Body
<1>3. 0 \in Reached
  <2> DEFINE g == [f \in Leaves |-> Body(f, f)]
  <2>1. \A f \in Leaves : g[f] = Body(g, f)
    BY <1>2
  <2> QED BY <2>1, LowestLayer
<1>4. ASSUME NEW n \in Nat, n < MaxDepth, n \in Reached
      PROVE  n + 1 \in Reached
  <2>1. PICK g : \A f \in FilterExprTo[n] : g[f] = Body(g, f)
    BY <1>4
  <2>2. n \in 0..MaxDepth /\ n + 1 \in 0..MaxDepth /\ n + 1 # 0 /\ (n + 1) - 1 = n
    BY <1>4, MaxDepthAssumption
  <2> DEFINE h == [f \in FilterExprTo[n + 1] |-> Body(g, f)]
  <2>3. FilterExprTo[n] \subseteq FilterExprTo[n + 1]
    BY <2>2, FilterExprToDef
  <2>4. \A f \in FilterExprTo[n] : h[f] = g[f]
    BY <2>1, <2>3
  <2>5. ASSUME NEW f \in FilterExprTo[n + 1]
        PROVE  h[f] = Body(h, f)
    <3>1. h[f] = Body(g, f)
      OBVIOUS
    <3> HIDE DEF h
    <3>2. CASE f \in Leaves
      BY <1>2, <3>1, <3>2
    <3>3. CASE f \in Branches(FilterExprTo[n])
      <4>1. \A i \in DOMAIN f.kids : f.kids[i] \in FilterExprTo[n]
        BY <3>3, BranchFacts
      <4> QED BY <1>1, <2>4, <3>1, <4>1
    <3> QED BY <2>2, <3>2, <3>3, LayerFacts
  <2> HIDE DEF h
  <2> QED BY <2>2, <2>5
<1>5. PICK g : \A f \in FilterExpr : g[f] = Body(g, f)
  <2> HIDE DEF Reached
  <2>1. MaxDepth \in Reached
    BY <1>3, <1>4, CountingUp, MaxDepthAssumption
  <2> QED BY <2>1 DEF Reached, FilterExpr
<1> DEFINE h == [f \in FilterExpr |-> g[f]]
<1>6. h = [f \in FilterExpr |-> Body(h, f)]
  <2>1. ASSUME NEW f \in FilterExpr
        PROVE  Body(h, f) = g[f]
    <3>1. CASE f \in Leaves
      BY <1>2, <1>5, <3>1
    <3>2. CASE f \in Branches(FilterExpr)
      <4>1. \A i \in DOMAIN f.kids : h[f.kids[i]] = g[f.kids[i]]
        BY <3>2, BranchFacts
      <4> HIDE DEF h
      <4> QED BY <1>1, <1>5, <4>1
    <3> QED BY <3>1, <3>2, FilterFacts
  <2> QED BY <2>1
<1>7. Reordered = CHOOSE g_1 : g_1 = [f \in FilterExpr |-> Body(g_1, f)]
  BY DEF Reordered, Body
<1> HIDE DEF h
<1>8. Reordered = [f \in FilterExpr |-> Body(Reordered, f)]
  BY <1>6, <1>7
<1> QED BY <1>8 DEF Body

LEMMA CanonicalDef ==
  \A f \in FilterExpr :
    Canonical[f] = IF Conditional(f) THEN CanonicalLeaf(f)
           ELSE <<"(", KindText(f.kind), " ">>
                  \o CanonicalKids([i \in DOMAIN f.kids |-> Canonical[f.kids[i]]]) \o <<")">>
<1> DEFINE Body(g, f) ==
             IF Conditional(f) THEN CanonicalLeaf(f)
           ELSE <<"(", KindText(f.kind), " ">>
                  \o CanonicalKids([i \in DOMAIN f.kids |-> g[f.kids[i]]]) \o <<")">>
           Reached == {n \in 0..MaxDepth : \E g : \A f \in FilterExprTo[n] : g[f] = Body(g, f)}
<1>1. ASSUME NEW f, NEW g, NEW h, \A i \in DOMAIN f.kids : g[f.kids[i]] = h[f.kids[i]]
      PROVE  Body(g, f) = Body(h, f)
  BY <1>1
<1>2. ASSUME NEW f, NEW g, NEW h, f \in Leaves
      PROVE  Body(g, f) = Body(h, f)
  BY <1>2, LeafFacts
<1> HIDE DEF Body
<1>3. 0 \in Reached
  <2> DEFINE g == [f \in Leaves |-> Body(f, f)]
  <2>1. \A f \in Leaves : g[f] = Body(g, f)
    BY <1>2
  <2> QED BY <2>1, LowestLayer
<1>4. ASSUME NEW n \in Nat, n < MaxDepth, n \in Reached
      PROVE  n + 1 \in Reached
  <2>1. PICK g : \A f \in FilterExprTo[n] : g[f] = Body(g, f)
    BY <1>4
  <2>2. n \in 0..MaxDepth /\ n + 1 \in 0..MaxDepth /\ n + 1 # 0 /\ (n + 1) - 1 = n
    BY <1>4, MaxDepthAssumption
  <2> DEFINE h == [f \in FilterExprTo[n + 1] |-> Body(g, f)]
  <2>3. FilterExprTo[n] \subseteq FilterExprTo[n + 1]
    BY <2>2, FilterExprToDef
  <2>4. \A f \in FilterExprTo[n] : h[f] = g[f]
    BY <2>1, <2>3
  <2>5. ASSUME NEW f \in FilterExprTo[n + 1]
        PROVE  h[f] = Body(h, f)
    <3>1. h[f] = Body(g, f)
      OBVIOUS
    <3> HIDE DEF h
    <3>2. CASE f \in Leaves
      BY <1>2, <3>1, <3>2
    <3>3. CASE f \in Branches(FilterExprTo[n])
      <4>1. \A i \in DOMAIN f.kids : f.kids[i] \in FilterExprTo[n]
        BY <3>3, BranchFacts
      <4> QED BY <1>1, <2>4, <3>1, <4>1
    <3> QED BY <2>2, <3>2, <3>3, LayerFacts
  <2> HIDE DEF h
  <2> QED BY <2>2, <2>5
<1>5. PICK g : \A f \in FilterExpr : g[f] = Body(g, f)
  <2> HIDE DEF Reached
  <2>1. MaxDepth \in Reached
    BY <1>3, <1>4, CountingUp, MaxDepthAssumption
  <2> QED BY <2>1 DEF Reached, FilterExpr
<1> DEFINE h == [f \in FilterExpr |-> g[f]]
<1>6. h = [f \in FilterExpr |-> Body(h, f)]
  <2>1. ASSUME NEW f \in FilterExpr
        PROVE  Body(h, f) = g[f]
    <3>1. CASE f \in Leaves
      BY <1>2, <1>5, <3>1
    <3>2. CASE f \in Branches(FilterExpr)
      <4>1. \A i \in DOMAIN f.kids : h[f.kids[i]] = g[f.kids[i]]
        BY <3>2, BranchFacts
      <4> HIDE DEF h
      <4> QED BY <1>1, <1>5, <4>1
    <3> QED BY <3>1, <3>2, FilterFacts
  <2> QED BY <2>1
<1>7. Canonical = CHOOSE g_1 : g_1 = [f \in FilterExpr |-> Body(g_1, f)]
  BY DEF Canonical, Body
<1> HIDE DEF h
<1>8. Canonical = [f \in FilterExpr |-> Body(Canonical, f)]
  BY <1>6, <1>7
<1> QED BY <1>8 DEF Body

LEMMA ShownDef ==
  \A f \in FilterExpr :
    Shown[f] = LET parts == {Shown[f.kids[i]] : i \in DOMAIN f.kids}
           IN CASE f.kind = "and" -> {doc \in Docs : \A part \in parts : doc \in part}
                [] f.kind = "or" -> UNION parts
                [] OTHER -> {doc \in Docs : Holds(Row(doc), f)}
<1> DEFINE Body(g, f) ==
             LET parts == {g[f.kids[i]] : i \in DOMAIN f.kids}
           IN CASE f.kind = "and" -> {doc \in Docs : \A part \in parts : doc \in part}
                [] f.kind = "or" -> UNION parts
                [] OTHER -> {doc \in Docs : Holds(Row(doc), f)}
           Reached == {n \in 0..MaxDepth : \E g : \A f \in FilterExprTo[n] : g[f] = Body(g, f)}
<1>1. ASSUME NEW f, NEW g, NEW h, \A i \in DOMAIN f.kids : g[f.kids[i]] = h[f.kids[i]]
      PROVE  Body(g, f) = Body(h, f)
  <2>1. {g[f.kids[i]] : i \in DOMAIN f.kids} = {h[f.kids[i]] : i \in DOMAIN f.kids}
    BY <1>1
  <2> QED BY <2>1
<1>2. ASSUME NEW f, NEW g, NEW h, f \in Leaves
      PROVE  Body(g, f) = Body(h, f)
  BY <1>2, LeafFacts DEF Conditional
<1> HIDE DEF Body
<1>3. 0 \in Reached
  <2> DEFINE g == [f \in Leaves |-> Body(f, f)]
  <2>1. \A f \in Leaves : g[f] = Body(g, f)
    BY <1>2
  <2> QED BY <2>1, LowestLayer
<1>4. ASSUME NEW n \in Nat, n < MaxDepth, n \in Reached
      PROVE  n + 1 \in Reached
  <2>1. PICK g : \A f \in FilterExprTo[n] : g[f] = Body(g, f)
    BY <1>4
  <2>2. n \in 0..MaxDepth /\ n + 1 \in 0..MaxDepth /\ n + 1 # 0 /\ (n + 1) - 1 = n
    BY <1>4, MaxDepthAssumption
  <2> DEFINE h == [f \in FilterExprTo[n + 1] |-> Body(g, f)]
  <2>3. FilterExprTo[n] \subseteq FilterExprTo[n + 1]
    BY <2>2, FilterExprToDef
  <2>4. \A f \in FilterExprTo[n] : h[f] = g[f]
    BY <2>1, <2>3
  <2>5. ASSUME NEW f \in FilterExprTo[n + 1]
        PROVE  h[f] = Body(h, f)
    <3>1. h[f] = Body(g, f)
      OBVIOUS
    <3> HIDE DEF h
    <3>2. CASE f \in Leaves
      BY <1>2, <3>1, <3>2
    <3>3. CASE f \in Branches(FilterExprTo[n])
      <4>1. \A i \in DOMAIN f.kids : f.kids[i] \in FilterExprTo[n]
        BY <3>3, BranchFacts
      <4> QED BY <1>1, <2>4, <3>1, <4>1
    <3> QED BY <2>2, <3>2, <3>3, LayerFacts
  <2> HIDE DEF h
  <2> QED BY <2>2, <2>5
<1>5. PICK g : \A f \in FilterExpr : g[f] = Body(g, f)
  <2> HIDE DEF Reached
  <2>1. MaxDepth \in Reached
    BY <1>3, <1>4, CountingUp, MaxDepthAssumption
  <2> QED BY <2>1 DEF Reached, FilterExpr
<1> DEFINE h == [f \in FilterExpr |-> g[f]]
<1>6. h = [f \in FilterExpr |-> Body(h, f)]
  <2>1. ASSUME NEW f \in FilterExpr
        PROVE  Body(h, f) = g[f]
    <3>1. CASE f \in Leaves
      BY <1>2, <1>5, <3>1
    <3>2. CASE f \in Branches(FilterExpr)
      <4>1. \A i \in DOMAIN f.kids : h[f.kids[i]] = g[f.kids[i]]
        BY <3>2, BranchFacts
      <4> HIDE DEF h
      <4> QED BY <1>1, <1>5, <4>1
    <3> QED BY <3>1, <3>2, FilterFacts
  <2> QED BY <2>1
<1>7. Shown = CHOOSE g_1 : g_1 = [f \in FilterExpr |-> Body(g_1, f)]
  BY DEF Shown, Body
<1> HIDE DEF h
<1>8. Shown = [f \in FilterExpr |-> Body(Shown, f)]
  BY <1>6, <1>7
<1> QED BY <1>8 DEF Body

LEMMA MatchedDef ==
  \A f \in FilterExpr :
    Matched[f] = LET parts == {Matched[f.kids[i]] : i \in DOMAIN f.kids}
           IN CASE Operator(f.kind) = "AND" -> {doc \in Docs : \A part \in parts : doc \in part}
                [] Operator(f.kind) = "OR" -> UNION parts
                [] OTHER -> {doc \in Docs : Meets(doc, Built(f))}
<1> DEFINE Body(g, f) ==
             LET parts == {g[f.kids[i]] : i \in DOMAIN f.kids}
           IN CASE Operator(f.kind) = "AND" -> {doc \in Docs : \A part \in parts : doc \in part}
                [] Operator(f.kind) = "OR" -> UNION parts
                [] OTHER -> {doc \in Docs : Meets(doc, Built(f))}
           Reached == {n \in 0..MaxDepth : \E g : \A f \in FilterExprTo[n] : g[f] = Body(g, f)}
<1>1. ASSUME NEW f, NEW g, NEW h, \A i \in DOMAIN f.kids : g[f.kids[i]] = h[f.kids[i]]
      PROVE  Body(g, f) = Body(h, f)
  <2>1. {g[f.kids[i]] : i \in DOMAIN f.kids} = {h[f.kids[i]] : i \in DOMAIN f.kids}
    BY <1>1
  <2> QED BY <2>1
<1>2. ASSUME NEW f, NEW g, NEW h, f \in Leaves
      PROVE  Body(g, f) = Body(h, f)
  BY <1>2, LeafFacts DEF Operator, Comparing, Listing
<1> HIDE DEF Body
<1>3. 0 \in Reached
  <2> DEFINE g == [f \in Leaves |-> Body(f, f)]
  <2>1. \A f \in Leaves : g[f] = Body(g, f)
    BY <1>2
  <2> QED BY <2>1, LowestLayer
<1>4. ASSUME NEW n \in Nat, n < MaxDepth, n \in Reached
      PROVE  n + 1 \in Reached
  <2>1. PICK g : \A f \in FilterExprTo[n] : g[f] = Body(g, f)
    BY <1>4
  <2>2. n \in 0..MaxDepth /\ n + 1 \in 0..MaxDepth /\ n + 1 # 0 /\ (n + 1) - 1 = n
    BY <1>4, MaxDepthAssumption
  <2> DEFINE h == [f \in FilterExprTo[n + 1] |-> Body(g, f)]
  <2>3. FilterExprTo[n] \subseteq FilterExprTo[n + 1]
    BY <2>2, FilterExprToDef
  <2>4. \A f \in FilterExprTo[n] : h[f] = g[f]
    BY <2>1, <2>3
  <2>5. ASSUME NEW f \in FilterExprTo[n + 1]
        PROVE  h[f] = Body(h, f)
    <3>1. h[f] = Body(g, f)
      OBVIOUS
    <3> HIDE DEF h
    <3>2. CASE f \in Leaves
      BY <1>2, <3>1, <3>2
    <3>3. CASE f \in Branches(FilterExprTo[n])
      <4>1. \A i \in DOMAIN f.kids : f.kids[i] \in FilterExprTo[n]
        BY <3>3, BranchFacts
      <4> QED BY <1>1, <2>4, <3>1, <4>1
    <3> QED BY <2>2, <3>2, <3>3, LayerFacts
  <2> HIDE DEF h
  <2> QED BY <2>2, <2>5
<1>5. PICK g : \A f \in FilterExpr : g[f] = Body(g, f)
  <2> HIDE DEF Reached
  <2>1. MaxDepth \in Reached
    BY <1>3, <1>4, CountingUp, MaxDepthAssumption
  <2> QED BY <2>1 DEF Reached, FilterExpr
<1> DEFINE h == [f \in FilterExpr |-> g[f]]
<1>6. h = [f \in FilterExpr |-> Body(h, f)]
  <2>1. ASSUME NEW f \in FilterExpr
        PROVE  Body(h, f) = g[f]
    <3>1. CASE f \in Leaves
      BY <1>2, <1>5, <3>1
    <3>2. CASE f \in Branches(FilterExpr)
      <4>1. \A i \in DOMAIN f.kids : h[f.kids[i]] = g[f.kids[i]]
        BY <3>2, BranchFacts
      <4> HIDE DEF h
      <4> QED BY <1>1, <1>5, <4>1
    <3> QED BY <3>1, <3>2, FilterFacts
  <2> QED BY <2>1
<1>7. Matched = CHOOSE g_1 : g_1 = [f \in FilterExpr |-> Body(g_1, f)]
  BY DEF Matched, Body
<1> HIDE DEF h
<1>8. Matched = [f \in FilterExpr |-> Body(Matched, f)]
  BY <1>6, <1>7
<1> QED BY <1>8 DEF Body

-----------------------------------------------------------------------------
(* The order of the parts.                                                 *)

LEMMA Composed ==
  ASSUME NEW D, NEW p \in Bijection(D, D), NEW q \in Bijection(D, D)
  PROVE  [i \in D |-> p[q[i]]] \in Bijection(D, D)
<1> DEFINE r == [i \in D |-> p[q[i]]]
<1>1. p \in [D -> D] /\ q \in [D -> D]
  BY DEF Bijection, Injection
<1>2. \A a, b \in D : (p[a] = p[b] => a = b) /\ (q[a] = q[b] => a = b)
  BY <1>1 DEF Bijection, Injection, IsInjective
<1>3. \A t \in D : (\E s \in D : p[s] = t) /\ (\E s \in D : q[s] = t)
  BY DEF Bijection, Surjection
<1>4. r \in [D -> D]
  BY <1>1
<1>5. IsInjective(r)
  BY <1>1, <1>2 DEF IsInjective
<1>6. \A t \in D : \E s \in D : r[s] = t
  BY <1>1, <1>3
<1>7. r \in Bijection(D, D)
  <2> HIDE DEF r
  <2> QED BY <1>4, <1>5, <1>6 DEF Bijection, Injection, Surjection
<1> QED BY <1>7

LEMMA Undone ==
  ASSUME NEW D, NEW p \in Bijection(D, D)
  PROVE  \E q \in Bijection(D, D) : \A i \in D : q[p[i]] = i /\ p[q[i]] = i
<1>1. p \in [D -> D]
  BY DEF Bijection, Injection
<1>2. \A a, b \in D : p[a] = p[b] => a = b
  BY <1>1 DEF Bijection, Injection, IsInjective
<1>3. \A t \in D : \E s \in D : p[s] = t
  BY DEF Bijection, Surjection
<1> DEFINE q == [t \in D |-> CHOOSE s \in D : p[s] = t]
<1>4. \A t \in D : q[t] \in D /\ p[q[t]] = t
  BY <1>3
<1>5. q \in [D -> D]
  BY <1>4
<1> HIDE DEF q
<1>6. \A i \in D : q[p[i]] = i
  BY <1>1, <1>2, <1>4
<1>7. IsInjective(q)
  BY <1>4, <1>5 DEF IsInjective
<1>8. q \in Bijection(D, D)
  BY <1>1, <1>5, <1>6, <1>7 DEF Bijection, Injection, Surjection
<1> QED BY <1>4, <1>6, <1>8

LEMMA ShuffledFacts ==
  ASSUME NEW S, NEW s \in Seq(S), NEW t \in Shuffled(s)
  PROVE  /\ t \in Seq(S) /\ Len(t) = Len(s) /\ DOMAIN t = DOMAIN s
         /\ Shuffled(t) = Shuffled(s)
<1> DEFINE D == DOMAIN s
<1>1. PICK p \in Bijection(D, D) : t = [i \in D |-> s[p[i]]]
  BY DEF Shuffled
<1>2. p \in [D -> D]
  BY DEF Bijection, Injection
<1>3. D = 1..Len(s) /\ Len(s) \in Nat
  OBVIOUS
<1>4. t \in Seq(S) /\ Len(t) = Len(s) /\ DOMAIN t = D
  <2>1. t \in [1..Len(s) -> S]
    BY <1>1, <1>2, <1>3
  <2> QED BY <1>3, <2>1
<1>5. ASSUME NEW u \in Shuffled(t)
      PROVE  u \in Shuffled(s)
  <2>1. PICK q \in Bijection(D, D) : u = [i \in D |-> t[q[i]]]
    BY <1>4 DEF Shuffled
  <2>2. q \in [D -> D]
    BY DEF Bijection, Injection
  <2> DEFINE r == [i \in D |-> p[q[i]]]
  <2>3. r \in Bijection(D, D)
    BY Composed
  <2>4. u = [i \in D |-> s[r[i]]]
    BY <1>1, <2>1, <2>2
  <2> HIDE DEF r
  <2> QED BY <2>3, <2>4 DEF Shuffled
<1>6. ASSUME NEW u \in Shuffled(s)
      PROVE  u \in Shuffled(t)
  <2>1. PICK q \in Bijection(D, D) : u = [i \in D |-> s[q[i]]]
    BY DEF Shuffled
  <2>2. PICK b \in Bijection(D, D) : \A i \in D : b[p[i]] = i /\ p[b[i]] = i
    BY Undone
  <2>3. q \in [D -> D] /\ b \in [D -> D]
    BY DEF Bijection, Injection
  <2> DEFINE r == [i \in D |-> b[q[i]]]
  <2>4. r \in Bijection(D, D)
    BY Composed
  <2>5. u = [i \in D |-> t[r[i]]]
    BY <1>1, <2>1, <2>2, <2>3
  <2> HIDE DEF r
  <2> QED BY <1>4, <2>4, <2>5 DEF Shuffled
<1> QED BY <1>4, <1>5, <1>6

\* A sorted sequence is one of the rearrangements that all rearrangements share.
LEMMA SortedSame ==
  ASSUME NEW S, NEW s \in Seq(S), NEW t \in Shuffled(s)
  PROVE  Sorted(t) = Sorted(s)
BY ShuffledFacts DEF Sorted

LEMMA PromotedFacts ==
  ASSUME NEW values \in Seq(Operands)
  PROVE  PromotedAll(values) \in Seq(Operands) /\ Len(PromotedAll(values)) = Len(values)
<1>1. \A l \in Operands : Promoted(l) \in Operands
  BY DEF Promoted, Operands, Literal
<1> QED BY <1>1 DEF PromotedAll

LEMMA ConditionIsLeaf ==
  ASSUME NEW c \in Leaves, NEW field \in Characters, NEW values \in Seq(Operands), Len(values) = Len(c.values)
  PROVE  Condition(c.kind, field, values) \in Leaves
BY DEF Leaves, Condition, Comparing, Listing

LEMMA RewriteLeafType ==
  ASSUME NEW c \in Leaves
  PROVE  RewriteLeaf(c) \in Leaves /\ RewriteLeaf(c).kind = c.kind
BY NameAssumption, LeafFacts, PromotedFacts, ConditionIsLeaf DEF RewriteLeaf, Condition

\* Rewriting keeps a filter in its layer.
LEMMA RewriteInLayer ==
  \A n \in 0..MaxDepth : \A f \in FilterExprTo[n] : Rewrite[f] \in FilterExprTo[n]
<1> DEFINE P == {p \in (0..MaxDepth) \X FilterExpr : Rewrite[p[2]] \in FilterExprTo[p[1]]}
<1>1. ASSUME NEW n \in 0..MaxDepth, NEW f \in Leaves
      PROVE  <<n, f>> \in P
  <2>1. Rewrite[f] = RewriteLeaf(f) /\ f \in FilterExpr
    BY RewriteDef, LeafIsFilter, LeafFacts
  <2> QED BY <2>1, RewriteLeafType, LayerHolds
<1>2. ASSUME NEW n \in 0..MaxDepth, n < MaxDepth, NEW f \in Branches(FilterExprTo[n]),
             \A i \in DOMAIN f.kids : f.kids[i] \in FilterExprTo[n] /\ <<n, f.kids[i]>> \in P
      PROVE  <<n + 1, f>> \in P
  <2>1. n + 1 \in 0..MaxDepth
    BY <1>2, MaxDepthAssumption
  <2>2. f \in FilterExpr
    BY <1>2, <2>1, LayerHolds, LayerIsFilter
  <2>3. Rewrite[f] = Node(f.kind, [i \in DOMAIN f.kids |-> Rewrite[f.kids[i]]])
    BY <2>2, RewriteDef, BranchFacts
  <2>4. [i \in DOMAIN f.kids |-> Rewrite[f.kids[i]]] \in Seq(FilterExprTo[n])
    <3>1. f.kids \in Seq(FilterExprTo[n])
      BY BranchFacts
    <3>2. \A i \in DOMAIN f.kids : Rewrite[f.kids[i]] \in FilterExprTo[n]
      BY <1>2
    <3> QED BY <3>1, <3>2
  <2>5. Rewrite[f] \in Branches(FilterExprTo[n])
    BY <2>3, <2>4, NodeIsBranch, BranchFacts
  <2> QED BY <1>2, <2>1, <2>2, <2>5, LayerHolds
<1> HIDE DEF P
<1>3. \A n \in 0..MaxDepth : \A f \in FilterExprTo[n] : <<n, f>> \in P
  BY <1>1, <1>2, LayerInduction
<1> QED BY <1>3 DEF P

LEMMA RewriteType ==
  ASSUME NEW f \in FilterExpr
  PROVE  Rewrite[f] \in FilterExpr
BY RewriteInLayer, MaxDepthAssumption DEF FilterExpr

LEMMA ReorderedLeaf ==
  ASSUME NEW f \in Leaves, NEW g \in Reordered[f]
  PROVE  \E v \in Shuffled(f.values) : v \in Seq(Operands) /\ g = Condition(f.kind, f.field, v) /\ g \in Leaves
<1>1. f \in FilterExpr /\ Conditional(f) /\ f.values \in Seq(Operands) /\ f.field \in Characters
  BY LeafIsFilter, LeafFacts
<1>2. PICK v \in Shuffled(f.values) : g = Condition(f.kind, f.field, v)
  BY <1>1, ReorderedDef
<1>3. v \in Seq(Operands) /\ Len(v) = Len(f.values)
  BY <1>1, ShuffledFacts
<1> QED BY <1>1, <1>2, <1>3, ConditionIsLeaf

LEMMA ReorderedBranch ==
  ASSUME NEW f \in FilterExpr, f \in Branches(FilterExpr), NEW g \in Reordered[f]
  PROVE  \E kids : /\ DOMAIN kids = DOMAIN f.kids
                   /\ \A i \in DOMAIN f.kids : kids[i] \in Reordered[f.kids[i]]
                   /\ \E k \in Shuffled(kids) : g = Node(f.kind, k)
                   /\ kids = [i \in DOMAIN f.kids |-> kids[i]]
<1> DEFINE sets == [i \in DOMAIN f.kids |-> Reordered[f.kids[i]]]
<1>1. PICK kids \in OneOfEach(sets) : \E k \in Shuffled(kids) : g = Node(f.kind, k)
  <2>1. ~Conditional(f)
    BY BranchFacts
  <2>2. Reordered[f] = {Node(f.kind, k) : k \in UNION {Shuffled(kids) : kids \in OneOfEach(sets)}}
    BY <2>1, ReorderedDef
  <2> HIDE DEF sets
  <2> QED BY <2>2
<1>2. /\ kids \in [DOMAIN sets -> UNION {sets[i] : i \in DOMAIN sets}]
      /\ \A i \in DOMAIN sets : kids[i] \in sets[i]
  BY DEF OneOfEach
<1>3. /\ DOMAIN kids = DOMAIN f.kids
      /\ \A i \in DOMAIN f.kids : kids[i] \in Reordered[f.kids[i]]
      /\ kids = [i \in DOMAIN f.kids |-> kids[i]]
  BY <1>2
<1> QED BY <1>1, <1>3

\* Reordering keeps a filter in its layer.
LEMMA ReorderedInLayer ==
  \A n \in 0..MaxDepth : \A f \in FilterExprTo[n] : Reordered[f] \subseteq FilterExprTo[n]
<1> DEFINE P == {p \in (0..MaxDepth) \X FilterExpr : Reordered[p[2]] \subseteq FilterExprTo[p[1]]}
<1>1. ASSUME NEW n \in 0..MaxDepth, NEW f \in Leaves
      PROVE  <<n, f>> \in P
  BY ReorderedLeaf, LeafIsFilter, LayerHolds
<1>2. ASSUME NEW n \in 0..MaxDepth, n < MaxDepth, NEW f \in Branches(FilterExprTo[n]),
             \A i \in DOMAIN f.kids : f.kids[i] \in FilterExprTo[n] /\ <<n, f.kids[i]>> \in P
      PROVE  <<n + 1, f>> \in P
  <2>1. n + 1 \in 0..MaxDepth
    BY <1>2, MaxDepthAssumption
  <2>2. f \in FilterExpr /\ f \in Branches(FilterExpr)
    <3>1. f \in FilterExpr
      BY <1>2, <2>1, LayerHolds, LayerIsFilter
    <3> QED BY <3>1, BranchFacts, FilterFacts
  <2>3. ASSUME NEW g \in Reordered[f]
        PROVE  g \in FilterExprTo[n + 1]
    <3>1. PICK kids : /\ DOMAIN kids = DOMAIN f.kids
                      /\ \A i \in DOMAIN f.kids : kids[i] \in Reordered[f.kids[i]]
                      /\ \E k \in Shuffled(kids) : g = Node(f.kind, k)
                      /\ kids = [i \in DOMAIN f.kids |-> kids[i]]
      BY <2>2, ReorderedBranch
    <3>2. \A i \in DOMAIN f.kids : kids[i] \in FilterExprTo[n]
      BY <1>2, <3>1
    <3>3. kids \in Seq(FilterExprTo[n])
      <4>1. f.kids \in Seq(FilterExpr)
        BY <2>2, BranchFacts
      <4>2. DOMAIN f.kids = 1..Len(f.kids) /\ Len(f.kids) \in Nat
        BY <4>1
      <4>3. kids \in [1..Len(f.kids) -> FilterExprTo[n]]
        BY <3>1, <3>2, <4>2
      <4> QED BY <4>2, <4>3
    <3>4. PICK k \in Shuffled(kids) : g = Node(f.kind, k)
      BY <3>1
    <3>5. k \in Seq(FilterExprTo[n])
      BY <3>3, ShuffledFacts
    <3>6. g \in Branches(FilterExprTo[n])
      BY <2>2, <3>4, <3>5, NodeIsBranch, BranchFacts
    <3> QED BY <1>2, <3>6, LayerHolds
  <2> QED BY <2>1, <2>2, <2>3
<1> HIDE DEF P
<1>3. \A n \in 0..MaxDepth : \A f \in FilterExprTo[n] : <<n, f>> \in P
  BY <1>1, <1>2, LayerInduction
<1> QED BY <1>3 DEF P

LEMMA ReorderedType ==
  ASSUME NEW f \in FilterExpr
  PROVE  Reordered[f] \subseteq FilterExpr
BY ReorderedInLayer, MaxDepthAssumption DEF FilterExpr

LEMMA SingleShuffled ==
  ASSUME NEW S, NEW s \in Seq(S), Len(s) = 1, NEW t \in Shuffled(s)
  PROVE  t = s
<1>1. PICK p \in Bijection(DOMAIN s, DOMAIN s) : t = [i \in DOMAIN s |-> s[p[i]]]
  BY DEF Shuffled
<1>2. DOMAIN s = {1}
  OBVIOUS
<1>3. p[1] = 1
  BY <1>2 DEF Bijection, Injection
<1>4. t = [i \in DOMAIN s |-> s[i]]
  BY <1>1, <1>2, <1>3
<1> QED BY <1>4

LEMMA PromotedShuffled ==
  ASSUME NEW s \in Seq(Operands), NEW t \in Shuffled(s)
  PROVE  PromotedAll(t) \in Shuffled(PromotedAll(s))
<1>1. PICK p \in Bijection(DOMAIN s, DOMAIN s) : t = [i \in DOMAIN s |-> s[p[i]]]
  BY DEF Shuffled
<1>2. p \in [DOMAIN s -> DOMAIN s]
  BY DEF Bijection, Injection
<1>3. PromotedAll(t) = [i \in DOMAIN s |-> PromotedAll(s)[p[i]]]
  BY <1>1, <1>2 DEF PromotedAll
<1>4. DOMAIN PromotedAll(s) = DOMAIN s
  BY DEF PromotedAll
<1> QED BY <1>3, <1>4 DEF Shuffled

LEMMA ListTextShuffled ==
  ASSUME NEW s \in Seq(Operands), NEW t \in Shuffled(s)
  PROVE  ListText(t) = ListText(s)
<1> DEFINE texts(values) == [i \in DOMAIN values |-> CanonicalLiteral(values[i])]
           S == {CanonicalLiteral(l) : l \in Operands}
<1>1. PICK p \in Bijection(DOMAIN s, DOMAIN s) : t = [i \in DOMAIN s |-> s[p[i]]]
  BY DEF Shuffled
<1>2. p \in [DOMAIN s -> DOMAIN s]
  BY DEF Bijection, Injection
<1>3. texts(t) = [i \in DOMAIN s |-> texts(s)[p[i]]]
  BY <1>1, <1>2
<1>4. DOMAIN texts(s) = DOMAIN s
  OBVIOUS
<1>5. texts(s) \in Seq(S)
  OBVIOUS
<1>6. ListText(t) = <<"[">> \o Joined(Sorted(texts(t)), ",") \o <<"]">>
  BY DEF ListText
<1>7. ListText(s) = <<"[">> \o Joined(Sorted(texts(s)), ",") \o <<"]">>
  BY DEF ListText
<1> HIDE DEF texts, S
<1>8. texts(t) \in Shuffled(texts(s))
  BY <1>3, <1>4 DEF Shuffled
<1>9. Sorted(texts(t)) = Sorted(texts(s))
  BY <1>5, <1>8, SortedSame
<1> QED BY <1>6, <1>7, <1>9

\* A condition's key does not depend on the order of its list.
LEMMA LeafKeyKept ==
  ASSUME NEW c \in Leaves, NEW v \in Shuffled(c.values)
  PROVE  CanonicalLeaf(Condition(c.kind, c.field, v)) = CanonicalLeaf(c)
<1> DEFINE d == Condition(c.kind, c.field, v)
<1>1. d.kind = c.kind /\ d.field = c.field /\ d.values = v
  BY DEF Condition
<1>2. c.values \in Seq(Operands)
  BY LeafFacts
<1>3. CASE c.kind \in Listing
  <2>1. ListText(v) = ListText(c.values)
    BY <1>2, ListTextShuffled
  <2>2. ASSUME NEW e, e.kind \in Listing
        PROVE  CanonicalLeaf(e) = Clause(KindText(e.kind), e.field, ListText(e.values))
    BY <2>2 DEF CanonicalLeaf, Listing
  <2> HIDE DEF d
  <2> QED BY <1>1, <1>3, <2>1, <2>2 DEF d
<1>4. CASE c.kind \notin Listing
  <2>1. v = c.values
    BY <1>2, <1>4, LeafFacts, SingleShuffled
  <2> QED BY <2>1, LeafFacts
<1> QED BY <1>3, <1>4

LEMMA LeafOrderKept ==
  ASSUME NEW c \in Leaves, NEW v \in Shuffled(c.values)
  PROVE  CanonicalLeaf(RewriteLeaf(Condition(c.kind, c.field, v))) = CanonicalLeaf(RewriteLeaf(c))
<1> DEFINE d == Condition(c.kind, c.field, v)
<1>1. d.kind = c.kind /\ d.field = c.field /\ d.values = v
  BY DEF Condition
<1>2. CASE c.field = DocId /\ c.kind \notin {"ac", "aca"}
  <2> DEFINE r == Condition(c.kind, Name, PromotedAll(c.values))
  <2>1. RewriteLeaf(d) = Condition(c.kind, Name, PromotedAll(v)) /\ RewriteLeaf(c) = r
    BY <1>1, <1>2 DEF RewriteLeaf
  <2>2. r \in Leaves
    BY <2>1, RewriteLeafType
  <2>3. r.kind = c.kind /\ r.field = Name /\ r.values = PromotedAll(c.values)
    BY DEF Condition
  <2>4. PromotedAll(v) \in Shuffled(r.values)
    BY <2>3, PromotedShuffled, LeafFacts
  <2> HIDE DEF r
  <2>5. CanonicalLeaf(Condition(r.kind, r.field, PromotedAll(v))) = CanonicalLeaf(r)
    BY <2>2, <2>4, LeafKeyKept
  <2> QED BY <2>1, <2>3, <2>5
<1>3. CASE ~(c.field = DocId /\ c.kind \notin {"ac", "aca"})
  <2>1. RewriteLeaf(d) = d /\ RewriteLeaf(c) = c
    BY <1>1, <1>3 DEF RewriteLeaf
  <2> HIDE DEF d
  <2>2. CanonicalLeaf(d) = CanonicalLeaf(c)
    BY LeafKeyKept DEF d
  <2> QED BY <2>1, <2>2 DEF d
<1> QED BY <1>2, <1>3

\* Rewriting goes through the kids, and nothing else of a node changes.
LEMMA RewrittenBranch ==
  ASSUME NEW f \in FilterExpr, f \in Branches(FilterExpr)
  PROVE  /\ Rewrite[f] \in FilterExpr /\ Rewrite[f] \in Branches(FilterExpr)
         /\ Rewrite[f].kind = f.kind /\ ~Conditional(Rewrite[f])
         /\ Rewrite[f].kids = [i \in DOMAIN f.kids |-> Rewrite[f.kids[i]]]
         /\ DOMAIN Rewrite[f].kids = DOMAIN f.kids
         /\ \A i \in DOMAIN f.kids : Rewrite[f].kids[i] = Rewrite[f.kids[i]]
<1> DEFINE r == [i \in DOMAIN f.kids |-> Rewrite[f.kids[i]]]
<1>1. Rewrite[f] = Node(f.kind, r)
  BY RewriteDef, BranchFacts
<1>2. Rewrite[f].kind = f.kind /\ Rewrite[f].kids = r
  BY <1>1 DEF Node
<1>3. Rewrite[f] \in FilterExpr /\ ~Conditional(Rewrite[f])
  BY <1>2, RewriteType, BranchFacts DEF Conditional
<1>4. Rewrite[f] \in Branches(FilterExpr)
  BY <1>3, FilterFacts
<1> QED BY <1>2, <1>3, <1>4

LEMMA NodeKey ==
  ASSUME NEW f \in FilterExpr, f \in Branches(FilterExpr)
  PROVE  Canonical[Rewrite[f]] =
           <<"(", KindText(f.kind), " ">>
             \o CanonicalKids([i \in DOMAIN f.kids |-> Canonical[Rewrite[f.kids[i]]]]) \o <<")">>
<1> DEFINE r == Rewrite[f].kids
<1>1. Rewrite[f] \in FilterExpr /\ ~Conditional(Rewrite[f]) /\ Rewrite[f].kind = f.kind
  BY RewrittenBranch
<1>2. Canonical[Rewrite[f]] =
        <<"(", KindText(f.kind), " ">> \o CanonicalKids([i \in DOMAIN r |-> Canonical[r[i]]]) \o <<")">>
  BY <1>1, CanonicalDef
<1>3. [i \in DOMAIN r |-> Canonical[r[i]]] = [i \in DOMAIN f.kids |-> Canonical[Rewrite[f.kids[i]]]]
  BY RewrittenBranch
<1> QED BY <1>2, <1>3

\* Filters that differ in the order of their parts only have one key
\* (canonical_filter sorts the texts of a node's kids and of a list's values).
THEOREM OneKeyForAllOrders ==
  \A f \in FilterExpr : \A g \in Reordered[f] : Canonical[Rewrite[g]] = Canonical[Rewrite[f]]
<1> DEFINE T == {f \in FilterExpr : \A g \in Reordered[f] : Canonical[Rewrite[g]] = Canonical[Rewrite[f]]}
<1>1. Leaves \subseteq T
  <2> SUFFICES ASSUME NEW f \in Leaves, NEW g \in Reordered[f]
               PROVE  Canonical[Rewrite[g]] = Canonical[Rewrite[f]]
    BY LeafIsFilter
  <2>1. PICK v \in Shuffled(f.values) : g = Condition(f.kind, f.field, v) /\ g \in Leaves
    BY ReorderedLeaf
  <2>2. \A c \in Leaves : Canonical[Rewrite[c]] = CanonicalLeaf(RewriteLeaf(c))
    BY RewriteDef, CanonicalDef, LeafIsFilter, LeafFacts, RewriteLeafType
  <2> QED BY <2>1, <2>2, LeafOrderKept
<1>2. ASSUME NEW f \in FilterExpr, f \in Branches(FilterExpr), \A i \in DOMAIN f.kids : f.kids[i] \in T
      PROVE  f \in T
  <2> SUFFICES ASSUME NEW g \in Reordered[f]
               PROVE  Canonical[Rewrite[g]] = Canonical[Rewrite[f]]
    OBVIOUS
  <2> DEFINE D == DOMAIN f.kids
             texts == [i \in D |-> Canonical[Rewrite[f.kids[i]]]]
             S == {Canonical[Rewrite[h]] : h \in FilterExpr}
  <2>1. PICK kids : /\ DOMAIN kids = D
                    /\ \A i \in D : kids[i] \in Reordered[f.kids[i]]
                    /\ \E k \in Shuffled(kids) : g = Node(f.kind, k)
    BY <1>2, ReorderedBranch
  <2>2. PICK k \in Shuffled(kids) : g = Node(f.kind, k)
    BY <2>1
  <2>3. PICK p \in Bijection(D, D) : k = [i \in D |-> kids[p[i]]]
    BY <2>1 DEF Shuffled
  <2>4. p \in [D -> D]
    BY DEF Bijection, Injection
  <2>5. \A i \in D : Canonical[Rewrite[k[i]]] = texts[p[i]]
    BY <1>2, <2>1, <2>3, <2>4
  <2>6. g \in FilterExpr /\ g \in Branches(FilterExpr) /\ g.kind = f.kind /\ g.kids = k
    <3>1. g \in FilterExpr
      BY ReorderedType
    <3>2. g.kind = f.kind /\ g.kids = k
      BY <2>2 DEF Node
    <3> QED BY <1>2, <3>1, <3>2, FilterFacts, BranchFacts DEF Conditional
  <2> DEFINE other == [i \in DOMAIN k |-> Canonical[Rewrite[k[i]]]]
  <2>7. other = [i \in DOMAIN texts |-> texts[p[i]]] /\ DOMAIN texts = D
    BY <2>3, <2>5
  <2>8. texts \in Seq(S)
    <3>1. f.kids \in Seq(FilterExpr)
      BY <1>2, BranchFacts
    <3> QED BY <3>1
  <2>9. Canonical[Rewrite[f]] = <<"(", KindText(f.kind), " ">> \o CanonicalKids(texts) \o <<")">>
    BY <1>2, NodeKey
  <2>10. Canonical[Rewrite[g]] = <<"(", KindText(f.kind), " ">> \o CanonicalKids(other) \o <<")">>
    BY <2>6, NodeKey
  <2> HIDE DEF texts, other, S
  <2>11. other \in Shuffled(texts)
    BY <2>7 DEF Shuffled
  <2>12. Sorted(other) = Sorted(texts)
    BY <2>8, <2>11, SortedSame
  <2> QED BY <2>9, <2>10, <2>12 DEF CanonicalKids
<1>3. FilterExpr \subseteq T
  <2> HIDE DEF T
  <2> QED BY <1>1, <1>2, FilterInduction
<1> QED BY <1>3

-----------------------------------------------------------------------------
(* The texts of a session, and what the parser hands on.                   *)

TextsInv == text \in AllTexts

\* The user's hand is at one of the texts that can be typed.
LEMMA TextsInvariant == Spec => []TextsInv
<1>1. Init => TextsInv
  BY DEF Init, TextsInv, AllTexts
<1>2. TextsInv /\ [Next]_vars => TextsInv'
  <2> SUFFICES ASSUME TextsInv, [Next]_vars PROVE TextsInv'
    OBVIOUS
  <2>1. CASE ExecuteQuery
    BY <2>1 DEF TextsInv, ExecuteQuery
  <2>2. CASE ExplainQuery
    BY <2>2 DEF TextsInv, ExplainQuery
  <2>3. CASE Slip
    BY <2>3 DEF TextsInv, Slip, Type, AllTexts
  <2>4. CASE Retype
    BY <2>4 DEF TextsInv, Retype, Type, AllTexts
  <2>5. CASE UNCHANGED vars
    BY <2>5 DEF TextsInv, vars
  <2> QED BY <2>1, <2>2, <2>3, <2>4, <2>5 DEF Next
<1> QED BY <1>1, <1>2, PTL DEF Spec

LEMMA ReadFacts ==
  ASSUME NEW t \in AllTexts, Read(t) # Fail
  PROVE  /\ Read(t) \in ParsedQuery
         /\ Read(t).where # None => Read(t).where \in FilterExpr /\ Typeable(Read(t).where)
<1>1. Read(t) \in ParsedQuery
  BY ReadAssumption
<1>2. Read(t).where \in {f \in FilterExpr : Typeable(f)} \cup {None}
  BY <1>1 DEF ParsedQuery
<1> QED BY <1>1, <1>2

\* Whatever is typed, the orders of its terms share a key: the count of one is
\* found for the other (canonical_filter).
THEOREM OrderDoesNotMatterHolds == Spec => []OrderDoesNotMatter
<1>1. TextsInv => OrderDoesNotMatter
  BY ReadFacts, OneKeyForAllOrders DEF TextsInv, OrderDoesNotMatter
<1> QED BY <1>1, TextsInvariant, PTL

-----------------------------------------------------------------------------
(* The conditions of a filter.                                             *)

\* The places of a kid's conditions below it.
Below(f, i) == {[at |-> <<i, p.at>>, leaf |-> p.leaf] : p \in Placed[f.kids[i]]}

LEMMA PlacedLeaf ==
  ASSUME NEW f \in Leaves
  PROVE  Placed[f] = {[at |-> << >>, leaf |-> f]}
BY PlacedDef, LeafIsFilter, LeafFacts

LEMMA PlacedBranch ==
  ASSUME NEW f \in FilterExpr, f \in Branches(FilterExpr)
  PROVE  /\ Placed[f] = UNION {Below(f, i) : i \in DOMAIN f.kids}
         /\ f.kids \in Seq(FilterExpr) /\ \A i \in DOMAIN f.kids : f.kids[i] \in FilterExpr
         /\ DOMAIN f.kids = 1..Len(f.kids) /\ Len(f.kids) \in Nat
<1>1. ~Conditional(f) /\ f.kids \in Seq(FilterExpr)
  BY BranchFacts
<1>2. Placed[f] = UNION {Below(f, i) : i \in DOMAIN f.kids}
  BY <1>1, PlacedDef DEF Below
<1> QED BY <1>1, <1>2

LEMMA BelowFacts ==
  ASSUME NEW f, NEW i
  PROVE  \A p : p \in Below(f, i) <=> \E q \in Placed[f.kids[i]] : p = [at |-> <<i, q.at>>, leaf |-> q.leaf]
BY DEF Below

LEMMA PlacedFacts ==
  \A f \in FilterExpr :
    \A p \in Placed[f] : p.leaf \in Leaves /\ p = [at |-> p.at, leaf |-> p.leaf]
<1> DEFINE T == {f \in FilterExpr :
                   \A p \in Placed[f] : p.leaf \in Leaves /\ p = [at |-> p.at, leaf |-> p.leaf]}
<1>1. Leaves \subseteq T
  BY PlacedLeaf, LeafIsFilter
<1>2. ASSUME NEW f \in FilterExpr, f \in Branches(FilterExpr), \A i \in DOMAIN f.kids : f.kids[i] \in T
      PROVE  f \in T
  <2> SUFFICES ASSUME NEW p \in Placed[f]
               PROVE  p.leaf \in Leaves /\ p = [at |-> p.at, leaf |-> p.leaf]
    OBVIOUS
  <2>1. PICK i \in DOMAIN f.kids : p \in Below(f, i)
    BY <1>2, PlacedBranch
  <2>2. PICK q \in Placed[f.kids[i]] : p = [at |-> <<i, q.at>>, leaf |-> q.leaf]
    BY <2>1, BelowFacts
  <2> QED BY <1>2, <2>2
<1>3. FilterExpr \subseteq T
  <2> HIDE DEF T
  <2> QED BY <1>1, <1>2, FilterInduction
<1> QED BY <1>3

LEMMA PlacedFinite ==
  \A f \in FilterExpr : IsFiniteSet(Placed[f])
<1> DEFINE T == {f \in FilterExpr : IsFiniteSet(Placed[f])}
<1>1. Leaves \subseteq T
  BY PlacedLeaf, LeafIsFilter, FS_Singleton
<1>2. ASSUME NEW f \in FilterExpr, f \in Branches(FilterExpr), \A i \in DOMAIN f.kids : f.kids[i] \in T
      PROVE  f \in T
  <2> DEFINE D == DOMAIN f.kids
             All == {Below(f, i) : i \in D}
  <2>1. Placed[f] = UNION All /\ D = 1..Len(f.kids) /\ Len(f.kids) \in Nat
    BY <1>2, PlacedBranch
  <2>2. ASSUME NEW i \in D
        PROVE  IsFiniteSet(Below(f, i))
    <3> DEFINE g == [q \in Placed[f.kids[i]] |-> [at |-> <<i, q.at>>, leaf |-> q.leaf]]
    <3>1. g \in Surjection(Placed[f.kids[i]], Below(f, i))
      BY DEF Below, Surjection
    <3> HIDE DEF g
    <3> QED BY <1>2, <3>1, FS_Surjection
  <2>3. IsFiniteSet(D)
    BY <2>1, FS_Interval
  <2>4. IsFiniteSet(All)
    <3> DEFINE g == [i \in D |-> Below(f, i)]
    <3>1. g \in Surjection(D, All)
      BY DEF Surjection
    <3> HIDE DEF g, All
    <3> QED BY <2>3, <3>1, FS_Surjection
  <2>5. \A X \in All : IsFiniteSet(X)
    BY <2>2
  <2> HIDE DEF All
  <2>6. IsFiniteSet(UNION All)
    BY <2>4, <2>5, FS_UNION
  <2> QED BY <2>1, <2>6
<1>3. FilterExpr \subseteq T
  <2> HIDE DEF T
  <2> QED BY <1>1, <1>2, FilterInduction
<1> QED BY <1>3

\* Where a condition stands, its rewritten form stands.
Moved(p) == [at |-> p.at, leaf |-> RewriteLeaf(p.leaf)]

LEMMA PlacedRewritten ==
  \A f \in FilterExpr : Placed[Rewrite[f]] = {Moved(p) : p \in Placed[f]}
<1> DEFINE T == {f \in FilterExpr : Placed[Rewrite[f]] = {Moved(p) : p \in Placed[f]}}
<1>1. ASSUME NEW f \in Leaves
      PROVE  f \in T
  <2>1. Rewrite[f] = RewriteLeaf(f) /\ RewriteLeaf(f) \in Leaves /\ f \in FilterExpr
    BY RewriteDef, LeafIsFilter, LeafFacts, RewriteLeafType
  <2>2. Placed[f] = {[at |-> << >>, leaf |-> f]} /\ Placed[Rewrite[f]] = {[at |-> << >>, leaf |-> RewriteLeaf(f)]}
    BY <2>1, PlacedLeaf
  <2>3. Moved([at |-> << >>, leaf |-> f]) = [at |-> << >>, leaf |-> RewriteLeaf(f)]
    BY DEF Moved
  <2>4. {Moved(p) : p \in Placed[f]} = {Moved([at |-> << >>, leaf |-> f])}
    BY <2>2
  <2> QED BY <2>1, <2>2, <2>3, <2>4
<1>2. ASSUME NEW f \in FilterExpr, f \in Branches(FilterExpr), \A i \in DOMAIN f.kids : f.kids[i] \in T
      PROVE  f \in T
  <2> DEFINE D == DOMAIN f.kids
             g == Rewrite[f]
  <2>1. /\ g \in FilterExpr /\ g \in Branches(FilterExpr)
        /\ DOMAIN g.kids = D /\ \A i \in D : g.kids[i] = Rewrite[f.kids[i]]
    BY <1>2, RewrittenBranch
  <2>2. Placed[f] = UNION {Below(f, i) : i \in D} /\ Placed[g] = UNION {Below(g, i) : i \in D}
    BY <1>2, <2>1, PlacedBranch
  <2>3. ASSUME NEW i \in D
        PROVE  Below(g, i) = {Moved(p) : p \in Below(f, i)}
    <3> DEFINE Under(q) == [at |-> <<i, q.at>>, leaf |-> q.leaf]
               Q == Placed[f.kids[i]]
    <3>1. Placed[g.kids[i]] = {Moved(p) : p \in Q}
      BY <1>2, <2>1
    <3>2. \A q : Under(Moved(q)) = Moved(Under(q))
      BY DEF Moved
    <3>3. Below(g, i) = {Under(q) : q \in {Moved(p) : p \in Q}} /\ Below(f, i) = {Under(q) : q \in Q}
      BY <3>1 DEF Below
    <3> HIDE DEF Under, Q
    <3> QED BY <3>2, <3>3
  <2> HIDE DEF g
  <2>4. Placed[g] = {Moved(p) : p \in Placed[f]}
    BY <2>2, <2>3
  <2> QED BY <2>4 DEF g
<1>3. FilterExpr \subseteq T
  <2> HIDE DEF T
  <2> QED BY <1>1, <1>2, FilterInduction
<1> QED BY <1>3

\* No two conditions stand at one place.
LEMMA OnePlaceEach ==
  \A f \in FilterExpr : \A p, q \in Placed[f] : p.at = q.at => p = q
<1> DEFINE T == {f \in FilterExpr : \A p, q \in Placed[f] : p.at = q.at => p = q}
<1>1. Leaves \subseteq T
  BY PlacedLeaf, LeafIsFilter
<1>2. ASSUME NEW f \in FilterExpr, f \in Branches(FilterExpr), \A i \in DOMAIN f.kids : f.kids[i] \in T
      PROVE  f \in T
  <2> SUFFICES ASSUME NEW p \in Placed[f], NEW q \in Placed[f], p.at = q.at
               PROVE  p = q
    OBVIOUS
  <2>1. PICK i \in DOMAIN f.kids, j \in DOMAIN f.kids : p \in Below(f, i) /\ q \in Below(f, j)
    BY <1>2, PlacedBranch
  <2>2. PICK a \in Placed[f.kids[i]] : p = [at |-> <<i, a.at>>, leaf |-> a.leaf]
    BY <2>1, BelowFacts
  <2>3. PICK b \in Placed[f.kids[j]] : q = [at |-> <<j, b.at>>, leaf |-> b.leaf]
    BY <2>1, BelowFacts
  <2>4. i = j /\ a.at = b.at
    BY <2>2, <2>3
  <2>5. a = b
    BY <1>2, <2>4
  <2> QED BY <2>2, <2>3, <2>4, <2>5
<1>3. FilterExpr \subseteq T
  <2> HIDE DEF T
  <2> QED BY <1>1, <1>2, FilterInduction
<1> QED BY <1>3

LEMMA AtMostOne ==
  ASSUME NEW S, IsFiniteSet(S)
  PROVE  Cardinality(S) <= 1 <=> \A x, y \in S : x = y
<1>1. Cardinality(S) \in Nat
  BY FS_CardinalityType
<1>2. ASSUME Cardinality(S) <= 1
      PROVE  \A x, y \in S : x = y
  <2>1. CASE Cardinality(S) = 0
    BY <2>1, FS_EmptySet
  <2>2. CASE Cardinality(S) = 1
    BY <2>2, FS_Singleton
  <2> QED BY <1>1, <1>2, <2>1, <2>2
<1>3. ASSUME \A x, y \in S : x = y
      PROVE  Cardinality(S) <= 1
  <2>1. CASE S = {}
    BY <2>1, FS_EmptySet
  <2>2. CASE S # {}
    <3>1. PICK x \in S : TRUE
      BY <2>2
    <3>2. S = {x}
      BY <1>3, <3>1
    <3> QED BY <3>2, FS_Singleton
  <2> QED BY <2>1, <2>2
<1> QED BY <1>2, <1>3

\* The restrictions, of conditions at their places.
OneUnequalField(P) ==
  \A p, q \in P : {p.leaf.kind, q.leaf.kind} \subseteq Inequalities => p.leaf.field = q.leaf.field
ShortLists(P) == \A p \in P : p.leaf.kind \in Listing => Len(p.leaf.values) <= MaxValues
OneOfContains(P) == \A p, q \in P : ~(p.leaf.kind = "ac" /\ q.leaf.kind = "aca")
ContainsOnce(P) ==
  \A p, q \in P : p.leaf.kind = "ac" /\ q.leaf.kind = "ac" /\ p.leaf.field = q.leaf.field => p = q
NoName(P) == \A p \in P : p.leaf.field # Name
StringIds(P) ==
  \A p \in P : p.leaf.field = DocId /\ p.leaf.kind \notin {"ac", "aca"}
                 => \A i \in DOMAIN p.leaf.values : p.leaf.values[i].t = "str"

\* validate is the first four (it counts fields and occurrences).
LEMMA ValidParts ==
  ASSUME NEW f \in FilterExpr
  PROVE  Valid(f) <=> /\ OneUnequalField(Placed[f]) /\ ShortLists(Placed[f])
                      /\ OneOfContains(Placed[f]) /\ ContainsOnce(Placed[f])
<1> DEFINE P == Placed[f]
           unequal == {p.leaf.field : p \in Of(f, Inequalities)}
           contains(field) == {p \in Of(f, {"ac"}) : p.leaf.field = field}
<1>1. IsFiniteSet(P)
  BY PlacedFinite
<1>2. \A kinds : Of(f, kinds) \subseteq P /\ IsFiniteSet(Of(f, kinds))
  BY <1>1, FS_Subset DEF Of
<1>3. Cardinality(unequal) <= 1 <=> OneUnequalField(P)
  <2> DEFINE g == [p \in Of(f, Inequalities) |-> p.leaf.field]
  <2>1. g \in Surjection(Of(f, Inequalities), unequal)
    BY DEF Surjection
  <2> HIDE DEF g
  <2>2. IsFiniteSet(unequal)
    BY <1>2, <2>1, FS_Surjection
  <2>3. (\A x, y \in unequal : x = y) <=> OneUnequalField(P)
    BY DEF OneUnequalField, Of
  <2> HIDE DEF unequal
  <2> QED BY <2>2, <2>3, AtMostOne
<1>4. (\A p \in Of(f, Listing) : Len(p.leaf.values) <= MaxValues) <=> ShortLists(P)
  BY DEF ShortLists, Of
<1>5. ~(Of(f, {"ac"}) # {} /\ Of(f, {"aca"}) # {}) <=> OneOfContains(P)
  BY DEF OneOfContains, Of
<1>6. (\A p \in Of(f, {"ac"}) : Cardinality(contains(p.leaf.field)) <= 1) <=> ContainsOnce(P)
  <2>1. \A field : IsFiniteSet(contains(field))
    <3>1. \A field : contains(field) \subseteq P
      BY <1>2
    <3> HIDE DEF contains
    <3> QED BY <1>1, <3>1, FS_Subset
  <2>2. \A field : contains(field) = {p \in P : p.leaf.kind = "ac" /\ p.leaf.field = field}
    BY DEF Of
  <2> HIDE DEF contains
  <2>3. \A field : Cardinality(contains(field)) <= 1 <=> \A x, y \in contains(field) : x = y
    BY <2>1, AtMostOne
  <2> QED BY <2>2, <2>3 DEF ContainsOnce, Of
<1> HIDE DEF P
<1>7. Valid(f) <=> /\ Cardinality(unequal) <= 1
                   /\ \A p \in Of(f, Listing) : Len(p.leaf.values) <= MaxValues
                   /\ ~(Of(f, {"ac"}) # {} /\ Of(f, {"aca"}) # {})
                   /\ \A p \in Of(f, {"ac"}) : Cardinality(contains(p.leaf.field)) <= 1
  BY DEF Valid
<1> HIDE DEF unequal, contains
<1> QED BY <1>3, <1>4, <1>5, <1>6, <1>7 DEF P

LEMMA LegalParts ==
  ASSUME NEW f \in FilterExpr
  PROVE  Legal(f) <=> /\ OneUnequalField(Placed[f]) /\ ShortLists(Placed[f])
                      /\ OneOfContains(Placed[f]) /\ ContainsOnce(Placed[f])
                      /\ NoName(Placed[f]) /\ StringIds(Placed[f])
<1> DEFINE P == Placed[f]
<1>1. \A p, q \in P : p.at = q.at <=> p = q
  BY OnePlaceEach
<1>2. (~\E p, q \in P : p.at # q.at /\ {p.leaf.kind, q.leaf.kind} \subseteq Inequalities
                          /\ p.leaf.field # q.leaf.field)
        <=> OneUnequalField(P)
  BY <1>1 DEF OneUnequalField
<1>3. (~\E p, q \in P : p.at # q.at /\ p.leaf.kind = "ac" /\ q.leaf.kind = "aca") <=> OneOfContains(P)
  BY <1>1 DEF OneOfContains
<1>4. (~\E p, q \in P : p.at # q.at /\ p.leaf.kind = "ac" /\ q.leaf.kind = "ac"
                          /\ p.leaf.field = q.leaf.field)
        <=> ContainsOnce(P)
  BY <1>1 DEF ContainsOnce
<1> QED BY <1>2, <1>3, <1>4 DEF Legal, ShortLists, NoName, StringIds

\* What a name is compared with decides whether Firestore takes the filter.
LEMMA RefusedParts ==
  ASSUME NEW f \in FilterExpr
  PROVE  Refused(f) <=> \E p \in Placed[f] :
           p.leaf.field = Name /\ \E i \in DOMAIN p.leaf.values : p.leaf.values[i].t # "ref"
BY DEF Refused, Built

LEMMA MovedFacts ==
  ASSUME NEW f \in FilterExpr, NEW p \in Placed[f]
  PROVE  /\ Moved(p) \in Placed[Rewrite[f]] /\ Moved(p).at = p.at /\ Moved(p).leaf = RewriteLeaf(p.leaf)
         /\ Moved(p).leaf.kind = p.leaf.kind
         /\ Len(Moved(p).leaf.values) = Len(p.leaf.values)
         /\ DOMAIN Moved(p).leaf.values = DOMAIN p.leaf.values
         /\ p.leaf.field = DocId /\ p.leaf.kind \notin {"ac", "aca"} =>
              /\ Moved(p).leaf.field = Name
              /\ \A i \in DOMAIN p.leaf.values : Moved(p).leaf.values[i] = Promoted(p.leaf.values[i])
         /\ ~(p.leaf.field = DocId /\ p.leaf.kind \notin {"ac", "aca"}) => Moved(p).leaf = p.leaf
<1>1. p.leaf \in Leaves
  BY PlacedFacts
<1>2. Moved(p) \in Placed[Rewrite[f]] /\ Moved(p).at = p.at /\ Moved(p).leaf = RewriteLeaf(p.leaf)
  BY PlacedRewritten DEF Moved
<1>3. RewriteLeaf(p.leaf).kind = p.leaf.kind
  BY <1>1, RewriteLeafType
<1>4. CASE p.leaf.field = DocId /\ p.leaf.kind \notin {"ac", "aca"}
  <2>1. RewriteLeaf(p.leaf) = Condition(p.leaf.kind, Name, PromotedAll(p.leaf.values))
    BY <1>4 DEF RewriteLeaf
  <2>2. RewriteLeaf(p.leaf).field = Name /\ RewriteLeaf(p.leaf).values = PromotedAll(p.leaf.values)
    BY <2>1 DEF Condition
  <2>3. p.leaf.values \in Seq(Operands)
    BY <1>1, LeafFacts
  <2>4. /\ Len(PromotedAll(p.leaf.values)) = Len(p.leaf.values)
        /\ DOMAIN PromotedAll(p.leaf.values) = DOMAIN p.leaf.values
        /\ \A i \in DOMAIN p.leaf.values : PromotedAll(p.leaf.values)[i] = Promoted(p.leaf.values[i])
    BY <2>3, PromotedFacts DEF PromotedAll
  <2> QED BY <1>2, <1>3, <1>4, <2>2, <2>4
<1>5. CASE ~(p.leaf.field = DocId /\ p.leaf.kind \notin {"ac", "aca"})
  BY <1>2, <1>5 DEF RewriteLeaf
<1> QED BY <1>2, <1>3, <1>4, <1>5

\* What validate lets through, once `id` is rewritten, and Firestore does not
\* refuse is exactly what the restrictions allow.
THEOREM AcceptedIffLegal ==
  ASSUME NEW f \in FilterExpr, Typeable(f)
  PROVE  Valid(Rewrite[f]) /\ ~Refused(Rewrite[f]) <=> Legal(f)
<1> DEFINE P == Placed[f]
           R == Placed[Rewrite[f]]
           Id(p) == p.leaf.field = DocId /\ p.leaf.kind \notin {"ac", "aca"}
<1>1. R = {Moved(p) : p \in P} /\ Rewrite[f] \in FilterExpr
  BY PlacedRewritten, RewriteType
<1>2. ASSUME NEW p \in P
      PROVE  /\ p.leaf.values \in Seq(Operands) /\ p.leaf.values # << >> /\ 1 \in DOMAIN p.leaf.values
             /\ \A i \in DOMAIN p.leaf.values : p.leaf.values[i].t # "ref"
  <2>1. p.leaf.values \in Seq(Operands)
    BY PlacedFacts, LeafFacts
  <2>2. p.leaf.values # << >> /\ \A i \in DOMAIN p.leaf.values : p.leaf.values[i].t # "ref"
    BY DEF Typeable
  <2> QED BY <2>1, <2>2
<1>3. DocId # Name
  BY DEF DocId, Name
<1>4. \A l \in Operands : l.t # "ref" => (Promoted(l).t = "ref" <=> l.t = "str")
  BY DEF Promoted, Literal
<1>5. ASSUME NEW p \in P
      PROVE  /\ Moved(p).leaf.kind = p.leaf.kind
             /\ Id(p) => Moved(p).leaf.field = Name
             /\ ~Id(p) => Moved(p).leaf = p.leaf
             /\ Len(Moved(p).leaf.values) = Len(p.leaf.values)
             /\ Moved(p).at = p.at
  BY MovedFacts
<1>6. ~Refused(Rewrite[f]) <=> NoName(P) /\ StringIds(P)
  <2>1. ASSUME NEW p \in P
        PROVE  (Moved(p).leaf.field = Name /\ \E i \in DOMAIN Moved(p).leaf.values : Moved(p).leaf.values[i].t # "ref")
                 <=> \/ p.leaf.field = Name
                     \/ Id(p) /\ \E i \in DOMAIN p.leaf.values : p.leaf.values[i].t # "str"
    <3>1. CASE Id(p)
      <4>1. /\ Moved(p).leaf.field = Name /\ DOMAIN Moved(p).leaf.values = DOMAIN p.leaf.values
            /\ \A i \in DOMAIN p.leaf.values : Moved(p).leaf.values[i] = Promoted(p.leaf.values[i])
        BY <3>1, MovedFacts
      <4>2. \A i \in DOMAIN p.leaf.values : Moved(p).leaf.values[i].t = "ref" <=> p.leaf.values[i].t = "str"
        BY <1>2, <1>4, <4>1
      <4> QED BY <1>3, <3>1, <4>1, <4>2
    <3>2. CASE ~Id(p)
      BY <1>2, <1>5, <3>2
    <3> QED BY <3>1, <3>2
  <2>2. Refused(Rewrite[f]) <=>
          \E p \in P : Moved(p).leaf.field = Name
                       /\ \E i \in DOMAIN Moved(p).leaf.values : Moved(p).leaf.values[i].t # "ref"
    BY <1>1, RefusedParts
  <2> QED BY <2>1, <2>2 DEF NoName, StringIds
<1>7. ASSUME NoName(P)
      PROVE  /\ OneUnequalField(R) <=> OneUnequalField(P)
             /\ ContainsOnce(R) <=> ContainsOnce(P)
  <2>1. \A p \in P : p.leaf.field # Name
    BY <1>7 DEF NoName
  <2>2. \A p, q \in P : {p.leaf.kind, q.leaf.kind} \subseteq Inequalities =>
          (Moved(p).leaf.field = Moved(q).leaf.field <=> p.leaf.field = q.leaf.field)
    BY <1>5, <2>1 DEF Inequalities
  <2>3. \A p, q \in P : p.leaf.kind = "ac" /\ q.leaf.kind = "ac" =>
          (Moved(p).leaf.field = Moved(q).leaf.field <=> p.leaf.field = q.leaf.field)
    BY <1>5
  <2>4. \A p, q \in P : Moved(p) = Moved(q) <=> p = q
    BY <1>5, OnePlaceEach
  <2> QED BY <1>1, <1>5, <2>2, <2>3, <2>4 DEF OneUnequalField, ContainsOnce
<1>8. ShortLists(R) <=> ShortLists(P)
  BY <1>1, <1>5 DEF ShortLists
<1>9. OneOfContains(R) <=> OneOfContains(P)
  BY <1>1, <1>5 DEF OneOfContains
<1>10. Valid(Rewrite[f]) <=> OneUnequalField(R) /\ ShortLists(R) /\ OneOfContains(R) /\ ContainsOnce(R)
  BY <1>1, ValidParts
<1>11. Legal(f) <=> /\ OneUnequalField(P) /\ ShortLists(P) /\ OneOfContains(P) /\ ContainsOnce(P)
                    /\ NoName(P) /\ StringIds(P)
  BY LegalParts
<1> HIDE DEF P, R
<1> QED BY <1>6, <1>7, <1>8, <1>9, <1>10, <1>11

-----------------------------------------------------------------------------
(* What Firestore matches is what the grid shows.                          *)

\* A document's name compares as its id does.
LEMMA NamesCompareAsIds ==
  ASSUME NEW id, NEW l \in Operands, l.t = "str"
  PROVE  /\ Same(Literal("ref", id, 0), Promoted(l)) <=> Same(Literal("str", id, 0), l)
         /\ Less(Literal("ref", id, 0), Promoted(l)) <=> Less(Literal("str", id, 0), l)
         /\ Less(Promoted(l), Literal("ref", id, 0)) <=> Less(l, Literal("str", id, 0))
<1> DEFINE a == Literal("ref", id, 0)
           b == Literal("str", id, 0)
<1>1. a.t = "ref" /\ a.v = id /\ b.t = "str" /\ b.v = id /\ a.n = 0 /\ b.n = 0
  BY DEF Literal
<1>2. Promoted(l) = Literal("ref", l.v, 0)
  BY DEF Promoted
<1>3. l = Literal("str", l.v, 0)
  BY DEF Operands, Literal
<1>4. Promoted(l).t = "ref" /\ Promoted(l).v = l.v
  BY <1>2 DEF Literal
<1>5. ~Numeric(a) /\ ~Numeric(b) /\ ~Numeric(l) /\ ~Numeric(Promoted(l))
  BY <1>1, <1>4 DEF Numeric
<1>6. (a = Promoted(l)) <=> (b = l)
  <2>1. (a = Literal("ref", l.v, 0)) <=> id = l.v
    BY DEF Literal
  <2>2. (b = Literal("str", l.v, 0)) <=> id = l.v
    BY DEF Literal
  <2> QED BY <1>2, <1>3, <2>1, <2>2
<1> HIDE DEF a, b
<1>7. Same(a, Promoted(l)) <=> Same(b, l)
  BY <1>5, <1>6 DEF Same
<1>8. Less(a, Promoted(l)) <=> Less(b, l)
  BY <1>1, <1>4, <1>5 DEF Less
<1>9. Less(Promoted(l), a) <=> Less(l, b)
  BY <1>1, <1>4, <1>5 DEF Less
<1> QED BY <1>7, <1>8, <1>9 DEF a, b

\* A value in the document and the cell that shows it give the same answers to
\* what a condition asks of them.
Alike(l, m, b, c) ==
  /\ DOMAIN b.operand = DOMAIN c.values
  /\ l.t = "null" <=> m.t = "null"
  /\ \A i \in DOMAIN c.values :
       /\ Same(l, b.operand[i]) <=> Same(m, c.values[i])
       /\ Less(l, b.operand[i]) <=> Less(m, c.values[i])
       /\ Less(b.operand[i], l) <=> Less(c.values[i], m)
  /\ c.kind \in {"ac", "aca"} => l = m /\ b.operand = c.values

LEMMA AlikeAnswers ==
  ASSUME NEW doc, NEW c \in Leaves, NEW b, b.op = Operator(c.kind),
         b.path \in DOMAIN Stored(doc) <=> c.field \in DOMAIN Row(doc),
         b.path \in DOMAIN Stored(doc) => Alike(Stored(doc)[b.path], Row(doc)[c.field], b, c)
  PROVE  Meets(doc, b) <=> Holds(Row(doc), c)
<1> DEFINE l == Stored(doc)[b.path]
           m == Row(doc)[c.field]
<1>1. CASE b.path \notin DOMAIN Stored(doc)
  <2>1. ~Meets(doc, b)
    BY <1>1 DEF Meets
  <2>2. ~Holds(Row(doc), c)
    BY <1>1 DEF Holds
  <2> QED BY <2>1, <2>2
<1>2. CASE b.path \in DOMAIN Stored(doc)
  <2> DEFINE Some(P(_)) == \E i \in DOMAIN c.values : P(c.values[i])
             x == b.operand[1]
  <2>1. c.field \in DOMAIN Row(doc) /\ Alike(l, m, b, c)
    BY <1>2
  <2>2. c.kind \notin Listing => DOMAIN c.values = {1} /\ DOMAIN b.operand = {1}
    BY <2>1, LeafFacts DEF Alike
  <2>3. c.kind \in Comparing \cup Listing \cup {"ac"}
    BY LeafFacts
  <2>4. CASE c.kind = "Eq"
    <3>1. Meets(doc, b) <=> Same(l, x)
      BY <1>2, <2>4 DEF Meets, Operator
    <3>2. Holds(Row(doc), c) <=> \E i \in DOMAIN c.values : Same(m, c.values[i])
      BY <2>1, <2>4 DEF Holds
    <3> HIDE DEF l, m
    <3> QED BY <2>1, <2>2, <2>4, <3>1, <3>2 DEF Alike, Listing
  <2>5. CASE c.kind = "Ne"
    <3>1. Meets(doc, b) <=> l.t # "null" /\ ~Same(l, x)
      BY <1>2, <2>5 DEF Meets, Operator
    <3>2. Holds(Row(doc), c) <=> m.t # "null" /\ ~\E i \in DOMAIN c.values : Same(m, c.values[i])
      BY <2>1, <2>5 DEF Holds
    <3> HIDE DEF l, m
    <3> QED BY <2>1, <2>2, <2>5, <3>1, <3>2 DEF Alike, Listing
  <2>6. CASE c.kind = "Lt"
    <3>1. Meets(doc, b) <=> Less(l, x)
      BY <1>2, <2>6 DEF Meets, Operator
    <3>2. Holds(Row(doc), c) <=> \E i \in DOMAIN c.values : Less(m, c.values[i])
      BY <2>1, <2>6 DEF Holds
    <3> HIDE DEF l, m
    <3> QED BY <2>1, <2>2, <2>6, <3>1, <3>2 DEF Alike, Listing
  <2>7. CASE c.kind = "Le"
    <3>1. Meets(doc, b) <=> Less(l, x) \/ Same(l, x)
      BY <1>2, <2>7 DEF Meets, Operator
    <3>2. Holds(Row(doc), c) <=> \E i \in DOMAIN c.values : Less(m, c.values[i]) \/ Same(m, c.values[i])
      BY <2>1, <2>7 DEF Holds
    <3> HIDE DEF l, m
    <3> QED BY <2>1, <2>2, <2>7, <3>1, <3>2 DEF Alike, Listing
  <2>8. CASE c.kind = "Gt"
    <3>1. Meets(doc, b) <=> Less(x, l)
      BY <1>2, <2>8 DEF Meets, Operator
    <3>2. Holds(Row(doc), c) <=> \E i \in DOMAIN c.values : Less(c.values[i], m)
      BY <2>1, <2>8 DEF Holds
    <3> HIDE DEF l, m
    <3> QED BY <2>1, <2>2, <2>8, <3>1, <3>2 DEF Alike, Listing
  <2>9. CASE c.kind = "Ge"
    <3>1. Meets(doc, b) <=> Less(x, l) \/ Same(l, x)
      BY <1>2, <2>9 DEF Meets, Operator
    <3>2. Holds(Row(doc), c) <=> \E i \in DOMAIN c.values : Less(c.values[i], m) \/ Same(m, c.values[i])
      BY <2>1, <2>9 DEF Holds
    <3> HIDE DEF l, m
    <3> QED BY <2>1, <2>2, <2>9, <3>1, <3>2 DEF Alike, Listing
  <2>10. CASE c.kind = "in"
    <3>1. Meets(doc, b) <=> \E i \in DOMAIN b.operand : Same(l, b.operand[i])
      BY <1>2, <2>10 DEF Meets, Operator, Among
    <3>2. Holds(Row(doc), c) <=> \E i \in DOMAIN c.values : Same(m, c.values[i])
      BY <2>1, <2>10 DEF Holds
    <3> HIDE DEF l, m
    <3> QED BY <2>1, <3>1, <3>2 DEF Alike
  <2>11. CASE c.kind = "not_in"
    <3>1. Meets(doc, b) <=> l.t # "null" /\ ~\E i \in DOMAIN b.operand : Same(l, b.operand[i])
      BY <1>2, <2>11 DEF Meets, Operator, Among
    <3>2. Holds(Row(doc), c) <=> m.t # "null" /\ ~\E i \in DOMAIN c.values : Same(m, c.values[i])
      BY <2>1, <2>11 DEF Holds
    <3> HIDE DEF l, m
    <3> QED BY <2>1, <3>1, <3>2 DEF Alike
  <2>12. CASE c.kind = "ac"
    <3>1. Meets(doc, b) <=> l.t = "array" /\ Among(x, l.v)
      BY <1>2, <2>12 DEF Meets, Operator
    <3>2. Holds(Row(doc), c) <=> \E i \in DOMAIN c.values : m.t = "array" /\ Among(c.values[i], m.v)
      BY <2>1, <2>12 DEF Holds
    <3> HIDE DEF l, m
    <3> QED BY <2>1, <2>2, <2>12, <3>1, <3>2 DEF Alike, Listing
  <2>13. CASE c.kind = "aca"
    <3>1. Meets(doc, b) <=> l.t = "array" /\ \E i \in DOMAIN b.operand : Among(b.operand[i], l.v)
      BY <1>2, <2>13 DEF Meets, Operator
    <3>2. Holds(Row(doc), c) <=> \E i \in DOMAIN c.values : m.t = "array" /\ Among(c.values[i], m.v)
      BY <2>1, <2>13 DEF Holds
    <3> HIDE DEF l, m
    <3> QED BY <2>1, <2>13, <3>1, <3>2 DEF Alike
  <2> QED BY <2>3, <2>4, <2>5, <2>6, <2>7, <2>8, <2>9, <2>10, <2>11, <2>12, <2>13 DEF Comparing, Listing
<1> QED BY <1>1, <1>2

\* A condition the restrictions allow holds of a document as Firestore has it
\* just when it holds of the row that shows it.
LEMMA LeafShown ==
  ASSUME NEW c \in Leaves, NEW doc \in Docs, c.field # Name,
         c.field = DocId /\ c.kind \notin {"ac", "aca"} => \A i \in DOMAIN c.values : c.values[i].t = "str"
  PROVE  Meets(doc, Built(RewriteLeaf(c))) <=> Holds(Row(doc), c)
<1> DEFINE r == RewriteLeaf(c)
           b == Built(r)
<1>1. b.op = Operator(c.kind) /\ b.path = r.field /\ b.operand = r.values
  BY RewriteLeafType DEF Built
<1>2. /\ DOMAIN Stored(doc) = DOMAIN doc.values \cup {Name} /\ Stored(doc)[Name] = Literal("ref", doc.id, 0)
      /\ \A field \in DOMAIN doc.values : field # Name => Stored(doc)[field] = doc.values[field]
  BY DEF Stored
<1>3. /\ DOMAIN Row(doc) = DOMAIN doc.values \cup {DocId} /\ Row(doc)[DocId] = Literal("str", doc.id, 0)
      /\ \A field \in DOMAIN doc.values : field # DocId => Row(doc)[field] = doc.values[field]
  BY DEF Row
<1>4. DocId # Name
  BY DEF DocId, Name
<1>5. c.values \in Seq(Operands) /\ c.kind \in Comparing \cup Listing \cup {"ac"}
  BY LeafFacts
<1>6. CASE c.field = DocId /\ c.kind \notin {"ac", "aca"}
  <2>1. r.field = Name /\ r.values = PromotedAll(c.values)
    BY <1>6 DEF RewriteLeaf, Condition
  <2>2. /\ DOMAIN b.operand = DOMAIN c.values
        /\ \A i \in DOMAIN c.values : b.operand[i] = Promoted(c.values[i])
    BY <1>1, <2>1 DEF PromotedAll
  <2>3. Literal("ref", doc.id, 0).t # "null" /\ Literal("str", doc.id, 0).t # "null"
    BY DEF Literal
  <2>4. Alike(Literal("ref", doc.id, 0), Literal("str", doc.id, 0), b, c)
    <3> HIDE DEF b, r
    <3>1. \A i \in DOMAIN c.values : c.values[i] \in Operands /\ c.values[i].t = "str"
      BY <1>5, <1>6
    <3> QED BY <1>6, <2>2, <2>3, <3>1, NamesCompareAsIds DEF Alike
  <2>5. b.path = Name
    BY <1>1, <2>1
  <2> HIDE DEF b, r
  <2>6. Meets(doc, b) <=> Holds(Row(doc), c)
    BY <1>1, <1>2, <1>3, <1>6, <2>4, <2>5, AlikeAnswers
  <2> QED BY <2>6 DEF b, r
<1>7. CASE c.field = DocId /\ c.kind \in {"ac", "aca"}
  <2>1. r = c
    BY <1>7 DEF RewriteLeaf
  <2>2. ~Meets(doc, b)
    <3>1. b.path \in DOMAIN Stored(doc) => Stored(doc)[b.path].t # "array"
      BY <1>1, <1>2, <1>4, <1>7, <2>1, DocsAssumption
    <3>2. b.op \in {"ARRAY_CONTAINS", "ARRAY_CONTAINS_ANY"}
      BY <1>1, <1>7 DEF Operator
    <3> HIDE DEF b, r
    <3> QED BY <3>1, <3>2 DEF Meets
  <2>3. ~Holds(Row(doc), c)
    <3>1. Row(doc)[c.field].t = "str"
      BY <1>3, <1>7 DEF Literal
    <3> QED BY <1>7, <3>1 DEF Holds
  <2> QED BY <2>2, <2>3
<1>8. CASE c.field # DocId
  <2>1. r = c
    BY <1>8 DEF RewriteLeaf
  <2>2. b.path = c.field /\ b.operand = c.values
    BY <1>1, <2>1
  <2>3. \A l : Alike(l, l, b, c)
    <3> HIDE DEF b, r
    <3> QED BY <2>2 DEF Alike
  <2> HIDE DEF b, r
  <2>4. Meets(doc, b) <=> Holds(Row(doc), c)
    BY <1>1, <1>2, <1>3, <1>8, <2>2, <2>3, AlikeAnswers
  <2> QED BY <2>4 DEF b, r
<1> QED BY <1>6, <1>7, <1>8

LEMMA KidsAreLegal ==
  ASSUME NEW f \in FilterExpr, f \in Branches(FilterExpr), NoName(Placed[f]), StringIds(Placed[f]),
         NEW i \in DOMAIN f.kids
  PROVE  NoName(Placed[f.kids[i]]) /\ StringIds(Placed[f.kids[i]])
<1>1. ASSUME NEW q \in Placed[f.kids[i]]
      PROVE  \E p \in Placed[f] : p.leaf = q.leaf
  <2> DEFINE p == [at |-> <<i, q.at>>, leaf |-> q.leaf]
  <2>1. p \in Below(f, i)
    BY BelowFacts
  <2>2. p \in Placed[f] /\ p.leaf = q.leaf
    BY <2>1, PlacedBranch
  <2> QED BY <2>2
<1> QED BY <1>1 DEF NoName, StringIds

LEMMA MatchedIsShown ==
  \A f \in FilterExpr : NoName(Placed[f]) /\ StringIds(Placed[f]) => Matched[Rewrite[f]] = Shown[f]
<1> DEFINE T == {f \in FilterExpr : NoName(Placed[f]) /\ StringIds(Placed[f]) => Matched[Rewrite[f]] = Shown[f]}
<1>1. ASSUME NEW f \in Leaves
      PROVE  f \in T
  <2> SUFFICES ASSUME NoName(Placed[f]), StringIds(Placed[f])
               PROVE  Matched[Rewrite[f]] = Shown[f]
    BY LeafIsFilter
  <2>1. /\ Rewrite[f] = RewriteLeaf(f) /\ RewriteLeaf(f) \in Leaves /\ RewriteLeaf(f).kind = f.kind
        /\ f \in FilterExpr /\ RewriteLeaf(f) \in FilterExpr
    BY RewriteDef, LeafIsFilter, LeafFacts, RewriteLeafType
  <2>2. /\ f.field # Name
        /\ f.field = DocId /\ f.kind \notin {"ac", "aca"} => \A i \in DOMAIN f.values : f.values[i].t = "str"
    <3> DEFINE p == [at |-> << >>, leaf |-> f]
    <3>1. p \in Placed[f] /\ p.leaf = f
      BY PlacedLeaf
    <3> HIDE DEF p
    <3> QED BY <3>1 DEF NoName, StringIds
  <2>3. f.kind \in Comparing \cup Listing \cup {"ac"}
    BY LeafFacts
  <2>4. Shown[f] = {doc \in Docs : Holds(Row(doc), f)}
    BY <2>1, <2>3, ShownDef DEF Comparing, Listing
  <2>5. Matched[Rewrite[f]] = {doc \in Docs : Meets(doc, Built(RewriteLeaf(f)))}
    <3>1. Operator(f.kind) \notin {"AND", "OR"}
      BY <2>3 DEF Operator, Comparing, Listing
    <3>2. Matched[RewriteLeaf(f)] = {doc \in Docs : Meets(doc, Built(RewriteLeaf(f)))}
      BY <2>1, <3>1, MatchedDef
    <3> QED BY <2>1, <3>2
  <2>6. \A doc \in Docs : Meets(doc, Built(RewriteLeaf(f))) <=> Holds(Row(doc), f)
    BY <2>2, LeafShown
  <2> QED BY <2>4, <2>5, <2>6
<1>2. ASSUME NEW f \in FilterExpr, f \in Branches(FilterExpr), \A i \in DOMAIN f.kids : f.kids[i] \in T
      PROVE  f \in T
  <2> SUFFICES ASSUME NoName(Placed[f]), StringIds(Placed[f])
               PROVE  Matched[Rewrite[f]] = Shown[f]
    OBVIOUS
  <2> DEFINE D == DOMAIN f.kids
             g == Rewrite[f]
             matched == {Matched[g.kids[i]] : i \in DOMAIN g.kids}
             shown == {Shown[f.kids[i]] : i \in D}
  <2>1. /\ g \in FilterExpr /\ g.kind = f.kind /\ f.kind \in {"and", "or"}
        /\ DOMAIN g.kids = D /\ \A i \in D : g.kids[i] = Rewrite[f.kids[i]]
    BY <1>2, RewrittenBranch, BranchFacts
  <2>2. \A i \in D : Matched[g.kids[i]] = Shown[f.kids[i]]
    <3>1. \A i \in D : NoName(Placed[f.kids[i]]) /\ StringIds(Placed[f.kids[i]])
      BY <1>2, KidsAreLegal
    <3> HIDE DEF g
    <3> QED BY <1>2, <2>1, <3>1
  <2>3. matched = shown
    <3> HIDE DEF g
    <3> QED BY <2>1, <2>2
  <2>4. Operator("and") = "AND" /\ Operator("or") = "OR"
    BY DEF Operator
  <2>5. Matched[g] = CASE Operator(g.kind) = "AND" -> {doc \in Docs : \A part \in matched : doc \in part}
                       [] Operator(g.kind) = "OR" -> UNION matched
                       [] OTHER -> {doc \in Docs : Meets(doc, Built(g))}
    BY <2>1, MatchedDef
  <2>6. Shown[f] = CASE f.kind = "and" -> {doc \in Docs : \A part \in shown : doc \in part}
                     [] f.kind = "or" -> UNION shown
                     [] OTHER -> {doc \in Docs : Holds(Row(doc), f)}
    BY ShownDef
  <2> HIDE DEF g, matched, shown
  <2>7. CASE f.kind = "and"
    BY <2>1, <2>3, <2>4, <2>5, <2>6, <2>7 DEF g
  <2>8. CASE f.kind = "or"
    BY <2>1, <2>3, <2>4, <2>5, <2>6, <2>8 DEF g
  <2> QED BY <2>1, <2>7, <2>8
<1>3. FilterExpr \subseteq T
  <2> HIDE DEF T
  <2> QED BY <1>1, <1>2, FilterInduction
<1> QED BY <1>3

\* What a filter that is let through is built into matches, at any depth, the
\* documents for whose rows it holds (rewrite_doc_id and build_filter).
THEOREM LegalMatchesRows ==
  ASSUME NEW f \in FilterExpr, Legal(f)
  PROVE  Matched[Rewrite[f]] = Shown[f]
BY LegalParts, MatchedIsShown

-----------------------------------------------------------------------------
(* How a text that was put together is read again.                         *)

LEMMA CountingFromOne ==
  ASSUME NEW m \in Nat, NEW T, 1 \in T, \A k \in 1..(m - 1) : k \in T => k + 1 \in T
  PROVE  1..m \subseteq T
<1> DEFINE U == {k \in Nat : k + 1 \in T}
<1>1. CASE m = 0
  BY <1>1
<1>2. CASE m # 0
  <2>1. 0 \in U
    OBVIOUS
  <2>2. ASSUME NEW k \in Nat, k < m - 1, k \in U
        PROVE  k + 1 \in U
    <3>1. k + 1 \in 1..(m - 1) /\ k + 1 \in T
      BY <2>2
    <3> QED BY <3>1
  <2>3. m - 1 \in Nat
    BY <1>2
  <2>4. 0..(m - 1) \subseteq U
    <3> HIDE DEF U
    <3> QED BY <2>1, <2>2, <2>3, CountingUp
  <2>5. ASSUME NEW i \in 1..m
        PROVE  i \in T
    <3>1. i - 1 \in U /\ (i - 1) + 1 = i
      BY <2>4
    <3> QED BY <3>1
  <2> QED BY <2>5
<1> QED BY <1>1, <1>2

LEMMA BehindConcat ==
  ASSUME NEW S, NEW a \in Seq(S), NEW b \in Seq(S), NEW i \in 1..Len(b)
  PROVE  (a \o b)[Len(a) + i] = b[i]
<1>1. Len(a) \in Nat /\ Len(b) \in Nat
  OBVIOUS
<1>2. Len(a) + i \in 1..(Len(a) + Len(b)) /\ ~(Len(a) + i <= Len(a)) /\ (Len(a) + i) - Len(a) = i
  BY <1>1
<1> QED BY <1>2, ConcatProperties

LEMMA SplitAtLength ==
  ASSUME NEW S, NEW a \in Seq(S), NEW b \in Seq(S), NEW c \in Seq(S), NEW d \in Seq(S),
         a \o b = c \o d, Len(a) = Len(c)
  PROVE  a = c /\ b = d
<1>1. \A i \in 1..Len(a) : a[i] = (a \o b)[i] /\ c[i] = (c \o d)[i]
  OBVIOUS
<1>2. a = c
  BY <1>1, SeqEqual
<1>3. Len(b) = Len(d)
  OBVIOUS
<1>4. \A i \in 1..Len(b) : b[i] = (a \o b)[Len(a) + i] /\ d[i] = (c \o d)[Len(c) + i]
  <2> TAKE i \in 1..Len(b)
  <2>1. b[i] = (a \o b)[Len(a) + i]
    BY BehindConcat, Zenon
  <2>2. i \in 1..Len(d)
    BY <1>3, Zenon
  <2>3. d[i] = (c \o d)[Len(c) + i]
    BY <2>2, BehindConcat, Zenon
  <2> QED BY <2>1, <2>3, Zenon
<1>5. b = d
  BY <1>3, <1>4, SeqEqual
<1> QED BY <1>2, <1>5

\* How a text begins: with a start, then a mark.
Reads(whole, start, mark, rest) == whole = start \o (<<mark>> \o rest)

\* What is read up to the first of some marks is read the same way.
LEMMA ReadsUpTo ==
  ASSUME NEW S, NEW E \in SUBSET S,
         NEW a \in Seq(S), NEW b \in Seq(S), NEW c \in Seq(S), NEW d \in Seq(S),
         \A i \in DOMAIN a : a[i] \notin E, \A i \in DOMAIN c : c[i] \notin E,
         NEW x \in E, NEW y \in E,
         NEW whole, Reads(whole, a, x, b), Reads(whole, c, y, d)
  PROVE  a = c /\ x = y /\ b = d
<1> DEFINE w == a \o (<<x>> \o b)
           v == c \o (<<y>> \o d)
<1>1. <<x>> \o b \in Seq(S) /\ <<y>> \o d \in Seq(S)
  OBVIOUS
<1>2. w[Len(a) + 1] = x /\ v[Len(c) + 1] = y
  BY <1>1
<1>3. (\A i \in 1..Len(a) : w[i] = a[i]) /\ (\A i \in 1..Len(c) : v[i] = c[i])
  BY <1>1
<1>4. Len(a) = Len(c)
  <2>1. Len(a) \in Nat /\ Len(c) \in Nat /\ DOMAIN a = 1..Len(a) /\ DOMAIN c = 1..Len(c)
    OBVIOUS
  <2>2. w = v
    BY DEF Reads
  <2> HIDE DEF w, v
  <2>3. ~(Len(a) < Len(c))
    <3> SUFFICES ASSUME Len(a) < Len(c) PROVE FALSE
      OBVIOUS
    <3>1. Len(a) + 1 \in 1..Len(c)
      BY <2>1
    <3> QED BY <1>2, <1>3, <2>1, <2>2, <3>1
  <2>4. ~(Len(c) < Len(a))
    <3> SUFFICES ASSUME Len(c) < Len(a) PROVE FALSE
      OBVIOUS
    <3>1. Len(c) + 1 \in 1..Len(a)
      BY <2>1
    <3> QED BY <1>2, <1>3, <2>1, <2>2, <3>1
  <2>5. \A k, l \in Nat : ~(k < l) /\ ~(l < k) => k = l
    OBVIOUS
  <2> QED BY <2>1, <2>3, <2>4, <2>5, Zenon
<1>5. w = v
  BY DEF Reads
<1> DEFINE l == <<x>> \o b
           m == <<y>> \o d
<1>6. l \in Seq(S) /\ m \in Seq(S) /\ a \o l = c \o m
  BY <1>1, <1>5
<1>7. a = c /\ l = m
  <2> HIDE DEF l, m
  <2> QED BY <1>4, <1>6, SplitAtLength
<1>8. <<x>> = <<y>> /\ b = d
  <2>1. <<x>> \in Seq(S) /\ <<y>> \in Seq(S) /\ Len(<<x>>) = Len(<<y>>)
    OBVIOUS
  <2> QED BY <1>7, <2>1, SplitAtLength
<1> QED BY <1>7, <1>8

\* FlattenSeq puts one part after the other behind what it has.
Grows(F, parts) ==
  /\ FlattenSeq(parts) = F[Len(parts)] /\ F[1] = parts[1]
  /\ \A i \in 1..(Len(parts) - 1) : F[i + 1] = F[i] \o parts[i + 1]

LEMMA Flattened ==
  ASSUME NEW S, NEW parts \in Seq(Seq(S)), Len(parts) # 0
  PROVE  \E F : Grows(F, parts) /\ \A i \in 1..Len(parts) : F[i] \in Seq(S)
<1> DEFINE n == Len(parts)
           Body(g, i) == IF i = 1 THEN parts[i] ELSE g[i - 1] \o parts[i]
           Reached == {m \in 1..n : \E g : \A i \in 1..m : g[i] = Body(g, i)}
<1>1. n \in Nat /\ n # 0 /\ \A i \in 1..n : parts[i] \in Seq(S)
  OBVIOUS
<1>2. ASSUME NEW i, NEW g, NEW h, i # 1 => g[i - 1] = h[i - 1]
      PROVE  Body(g, i) = Body(h, i)
  BY <1>2
<1>3. FlattenSeq(parts) = (CHOOSE f : f = [i \in 1..n |-> Body(f, i)])[n]
  BY <1>1 DEF FlattenSeq
<1>4. \A g : Body(g, 1) = parts[1]
  OBVIOUS
<1>5. \A g : \A i \in 1..(n - 1) : Body(g, i + 1) = g[i] \o parts[i + 1]
  <2>1. ASSUME NEW g, NEW i \in 1..(n - 1)
        PROVE  Body(g, i + 1) = g[i] \o parts[i + 1]
    <3>1. i + 1 # 1 /\ (i + 1) - 1 = i
      OBVIOUS
    <3> QED BY <3>1
  <2> QED BY <2>1
<1> HIDE DEF Body, n
<1>6. 1 \in Reached
  <2> DEFINE g == [i \in 1..1 |-> Body(parts, i)]
  <2>1. \A i \in 1..1 : g[i] = Body(g, i)
    BY <1>4
  <2> QED BY <1>1, <2>1
<1>7. ASSUME NEW k \in 1..(n - 1), k \in Reached
      PROVE  k + 1 \in Reached
  <2>1. PICK g : \A i \in 1..k : g[i] = Body(g, i)
    BY <1>7
  <2> DEFINE h == [i \in 1..(k + 1) |-> Body(g, i)]
  <2>2. \A i \in 1..k : h[i] = g[i]
    BY <2>1
  <2>3. ASSUME NEW i \in 1..(k + 1)
        PROVE  h[i] = Body(h, i)
    <3>1. i # 1 => i - 1 \in 1..k
      OBVIOUS
    <3>2. h[i] = Body(g, i)
      OBVIOUS
    <3> HIDE DEF h
    <3> QED BY <1>2, <2>2, <3>1, <3>2
  <2> HIDE DEF h
  <2>4. k + 1 \in 1..n
    BY <1>1
  <2> QED BY <2>3, <2>4
<1>8. n \in Reached
  <2> HIDE DEF Reached
  <2>1. 1..n \subseteq Reached
    BY <1>1, <1>6, <1>7, CountingFromOne
  <2> QED BY <1>1, <2>1
<1>9. PICK g : \A i \in 1..n : g[i] = Body(g, i)
  BY <1>8
<1> DEFINE h == [i \in 1..n |-> g[i]]
<1>10. h = [i \in 1..n |-> Body(h, i)]
  <2>1. ASSUME NEW i \in 1..n
        PROVE  Body(h, i) = g[i]
    <3>1. i # 1 => i - 1 \in 1..n
      BY <1>1
    <3>2. i # 1 => h[i - 1] = g[i - 1]
      BY <3>1
    <3> HIDE DEF h
    <3> QED BY <1>2, <1>9, <3>2
  <2> QED BY <2>1
<1> DEFINE F == CHOOSE f : f = [i \in 1..n |-> Body(f, i)]
<1>11. F = [i \in 1..n |-> Body(F, i)]
  <2> HIDE DEF h
  <2> QED BY <1>10
<1>12. FlattenSeq(parts) = F[n]
  BY <1>3
<1> HIDE DEF F
<1>13. F[1] = parts[1]
  BY <1>1, <1>4, <1>11
<1>14. ASSUME NEW i \in 1..(n - 1)
       PROVE  F[i + 1] = F[i] \o parts[i + 1]
  <2>1. i + 1 \in 1..n
    BY <1>1
  <2>2. F[i + 1] = Body(F, i + 1)
    BY <1>11, <2>1
  <2> QED BY <1>5, <2>2
<1>15. \A i \in 1..n : F[i] \in Seq(S)
  <2> DEFINE Done == {k \in 1..n : F[k] \in Seq(S)}
  <2>1. 1 \in Done
    BY <1>1, <1>13
  <2>2. ASSUME NEW k \in 1..(n - 1), k \in Done
        PROVE  k + 1 \in Done
    <3>1. k + 1 \in 1..n
      BY <1>1
    <3>2. parts[k + 1] \in Seq(S) /\ F[k] \in Seq(S)
      BY <1>1, <2>2, <3>1
    <3>3. F[k + 1] = F[k] \o parts[k + 1]
      BY <1>14
    <3>4. F[k] \o parts[k + 1] \in Seq(S)
      BY <3>2, ConcatProperties
    <3> QED BY <3>1, <3>3, <3>4
  <2> HIDE DEF Done
  <2>3. 1..n \subseteq Done
    BY <1>1, <2>1, <2>2, CountingFromOne
  <2> QED BY <2>3 DEF Done
<1>16. Grows(F, parts)
  BY <1>12, <1>13, <1>14 DEF Grows, n
<1> QED BY <1>15, <1>16 DEF n

\* Parts of a text may be put together in any order.
Regroups(a, b, c, d) == (a \o (b \o c)) \o d = a \o (b \o (c \o d))

LEMMA Regrouped ==
  ASSUME NEW S, NEW a \in Seq(S), NEW b \in Seq(S), NEW c \in Seq(S), NEW d \in Seq(S)
  PROVE  Regroups(a, b, c, d)
BY DEF Regroups

Assoc(a, b, c) == (a \o b) \o c = a \o (b \o c)

LEMMA Associates ==
  ASSUME NEW S, NEW a \in Seq(S), NEW b \in Seq(S), NEW c \in Seq(S)
  PROVE  Assoc(a, b, c)
BY DEF Assoc

\* Joined puts one text after the other, and each goes on behind its mark.
Joins(F, texts, e) ==
  /\ Joined(texts, e) = F[Len(texts)] /\ F[1] = texts[1]
  /\ \A i \in 1..(Len(texts) - 1) : Reads(F[i + 1], F[i], e, texts[i + 1])
GoesOn(S, whole, start, mark) == \E y \in Seq(S) : Reads(whole, start, mark, y)

LEMMA JoinedSplit ==
  ASSUME NEW S, NEW texts \in Seq(Seq(S)), Len(texts) # 0, NEW e \in S, NEW close \in S, NEW r \in Seq(S),
         NEW whole, Reads(whole, Joined(texts, e), close, r)
  PROVE  \E F :
           /\ Joins(F, texts, e)
           /\ \A i \in 1..Len(texts) :
                /\ F[i] \in Seq(S)
                /\ GoesOn(S, whole, F[i], IF i = Len(texts) THEN close ELSE e)
<1> DEFINE n == Len(texts)
           parts == [i \in DOMAIN texts |-> IF i = 1 THEN texts[i] ELSE <<e>> \o texts[i]]
           End(i) == IF i = n THEN close ELSE e
           Whole == Joined(texts, e) \o (<<close>> \o r)
<1>1. n \in Nat /\ n # 0 /\ DOMAIN texts = 1..n /\ \A i \in 1..n : texts[i] \in Seq(S)
  OBVIOUS
<1>2. parts \in Seq(Seq(S)) /\ Len(parts) = n
  <2>1. ASSUME NEW i \in 1..n
        PROVE  (IF i = 1 THEN texts[i] ELSE <<e>> \o texts[i]) \in Seq(S)
    BY <1>1, ConcatProperties
  <2> QED BY <1>1, <2>1
<1>3. \A i \in 1..n : parts[i] = IF i = 1 THEN texts[i] ELSE <<e>> \o texts[i]
  BY <1>1
<1>4. Joined(texts, e) = FlattenSeq(parts)
  BY DEF Joined
<1> HIDE DEF n, parts
<1>5. PICK F : Grows(F, parts) /\ \A i \in 1..n : F[i] \in Seq(S)
  BY <1>1, <1>2, Flattened
<1>6. /\ FlattenSeq(parts) = F[n] /\ F[1] = parts[1]
       /\ \A i \in 1..(n - 1) : F[i + 1] = F[i] \o parts[i + 1]
  BY <1>2, <1>5 DEF Grows
<1>7. F[1] = texts[1]
  BY <1>1, <1>3, <1>6
<1>8. ASSUME NEW i \in 1..(n - 1)
      PROVE  F[i + 1] = F[i] \o (<<e>> \o texts[i + 1])
  <2>1. i + 1 \in 1..n /\ i + 1 # 1
    BY <1>1
  <2>2. parts[i + 1] = <<e>> \o texts[i + 1]
    BY <1>3, <2>1
  <2> QED BY <1>6, <2>2
<1> DEFINE Rest(i) == \E y \in Seq(S) : Whole = F[i] \o (<<End(i)>> \o y)
           Done == {k \in Nat : k < n => Rest(n - k)}
<1>9. 0 \in Done
  <2>1. Whole = F[n] \o (<<End(n)>> \o r)
    BY <1>4, <1>6
  <2> HIDE DEF Whole, End
  <2>2. n - 0 = n
    BY <1>1
  <2> QED BY <2>1, <2>2
<1>10. ASSUME NEW k \in Nat, k < n, k \in Done
      PROVE  k + 1 \in Done
  <2>1. CASE k + 1 < n
    <3> DEFINE i == n - (k + 1)
    <3>1. i \in 1..(n - 1) /\ i + 1 = n - k /\ i # n /\ i \in 1..n /\ i + 1 \in 1..n
      BY <1>1, <2>1
    <3> HIDE DEF i
    <3>2. PICK y \in Seq(S) : Whole = F[i + 1] \o (<<End(i + 1)>> \o y)
      BY <1>10, <3>1
    <3>3. /\ F[i] \in Seq(S) /\ texts[i + 1] \in Seq(S)
          /\ F[i + 1] = F[i] \o (<<e>> \o texts[i + 1]) /\ End(i) = e /\ <<End(i + 1)>> \in Seq(S)
      <4>1. F[i] \in Seq(S)
        BY <1>5, <3>1
      <4>2. texts[i + 1] \in Seq(S)
        BY <1>1, <3>1
      <4>3. F[i + 1] = F[i] \o (<<e>> \o texts[i + 1])
        BY <1>8, <3>1
      <4>4. End(i) = e
        BY <3>1
      <4>5. End(i + 1) \in S
        OBVIOUS
      <4> HIDE DEF End
      <4> QED BY <4>1, <4>2, <4>3, <4>4, <4>5
    <3> DEFINE rest == <<End(i + 1)>> \o y
    <3>4. rest \in Seq(S)
      BY <3>3, ConcatProperties
    <3> HIDE DEF rest, Whole, End
    <3>5. Whole = F[i] \o (<<e>> \o (texts[i + 1] \o rest))
      <4> DEFINE d == <<e>>
                 t == texts[i + 1]
                 f == F[i]
      <4>1. d \in Seq(S) /\ t \in Seq(S) /\ f \in Seq(S)
        BY <3>3
      <4> HIDE DEF d, t, f
      <4>2. Regroups(f, d, t, rest)
        BY <3>4, <4>1, Regrouped, Zenon
      <4> QED BY <3>2, <3>3, <4>2 DEF Regroups, rest, d, t, f
    <3>6. texts[i + 1] \o rest \in Seq(S)
      BY <3>3, <3>4, ConcatProperties
    <3>7. Rest(i)
      BY <3>3, <3>5, <3>6
    <3> HIDE DEF Rest
    <3> QED BY <3>7 DEF i
  <2>2. CASE ~(k + 1 < n)
    <3> HIDE DEF Rest
    <3> QED BY <2>2
  <2> QED BY <2>1, <2>2
<1> HIDE DEF Done
<1>11. 0..n \subseteq Done
  BY <1>1, <1>9, <1>10, CountingUp
<1>12. ASSUME NEW i \in 1..n
       PROVE  Rest(i)
  <2>1. n - i \in 0..n /\ n - (n - i) = i /\ n - i < n
    BY <1>1
  <2> HIDE DEF Rest
  <2> QED BY <1>11, <2>1 DEF Done
<1>13. \A i \in 1..n : GoesOn(S, Whole, F[i], End(i))
  <2> HIDE DEF Whole, End
  <2> QED BY <1>12 DEF GoesOn, Reads
<1>14. Joins(F, texts, e)
  BY <1>4, <1>6, <1>7, <1>8 DEF n, Joins, Reads
<1>15. whole = Whole
  BY DEF Reads, Whole
<1> QED BY <1>5, <1>13, <1>14, <1>15 DEF n

BothRead(a, x, u, b, y, v) == \E t : Reads(t, a, x, u) /\ Reads(t, b, y, v)

\* Words are apart when each can be told before one of the marks behind it.
Apart(S, words, marks) ==
  \A a, b \in words, x, y \in marks, r, s \in Seq(S) : BothRead(a, x, r, b, y, s) => a = b
Opens(S, words, marks, close) ==
  \A a \in words, x \in marks, r, s \in Seq(S) : ~BothRead(a, x, r, << >>, close, s)

LEMMA SameMark ==
  ASSUME NEW S, NEW f \in Seq(S), NEW x \in S, NEW y \in S, NEW u \in Seq(S), NEW v \in Seq(S),
         NEW w, Reads(w, f, x, u), Reads(w, f, y, v)
  PROVE  x = y /\ u = v
<1> DEFINE l == <<x>> \o u
           m == <<y>> \o v
<1>1. l \in Seq(S) /\ m \in Seq(S)
  OBVIOUS
<1>2. f \o l = f \o m
  BY DEF Reads
<1>3. <<x>> \in Seq(S) /\ <<y>> \in Seq(S) /\ Len(<<x>>) = Len(<<y>>)
  OBVIOUS
<1>4. l = m
  <2> HIDE DEF l, m
  <2> QED BY <1>1, <1>2, SplitAtLength
<1>5. <<x>> = <<y>> /\ u = v
  BY <1>3, <1>4, SplitAtLength
<1> QED BY <1>5

LEMMA NextWord ==
  ASSUME NEW S, NEW f \in Seq(S), NEW e \in S, NEW a \in Seq(S), NEW b \in Seq(S),
         NEW x \in S, NEW y \in S, NEW u \in Seq(S), NEW v \in Seq(S),
         NEW g, NEW h, NEW w,
         Reads(g, f, e, a), Reads(h, f, e, b), Reads(w, g, x, u), Reads(w, h, y, v)
  PROVE  BothRead(a, x, u, b, y, v)
<1> DEFINE d == <<e>>
           l == <<x>> \o u
           m == <<y>> \o v
           al == a \o l
           bm == b \o m
<1>1. d \in Seq(S) /\ l \in Seq(S) /\ m \in Seq(S)
  OBVIOUS
<1>2. (f \o (d \o a)) \o l = (f \o (d \o b)) \o m
  BY DEF Reads
<1> HIDE DEF d, l, m
<1>3. Regroups(f, d, a, l) /\ Regroups(f, d, b, m)
  BY <1>1, Regrouped
<1>4. f \o (d \o al) = f \o (d \o bm)
  BY <1>2, <1>3 DEF Regroups
<1>5. al \in Seq(S) /\ bm \in Seq(S)
  BY <1>1, ConcatProperties
<1> HIDE DEF al, bm
<1> DEFINE dl == d \o al
           dm == d \o bm
<1>6. dl \in Seq(S) /\ dm \in Seq(S)
  BY <1>1, <1>5, ConcatProperties
<1>7. f \o dl = f \o dm
  BY <1>4
<1> HIDE DEF dl, dm
<1>8. dl = dm
  BY <1>6, <1>7, SplitAtLength
<1>9. al = bm
  BY <1>1, <1>5, <1>8, SplitAtLength DEF dl, dm
<1> QED BY <1>9 DEF al, bm, l, m, Reads, BothRead

\* One that has words is not read as one that has none.
LEMMA WordsOpen ==
  ASSUME NEW words \in SUBSET Seq(Pieces), NEW e \in Pieces, NEW close \in Pieces,
         Opens(Pieces, words, {e, close}, close),
         NEW p \in Seq(words), NEW r \in Seq(Pieces), NEW s \in Seq(Pieces),
         NEW whole, Reads(whole, Joined(p, e), close, r), Reads(whole, << >>, close, s)
  PROVE  p = << >>
<1> SUFFICES ASSUME p # << >> PROVE FALSE
  OBVIOUS
<1>1. p \in Seq(Seq(Pieces)) /\ Len(p) # 0 /\ 1 \in 1..Len(p) /\ p[1] \in words
  OBVIOUS
<1>2. PICK F : /\ Joins(F, p, e)
               /\ \A i \in 1..Len(p) :
                    /\ F[i] \in Seq(Pieces)
                    /\ GoesOn(Pieces, whole, F[i], IF i = Len(p) THEN close ELSE e)
  BY <1>1, JoinedSplit
<1> DEFINE x == IF 1 = Len(p) THEN close ELSE e
<1>3. x \in {e, close}
  OBVIOUS
<1> HIDE DEF x
<1>4. GoesOn(Pieces, whole, p[1], x)
  BY <1>1, <1>2 DEF Joins, x
<1>5. PICK y \in Seq(Pieces) : Reads(whole, p[1], x, y)
  BY <1>4 DEF GoesOn
<1>6. BothRead(p[1], x, y, << >>, close, s)
  BY <1>5 DEF BothRead
<1> QED BY <1>1, <1>3, <1>6 DEF Opens

\* The same text is read as the same words.
LEMMA JoinedRead ==
  ASSUME NEW S, NEW words \in SUBSET Seq(S), NEW e \in S, NEW close \in S, e # close,
         Apart(S, words, {e, close}), Opens(S, words, {e, close}, close),
         NEW p \in Seq(words), NEW q \in Seq(words), NEW r \in Seq(S), NEW s \in Seq(S),
         p # << >>, q # << >>,
         NEW whole, Reads(whole, Joined(p, e), close, r), Reads(whole, Joined(q, e), close, s)
  PROVE  p = q
<1> DEFINE n == Len(p)
           m == Len(q)
           P(i) == IF i = n THEN close ELSE e
           Q(i) == IF i = m THEN close ELSE e
<1>1. /\ p \in Seq(Seq(S)) /\ q \in Seq(Seq(S)) /\ n \in Nat \ {0} /\ m \in Nat \ {0}
      /\ \A i \in 1..n : p[i] \in words
      /\ \A i \in 1..m : q[i] \in words
  OBVIOUS
<1>2. PICK F : /\ Joins(F, p, e)
               /\ \A i \in 1..n : F[i] \in Seq(S) /\ GoesOn(S, whole, F[i], P(i))
  BY <1>1, JoinedSplit
<1>3. PICK G : /\ Joins(G, q, e)
               /\ \A i \in 1..m : G[i] \in Seq(S) /\ GoesOn(S, whole, G[i], Q(i))
  BY <1>1, JoinedSplit
<1>4. /\ F[1] = p[1] /\ \A i \in 1..(n - 1) : Reads(F[i + 1], F[i], e, p[i + 1])
      /\ G[1] = q[1] /\ \A i \in 1..(m - 1) : Reads(G[i + 1], G[i], e, q[i + 1])
  BY <1>2, <1>3 DEF Joins
<1>5. \A i : P(i) \in {e, close} /\ Q(i) \in {e, close} /\ P(i) \in S /\ Q(i) \in S
  OBVIOUS
<1>6. \A i : (i # n => P(i) = e) /\ (i # m => Q(i) = e) /\ P(n) = close /\ Q(m) = close
  OBVIOUS
<1> HIDE DEF n, m, P, Q
<1>7. ASSUME NEW a \in words, NEW b \in words, NEW i \in 1..n, NEW j \in 1..m,
             NEW y \in Seq(S), NEW z \in Seq(S),
             NEW w, Reads(w, a, P(i), y), Reads(w, b, Q(j), z)
      PROVE  a = b
  <2>1. BothRead(a, P(i), y, b, Q(j), z)
    BY <1>7 DEF BothRead
  <2> QED BY <1>5, <2>1 DEF Apart
<1> DEFINE Agreed == {k \in 1..n : k <= m /\ F[k] = G[k] /\ \A i \in 1..k : p[i] = q[i]}
<1>8. 1 \in Agreed
  <2>1. 1 \in 1..n /\ 1 \in 1..m
    BY <1>1
  <2>2. PICK y \in Seq(S) : Reads(whole, F[1], P(1), y)
    BY <1>2, <2>1 DEF GoesOn
  <2>3. PICK z \in Seq(S) : Reads(whole, G[1], Q(1), z)
    BY <1>3, <2>1 DEF GoesOn
  <2>4. p[1] = q[1]
    BY <1>1, <1>4, <1>7, <2>1, <2>2, <2>3
  <2> QED BY <1>1, <1>4, <2>1, <2>4
<1>9. ASSUME NEW k \in 1..(n - 1), k \in Agreed, k < m
      PROVE  k + 1 \in Agreed
  <2>1. k + 1 \in 1..n /\ k + 1 \in 1..m /\ k \in 1..(m - 1) /\ k \in 1..n
    BY <1>1, <1>9
  <2>2. PICK y \in Seq(S) : Reads(whole, F[k + 1], P(k + 1), y)
    BY <1>2, <2>1 DEF GoesOn
  <2>3. PICK z \in Seq(S) : Reads(whole, G[k + 1], Q(k + 1), z)
    BY <1>3, <2>1 DEF GoesOn
  <2> DEFINE f == F[k]
             a == p[k + 1]
             b == q[k + 1]
  <2>4. Reads(F[k + 1], f, e, a) /\ Reads(G[k + 1], f, e, b)
    BY <1>4, <1>9, <2>1
  <2>5. f \in Seq(S) /\ a \in words /\ b \in words
    BY <1>1, <1>2, <2>1
  <2>6. a \in Seq(S) /\ b \in Seq(S)
    BY <2>5
  <2> HIDE DEF f, a, b
  <2>7. \E t : Reads(t, a, P(k + 1), y) /\ Reads(t, b, Q(k + 1), z)
    <3> DEFINE c == P(k + 1)
               d == Q(k + 1)
               g == F[k + 1]
               h == G[k + 1]
    <3>1. c \in S /\ d \in S /\ Reads(whole, g, c, y) /\ Reads(whole, h, d, z)
      BY <1>5, <2>2, <2>3
    <3>2. Reads(g, f, e, a) /\ Reads(h, f, e, b)
      BY <2>4
    <3> HIDE DEF c, d, g, h
    <3>3. BothRead(a, c, y, b, d, z)
      BY <2>5, <2>6, <3>1, <3>2, NextWord
    <3> QED BY <3>3 DEF c, d, BothRead
  <2>8. a = b
    BY <1>7, <2>1, <2>5, <2>7
  <2>9. F[k + 1] = G[k + 1]
    BY <2>4, <2>8 DEF Reads
  <2>10. \A i \in 1..(k + 1) : p[i] = q[i]
    <3>1. \A i \in 1..(k + 1) : i \in 1..k \/ i = k + 1
      OBVIOUS
    <3> QED BY <1>9, <2>8, <3>1 DEF a, b
  <2> QED BY <1>1, <2>1, <2>9, <2>10
<1> HIDE DEF Agreed
<1>10. \A k \in 1..n : k <= m => k \in Agreed
  <2> DEFINE T == {k \in 1..n : k <= m => k \in Agreed}
  <2>1. 1 \in T
    BY <1>1, <1>8
  <2>2. ASSUME NEW k \in 1..(n - 1), k \in T
        PROVE  k + 1 \in T
    <3>1. k + 1 \in 1..n /\ k \in 1..n /\ (k + 1 <= m => k <= m /\ k < m)
      BY <1>1
    <3> QED BY <1>9, <2>2, <3>1
  <2> HIDE DEF T
  <2>3. 1..n \subseteq T
    BY <1>1, <2>1, <2>2, CountingFromOne
  <2> QED BY <2>3 DEF T
<1>11. n = m
  <2>1. ~(n < m)
    <3> SUFFICES ASSUME n < m PROVE FALSE
      OBVIOUS
    <3>1. n \in 1..n /\ n \in 1..m /\ n <= m /\ n # m
      BY <1>1
    <3>2. F[n] = G[n] /\ F[n] \in Seq(S)
      BY <1>2, <1>10, <3>1 DEF Agreed
    <3>3. PICK y \in Seq(S) : Reads(whole, F[n], close, y)
      BY <1>2, <1>6, <3>1 DEF GoesOn
    <3>4. PICK z \in Seq(S) : Reads(whole, F[n], e, z)
      BY <1>3, <1>6, <3>1, <3>2 DEF GoesOn
    <3>5. close = e
      BY <3>2, <3>3, <3>4, SameMark
    <3> QED BY <3>5
  <2>2. ~(m < n)
    <3> SUFFICES ASSUME m < n PROVE FALSE
      OBVIOUS
    <3>1. m \in 1..n /\ m \in 1..m /\ n # m /\ m <= m
      BY <1>1
    <3>2. F[m] = G[m] /\ F[m] \in Seq(S)
      BY <1>2, <1>10, <3>1 DEF Agreed
    <3>3. PICK y \in Seq(S) : Reads(whole, F[m], e, y)
      BY <1>2, <1>6, <3>1 DEF GoesOn
    <3>4. PICK z \in Seq(S) : Reads(whole, F[m], close, z)
      BY <1>3, <1>6, <3>1, <3>2 DEF GoesOn
    <3>5. close = e
      BY <3>2, <3>3, <3>4, SameMark
    <3> QED BY <3>5
  <2>3. \A k, l \in Nat : ~(k < l) /\ ~(l < k) => k = l
    OBVIOUS
  <2> QED BY <1>1, <2>1, <2>2, <2>3, Zenon
<1>12. \A i \in 1..n : p[i] = q[i]
  <2>1. n \in 1..n /\ n <= m
    BY <1>1, <1>11
  <2> QED BY <1>10, <2>1 DEF Agreed
<1>13. Len(p) = Len(q) /\ \A i \in 1..Len(p) : p[i] = q[i]
  BY <1>11, <1>12 DEF n, m
<1> QED BY <1>1, <1>13, SeqEqual

-----------------------------------------------------------------------------
(* Literals.                                                               *)

\* What may stand behind a literal.
Ends == {",", "]", ")"}

\* A string without quotes in it, a time and an id without what ends them.
PlainLiteral(l) ==
  \A i \in DOMAIN l.v :
    /\ l.t = "str" => l.v[i] # "'"
    /\ l.t \in {"timestamp", "ref"} => l.v[i] \notin Ends

Lead(l) ==
  CASE l.t = "str" -> "'"
    [] l.t \in {"int", "float"} -> Decimal(l.n)
    [] l.t = "bool" -> IF l.n = 1 THEN "true" ELSE "false"
    [] l.t = "null" -> "null"
    [] l.t = "timestamp" -> "ts:"
    [] l.t = "ref" -> "ref:"
Behind(v) == IF v = << >> THEN <<"0">> ELSE v
Trail(l) ==
  CASE l.t = "str" -> l.v \o <<"'">>
    [] l.t = "float" -> <<".">> \o Behind(l.v)
    [] l.t \in {"int", "bool", "null"} -> << >>
    [] l.t \in {"timestamp", "ref"} -> l.v

LEMMA OperandFacts ==
  ASSUME NEW l \in Operands
  PROVE  /\ l = [t |-> l.t, v |-> l.v, n |-> l.n]
         /\ \/ l.t \in {"str", "timestamp", "ref"} /\ l.v \in Characters /\ l.n = 0
            \/ l.t = "int" /\ l.v = << >> /\ l.n \in Wholes
            \/ l.t = "float" /\ l.v \in Fractions /\ l.n \in Wholes
            \/ l.t = "bool" /\ l.v = << >> /\ l.n \in {0, 1}
            \/ l.t = "null" /\ l.v = << >> /\ l.n = 0
BY DEF Operands

LEMMA OperandSame ==
  ASSUME NEW l \in Operands, NEW m \in Operands, l.t = m.t, l.v = m.v, l.n = m.n
  PROVE  l = m
BY OperandFacts

LEMMA MarksArePieces ==
  /\ Marks \subseteq Pieces /\ Digits \subseteq Pieces /\ \A n \in Wholes : Decimal(n) \in Pieces
  /\ \A n \in Wholes : Decimal(n) \notin Marks
BY AlphabetAssumption, DecimalAssumption DEF Numerals

LEMMA DigitPieces ==
  ASSUME NEW v \in Fractions
  PROVE  Behind(v) \in Seq(Pieces) /\ Behind(v) \in Seq(Digits)
<1>1. v \in Seq(Digits)
  BY DEF Fractions
<1>2. Behind(v) \in Seq(Digits)
  <2>1. "0" \in Digits
    BY DEF Digits
  <2>2. <<"0">> \in Seq(Digits)
    BY <2>1
  <2> QED BY <1>1, <2>2 DEF Behind
<1>3. \A i \in 1..Len(Behind(v)) : Behind(v)[i] \in Pieces
  BY <1>2, MarksArePieces
<1> QED BY <1>2, <1>3

LEMMA LiteralText ==
  ASSUME NEW l \in Operands
  PROVE  /\ Lead(l) \in Pieces /\ Trail(l) \in Seq(Pieces)
         /\ CanonicalLiteral(l) = <<Lead(l)>> \o Trail(l)
         /\ Lead(l) \notin {"[", "]", ",", ")", "(", " "}
<1>1. CASE l.t \in {"str", "timestamp", "ref"}
  <2>1. l.v \in Seq(Pieces) /\ {"'", "ts:", "ref:"} \subseteq Pieces
    BY <1>1, OperandFacts, MarksArePieces DEF Characters, Marks
  <2>2. CASE l.t = "str"
    <3>1. Lead(l) = "'" /\ Trail(l) = l.v \o <<"'">> /\ CanonicalLiteral(l) = <<"'">> \o l.v \o <<"'">>
      BY <2>2 DEF Lead, Trail, CanonicalLiteral
    <3>2. <<"'">> \in Seq(Pieces)
      BY <2>1
    <3> DEFINE q == <<"'">>
    <3>3. (q \o l.v) \o q = q \o (l.v \o q) /\ l.v \o q \in Seq(Pieces)
      <4> DEFINE v == l.v
      <4>1. q \in Seq(Pieces) /\ v \in Seq(Pieces)
        BY <2>1, <3>2
      <4> HIDE DEF q, v
      <4>2. (q \o v) \o q = q \o (v \o q) /\ v \o q \in Seq(Pieces)
        BY <4>1
      <4> QED BY <4>2 DEF v
    <3> QED BY <2>1, <3>1, <3>3
  <2>3. CASE l.t = "timestamp"
    <3>1. Lead(l) = "ts:" /\ Trail(l) = l.v /\ CanonicalLiteral(l) = <<"ts:">> \o l.v
      BY <2>3 DEF Lead, Trail, CanonicalLiteral
    <3> QED BY <2>1, <3>1
  <2>4. CASE l.t = "ref"
    <3>1. Lead(l) = "ref:" /\ Trail(l) = l.v /\ CanonicalLiteral(l) = <<"ref:">> \o l.v
      BY <2>4 DEF Lead, Trail, CanonicalLiteral
    <3> QED BY <2>1, <3>1
  <2> QED BY <1>1, <2>2, <2>3, <2>4
<1>2. CASE l.t = "int"
  <2>1. l.n \in Wholes /\ Decimal(l.n) \in Pieces /\ Decimal(l.n) \notin Marks
    BY <1>2, OperandFacts, MarksArePieces
  <2>2. Lead(l) = Decimal(l.n) /\ Trail(l) = << >> /\ CanonicalLiteral(l) = <<Decimal(l.n)>>
    BY <1>2 DEF Lead, Trail, CanonicalLiteral
  <2>3. Lead(l) \notin {"[", "]", ",", ")", "(", " "}
    BY <2>1, <2>2 DEF Marks
  <2> DEFINE d == Decimal(l.n)
  <2>4. d \in Pieces
    BY <2>1
  <2> HIDE DEF d
  <2>5. <<d>> = <<d>> \o << >> /\ << >> \in Seq(Pieces)
    BY <2>4
  <2> QED BY <2>2, <2>3, <2>4, <2>5 DEF d
<1>3. CASE l.t = "float"
  <2>1. /\ l.n \in Wholes /\ Decimal(l.n) \in Pieces /\ Decimal(l.n) \notin Marks
        /\ l.v \in Fractions /\ "." \in Pieces /\ Behind(l.v) \in Seq(Pieces)
    BY <1>3, OperandFacts, MarksArePieces, DigitPieces DEF Marks
  <2>2. /\ Lead(l) = Decimal(l.n) /\ Trail(l) = <<".">> \o Behind(l.v)
        /\ CanonicalLiteral(l) = <<Decimal(l.n), ".">> \o Behind(l.v)
    BY <1>3 DEF Lead, Trail, CanonicalLiteral, Behind
  <2>3. Lead(l) \notin {"[", "]", ",", ")", "(", " "}
    BY <2>1, <2>2 DEF Marks
  <2> DEFINE d == Decimal(l.n)
             v == Behind(l.v)
  <2>4. d \in Pieces /\ v \in Seq(Pieces)
    BY <2>1
  <2> HIDE DEF d, v
  <2>5. <<d, ".">> \o v = <<d>> \o (<<".">> \o v)
    BY <2>1, <2>4
  <2>6. <<".">> \o v \in Seq(Pieces)
    BY <2>1, <2>4
  <2> QED BY <2>2, <2>3, <2>4, <2>5, <2>6 DEF d, v
<1>4. CASE l.t = "bool"
  <2>1. {"true", "false"} \subseteq Pieces
    BY MarksArePieces DEF Marks
  <2>2. /\ Lead(l) = (IF l.n = 1 THEN "true" ELSE "false") /\ Trail(l) = << >>
        /\ CanonicalLiteral(l) = <<IF l.n = 1 THEN "true" ELSE "false">>
    BY <1>4 DEF Lead, Trail, CanonicalLiteral
  <2> QED BY <2>1, <2>2
<1>5. CASE l.t = "null"
  <2>1. "null" \in Pieces
    BY MarksArePieces DEF Marks
  <2>2. Lead(l) = "null" /\ Trail(l) = << >> /\ CanonicalLiteral(l) = <<"null">>
    BY <1>5 DEF Lead, Trail, CanonicalLiteral
  <2> QED BY <2>1, <2>2
<1> QED BY <1>1, <1>2, <1>3, <1>4, <1>5, OperandFacts

LEMMA FirstPiece ==
  ASSUME NEW S, NEW a \in S, NEW b \in S, NEW t \in Seq(S), NEW u \in Seq(S),
         NEW x \in S, NEW y \in S, NEW r \in Seq(S), NEW s \in Seq(S),
         NEW w, Reads(w, <<a>> \o t, x, r), Reads(w, <<b>> \o u, y, s)
  PROVE  a = b /\ BothRead(t, x, r, u, y, s)
<1> DEFINE c == <<a>>
           d == <<b>>
           l == <<x>> \o r
           m == <<y>> \o s
           tl == t \o l
           um == u \o m
<1>1. c \in Seq(S) /\ d \in Seq(S) /\ l \in Seq(S) /\ m \in Seq(S) /\ Len(c) = Len(d)
  OBVIOUS
<1>2. (c \o t) \o l = (d \o u) \o m
  BY DEF Reads
<1> HIDE DEF c, d, l, m
<1>3. (c \o t) \o l = c \o tl /\ (d \o u) \o m = d \o um /\ tl \in Seq(S) /\ um \in Seq(S)
  <2>1. Assoc(c, t, l) /\ Assoc(d, u, m)
    BY <1>1, Associates
  <2>2. t \o l \in Seq(S) /\ u \o m \in Seq(S)
    BY <1>1, ConcatProperties
  <2> QED BY <2>1, <2>2 DEF Assoc
<1> HIDE DEF tl, um
<1>4. c \o tl = d \o um
  BY <1>2, <1>3
<1>5. c = d /\ tl = um
  BY <1>1, <1>3, <1>4, SplitAtLength
<1>6. a = b
  BY <1>5 DEF c, d
<1> QED BY <1>5, <1>6 DEF tl, um, l, m, BothRead, Reads

\* Up to the first of a mark, a text is read in one way.
LEMMA ReadsUpToMark ==
  ASSUME NEW q \in Pieces,
         NEW a \in Seq(Pieces), NEW b \in Seq(Pieces), NEW c \in Seq(Pieces), NEW d \in Seq(Pieces),
         \A i \in DOMAIN a : a[i] # q, \A i \in DOMAIN c : c[i] # q,
         NEW whole, Reads(whole, a, q, b), Reads(whole, c, q, d)
  PROVE  a = c
<1> DEFINE E == {q}
<1>1. E \in SUBSET Pieces /\ q \in E
  OBVIOUS
<1>2. (\A i \in DOMAIN a : a[i] \notin E) /\ (\A i \in DOMAIN c : c[i] \notin E)
  OBVIOUS
<1> HIDE DEF E
<1> QED BY <1>1, <1>2, ReadsUpTo

\* A literal is told before what ends it, and no two are written the same.
LEMMA LiteralRead ==
  ASSUME NEW l \in Operands, NEW m \in Operands, PlainLiteral(l), PlainLiteral(m),
         NEW x \in Ends, NEW y \in Ends, NEW r \in Seq(Pieces), NEW s \in Seq(Pieces),
         NEW w, Reads(w, CanonicalLiteral(l), x, r), Reads(w, CanonicalLiteral(m), y, s)
  PROVE  l = m
<1>1. Ends \subseteq Pieces /\ "." \in Pieces /\ "'" \in Pieces
  BY MarksArePieces DEF Marks, Ends
<1>2. Lead(l) = Lead(m) /\ BothRead(Trail(l), x, r, Trail(m), y, s)
  <2> DEFINE a == Lead(l)
             b == Lead(m)
             t == Trail(l)
             u == Trail(m)
  <2>1. a \in Pieces /\ b \in Pieces /\ t \in Seq(Pieces) /\ u \in Seq(Pieces)
    BY LiteralText
  <2>2. Reads(w, <<a>> \o t, x, r) /\ Reads(w, <<b>> \o u, y, s)
    BY LiteralText
  <2>3. x \in Pieces /\ y \in Pieces
    BY <1>1
  <2> HIDE DEF a, b, t, u
  <2>4. a = b /\ BothRead(t, x, r, u, y, s)
    BY <2>1, <2>2, <2>3, FirstPiece
  <2> QED BY <2>4 DEF a, b, t, u
<1>3. PICK z : Reads(z, Trail(l), x, r) /\ Reads(z, Trail(m), y, s)
  BY <1>2 DEF BothRead
<1>4. \/ l.t = m.t
      \/ l.t \in {"int", "float"} /\ m.t \in {"int", "float"}
  <2> DEFINE Number(o) == o.t \in {"int", "float"}
  <2>1. ASSUME NEW o \in Operands
        PROVE  /\ Number(o) => Lead(o) = Decimal(o.n) /\ Lead(o) \notin Marks
               /\ o.t = "str" => Lead(o) = "'"
               /\ o.t = "bool" => Lead(o) \in {"true", "false"}
               /\ o.t = "null" => Lead(o) = "null"
               /\ o.t = "timestamp" => Lead(o) = "ts:"
               /\ o.t = "ref" => Lead(o) = "ref:"
    <3>1. Number(o) => Lead(o) = Decimal(o.n)
      BY DEF Lead
    <3>2. Number(o) => o.n \in Wholes
      BY OperandFacts
    <3>3. Number(o) => Lead(o) \notin Marks
      BY <3>1, <3>2, MarksArePieces
    <3> QED BY <3>1, <3>3 DEF Lead
  <2>2. {"'", "true", "false", "null", "ts:", "ref:"} \subseteq Marks
    BY DEF Marks
  <2>3. Number(l) <=> Number(m)
    BY <1>2, <2>1, <2>2, OperandFacts
  <2> QED BY <1>2, <2>1, <2>3, OperandFacts
<1>5. CASE l.t = "str" /\ m.t = "str"
  <2> DEFINE a == l.v
             b == m.v
             e == <<x>> \o r
             f == <<y>> \o s
             q == "'"
  <2>1. a \in Seq(Pieces) /\ b \in Seq(Pieces) /\ e \in Seq(Pieces) /\ f \in Seq(Pieces)
    <3>1. <<x>> \in Seq(Pieces) /\ <<y>> \in Seq(Pieces)
      BY <1>1
    <3> QED BY <1>5, <3>1, OperandFacts, ConcatProperties DEF Characters
  <2>2. z = (a \o <<q>>) \o e /\ z = (b \o <<q>>) \o f
    BY <1>3, <1>5 DEF Trail, Reads
  <2>3. (\A i \in DOMAIN a : a[i] \notin {q}) /\ (\A i \in DOMAIN b : b[i] \notin {q})
    BY <1>5 DEF PlainLiteral
  <2>4. {q} \in SUBSET Pieces
    BY <1>1
  <2> HIDE DEF a, b, e, f, q
  <2>5. z = a \o (<<q>> \o e) /\ z = b \o (<<q>> \o f)
    <3> DEFINE d == <<q>>
    <3>1. d \in Seq(Pieces)
      BY <2>4
    <3> HIDE DEF d
    <3>2. Assoc(a, d, e) /\ Assoc(b, d, f)
      BY <2>1, <3>1, Associates
    <3> QED BY <2>2, <3>2 DEF Assoc, d
  <2>6. Reads(z, a, q, e) /\ Reads(z, b, q, f)
    BY <2>5 DEF Reads
  <2>7. q \in Pieces
    BY <2>4
  <2>8. a = b
    <3>1. (\A i \in DOMAIN a : a[i] # q) /\ (\A i \in DOMAIN b : b[i] # q)
      BY <2>3
    <3> QED BY <2>1, <2>6, <2>7, <3>1, ReadsUpToMark
  <2> QED BY <1>5, <2>8, OperandFacts, OperandSame DEF a, b
<1>6. CASE l.t = m.t /\ l.t \in {"timestamp", "ref"}
  <2>1. l.v \in Seq(Pieces) /\ m.v \in Seq(Pieces) /\ Trail(l) = l.v /\ Trail(m) = m.v
    BY <1>6, OperandFacts DEF Trail, Characters
  <2>2. (\A i \in DOMAIN l.v : l.v[i] \notin Ends) /\ (\A i \in DOMAIN m.v : m.v[i] \notin Ends)
    BY <1>6 DEF PlainLiteral
  <2>3. l.v = m.v
    BY <1>1, <1>3, <2>1, <2>2, ReadsUpTo
  <2> QED BY <1>6, <2>3, OperandFacts, OperandSame
<1>7. CASE l.t = m.t /\ l.t \in {"bool", "null"}
  <2>1. l.t = "bool" => l.n = m.n
    BY <1>2, <1>7, OperandFacts DEF Lead
  <2> QED BY <1>7, <2>1, OperandFacts, OperandSame
<1>8. CASE l.t \in {"int", "float"} /\ m.t \in {"int", "float"}
  <2>1. l.n = m.n
    <3>1. Lead(l) = Decimal(l.n) /\ Lead(m) = Decimal(m.n)
      BY <1>8 DEF Lead
    <3>2. l.n \in Wholes /\ m.n \in Wholes
      BY <1>8, OperandFacts
    <3> QED BY <1>2, <3>1, <3>2, DecimalAssumption
  <2>2. CASE l.t = "int" /\ m.t = "int"
    BY <2>1, <2>2, OperandFacts, OperandSame
  <2>3. ASSUME NEW o \in {l, m}, o.t = "float"
        PROVE  /\ o.v \in Fractions /\ Behind(o.v) \in Seq(Digits) /\ Behind(o.v) \in Seq(Pieces)
               /\ Trail(o) = <<".">> \o Behind(o.v)
    BY <2>3, OperandFacts, DigitPieces DEF Trail
  <2>4. ASSUME NEW a \in Ends, NEW b \in Ends, NEW c \in Seq(Pieces), NEW d \in Seq(Pieces),
               NEW v \in Seq(Pieces), NEW u, Reads(u, << >>, a, c), Reads(u, <<".">> \o v, b, d)
        PROVE  FALSE
    <3> DEFINE dot == "."
               e == <<b>> \o d
               o == << >>
    <3>1. dot \in Pieces /\ a \in Pieces /\ b \in Pieces /\ a # dot
      BY <1>1 DEF Ends
    <3>2. e \in Seq(Pieces) /\ o \in Seq(Pieces)
      BY <3>1
    <3>3. u = (<<dot>> \o v) \o e
      BY <2>4 DEF Reads
    <3> HIDE DEF dot, e
    <3>4. u = o \o (<<dot>> \o (v \o e)) /\ v \o e \in Seq(Pieces)
      BY <3>1, <3>2, <3>3
    <3>5. Reads(u, o, dot, v \o e) /\ Reads(u, o, a, c)
      BY <2>4, <3>4 DEF Reads
    <3> HIDE DEF o
    <3> DEFINE f == v \o e
    <3>6. f \in Seq(Pieces) /\ Reads(u, o, dot, f)
      BY <3>4, <3>5
    <3> HIDE DEF f
    <3> QED BY <3>1, <3>2, <3>5, <3>6, SameMark
  <2>5. CASE l.t = "int" /\ m.t = "float"
    <3>1. Trail(l) = << >>
      BY <2>5 DEF Trail
    <3> QED BY <1>3, <2>3, <2>4, <2>5, <3>1
  <2>6. CASE l.t = "float" /\ m.t = "int"
    <3>1. Trail(m) = << >>
      BY <2>6 DEF Trail
    <3> QED BY <1>3, <2>3, <2>4, <2>6, <3>1
  <2>7. CASE l.t = "float" /\ m.t = "float"
    <3> DEFINE a == Behind(l.v)
               b == Behind(m.v)
               dot == "."
    <3>1. /\ a \in Seq(Pieces) /\ b \in Seq(Pieces) /\ a \in Seq(Digits) /\ b \in Seq(Digits)
          /\ Reads(z, <<dot>> \o a, x, r) /\ Reads(z, <<dot>> \o b, y, s)
      BY <1>3, <2>3, <2>7
    <3>2. Digits \cap Ends = {}
      BY DEF Digits, Ends
    <3>3. dot \in Pieces /\ x \in Pieces /\ y \in Pieces
      BY <1>1
    <3> HIDE DEF a, b, dot
    <3>4. BothRead(a, x, r, b, y, s)
      BY <3>1, <3>3, FirstPiece
    <3>5. PICK u : Reads(u, a, x, r) /\ Reads(u, b, y, s)
      BY <3>4 DEF BothRead
    <3>6. (\A i \in DOMAIN a : a[i] \notin Ends) /\ (\A i \in DOMAIN b : b[i] \notin Ends)
      BY <3>1, <3>2
    <3>7. a = b
      <4>1. Ends \in SUBSET Pieces /\ x \in Ends /\ y \in Ends
        BY <1>1
      <4> QED BY <3>1, <3>5, <3>6, <4>1, ReadsUpTo
    <3>8. ASSUME NEW v \in Fractions
          PROVE  v # <<"0">>
      <4>1. v = <<"0">> => v # << >> /\ v[Len(v)] = "0"
        OBVIOUS
      <4> QED BY <4>1 DEF Fractions
    <3>9. l.v = m.v
      BY <2>3, <2>7, <3>7, <3>8 DEF a, b, Behind
    <3> QED BY <2>1, <2>7, <3>9, OperandSame
  <2> QED BY <1>8, <2>2, <2>5, <2>6, <2>7
<1> QED BY <1>4, <1>5, <1>6, <1>7, <1>8, OperandFacts

-----------------------------------------------------------------------------
(* Texts can be sorted.                                                    *)

LEMMA RankFacts ==
  ASSUME NEW a \in Pieces
  PROVE  Rank(a) \in Int /\ \A b \in Pieces : Rank(a) = Rank(b) => a = b
<1>1. ASSUME NEW c \in Pieces
      PROVE  Rank(c) \in DOMAIN Alphabet /\ Alphabet[Rank(c)] = c
  <2>1. \E i \in DOMAIN Alphabet : Alphabet[i] = c
    BY <1>1 DEF Pieces
  <2> QED BY <2>1 DEF Rank
<1>2. DOMAIN Alphabet \subseteq Int
  BY AlphabetAssumption
<1> QED BY <1>1, <1>2

\* Texts agree up to a place, and there one of them ends or has the lower piece.
Agree(a, b, n) == n \in Nat /\ n <= Len(a) /\ n <= Len(b) /\ \A i \in 1..n : a[i] = b[i]
Under(a, b, n) ==
  \/ n = Len(a) /\ n < Len(b)
  \/ n < Len(a) /\ n < Len(b) /\ Rank(a[n + 1]) < Rank(b[n + 1])

LEMMA BeforeDef ==
  ASSUME NEW a \in Characters, NEW b \in Characters
  PROVE  Before(a, b) <=> \E n \in Nat : Agree(a, b, n) /\ Under(a, b, n)
<1>1. Len(a) \in Nat /\ Len(b) \in Nat /\ a \in Seq(Pieces) /\ b \in Seq(Pieces)
  BY DEF Characters
<1>2. ASSUME NEW n \in Nat, n <= Len(a), n <= Len(b)
      PROVE  SubSeq(a, 1, n) = SubSeq(b, 1, n) <=> \A i \in 1..n : a[i] = b[i]
  <2> DEFINE s == SubSeq(a, 1, n)
             t == SubSeq(b, 1, n)
  <2>1. s = [i \in 1..n |-> a[i]] /\ t = [i \in 1..n |-> b[i]]
    BY <1>1, <1>2
  <2> HIDE DEF s, t
  <2>2. s = t <=> \A i \in 1..n : a[i] = b[i]
    BY <2>1
  <2> QED BY <2>2 DEF s, t
<1>3. ASSUME NEW n \in Nat
      PROVE  n \in 0..Len(a) /\ n <= Len(b) /\ SubSeq(a, 1, n) = SubSeq(b, 1, n) <=> Agree(a, b, n)
  BY <1>1, <1>2 DEF Agree
<1>4. \A n \in 0..Len(a) : n \in Nat
  BY <1>1
<1> QED BY <1>3, <1>4 DEF Before, Under

LEMMA BeforeNotItself ==
  ASSUME NEW a \in Characters
  PROVE  ~Before(a, a)
<1>1. Len(a) \in Nat /\ \A i \in 1..Len(a) : Rank(a[i]) \in Int
  BY RankFacts DEF Characters
<1> QED BY <1>1, BeforeDef DEF Under

LEMMA BeforeTransitive ==
  ASSUME NEW a \in Characters, NEW b \in Characters, NEW c \in Characters, Before(a, b), Before(b, c)
  PROVE  Before(a, c)
<1> DEFINE R(s, i) == Rank(s[i])
<1>1. \A s \in {a, b, c} : Len(s) \in Nat /\ \A i \in 1..Len(s) : R(s, i) \in Int
  BY RankFacts DEF Characters
<1>2. PICK n \in Nat : Agree(a, b, n) /\ Under(a, b, n)
  BY BeforeDef
<1>3. PICK m \in Nat : Agree(b, c, m) /\ Under(b, c, m)
  BY BeforeDef
<1>4. CASE n < m
  <2>1. Agree(a, c, n)
    BY <1>1, <1>2, <1>3, <1>4 DEF Agree
  <2>2. b[n + 1] = c[n + 1] /\ n < Len(c)
    BY <1>1, <1>3, <1>4 DEF Agree
  <2>3. Under(a, c, n)
    BY <1>2, <2>2 DEF Under
  <2> QED BY <2>1, <2>3, BeforeDef
<1>5. CASE m < n
  <2>1. Agree(a, c, m)
    BY <1>1, <1>2, <1>3, <1>5 DEF Agree
  <2>2. a[m + 1] = b[m + 1] /\ m < Len(a) /\ m < Len(b)
    BY <1>1, <1>2, <1>5 DEF Agree
  <2>3. Under(a, c, m)
    BY <1>1, <1>3, <2>2 DEF Under
  <2> QED BY <2>1, <2>3, BeforeDef
<1>6. CASE n = m
  <2>1. Agree(a, c, n)
    BY <1>1, <1>2, <1>3, <1>6 DEF Agree
  <2>2. Under(a, c, n)
    <3>1. n < Len(a) /\ n < Len(b) /\ n < Len(c) => R(a, n + 1) \in Int /\ R(b, n + 1) \in Int /\ R(c, n + 1) \in Int
      BY <1>1
    <3> QED BY <1>1, <1>2, <1>3, <1>6, <3>1 DEF Under
  <2> QED BY <2>1, <2>2, BeforeDef
<1> QED BY <1>4, <1>5, <1>6

LEMMA BeforeTotal ==
  ASSUME NEW a \in Characters, NEW b \in Characters, a # b
  PROVE  Before(a, b) \/ Before(b, a)
<1>1. /\ Len(a) \in Nat /\ Len(b) \in Nat /\ a \in Seq(Pieces) /\ b \in Seq(Pieces)
      /\ \A i \in 1..Len(a) : a[i] \in Pieces
      /\ \A i \in 1..Len(b) : b[i] \in Pieces
  BY DEF Characters
<1> DEFINE m == IF Len(a) <= Len(b) THEN Len(a) ELSE Len(b)
           T == {n \in 0..m : Agree(a, b, n)}
<1>2. m \in Nat /\ m <= Len(a) /\ m <= Len(b) /\ (m = Len(a) \/ m = Len(b))
  BY <1>1
<1> HIDE DEF m
<1>3. 0 \in T
  BY <1>1, <1>2 DEF Agree
<1>4. \A n \in 0..m : Agree(a, b, n) => Agree(b, a, n)
  BY DEF Agree
<1>5. CASE \E n \in Nat : n < m /\ n \in T /\ n + 1 \notin T
  <2>1. PICK n \in Nat : n < m /\ n \in T /\ n + 1 \notin T
    BY <1>5
  <2>2. n + 1 \in 0..m /\ n < Len(a) /\ n < Len(b) /\ n + 1 \in 1..Len(a) /\ n + 1 \in 1..Len(b)
    BY <1>1, <1>2, <2>1
  <2>3. a[n + 1] # b[n + 1]
    <3> SUFFICES ASSUME a[n + 1] = b[n + 1] PROVE FALSE
      OBVIOUS
    <3>1. \A i \in 1..(n + 1) : i \in 1..n \/ i = n + 1
      OBVIOUS
    <3>2. \A i \in 1..n : a[i] = b[i]
      BY <2>1 DEF Agree
    <3>3. \A i \in 1..(n + 1) : a[i] = b[i]
      BY <3>1, <3>2
    <3>4. n + 1 \in Nat /\ n + 1 <= Len(a) /\ n + 1 <= Len(b)
      BY <2>2
    <3>5. Agree(a, b, n + 1)
      BY <3>3, <3>4 DEF Agree
    <3> QED BY <2>1, <2>2, <3>5
  <2>4. Rank(a[n + 1]) \in Int /\ Rank(b[n + 1]) \in Int /\ Rank(a[n + 1]) # Rank(b[n + 1])
    BY <1>1, <2>2, <2>3, RankFacts
  <2>5. Rank(a[n + 1]) < Rank(b[n + 1]) \/ Rank(b[n + 1]) < Rank(a[n + 1])
    BY <2>4
  <2>6. Under(a, b, n) \/ Under(b, a, n)
    BY <2>2, <2>5 DEF Under
  <2>7. Agree(a, b, n) /\ Agree(b, a, n)
    BY <1>4, <2>1
  <2> QED BY <2>6, <2>7, BeforeDef
<1>6. CASE \A n \in Nat : n < m /\ n \in T => n + 1 \in T
  <2>1. m \in T
    <3> HIDE DEF T
    <3>1. 0..m \subseteq T
      BY <1>2, <1>3, <1>6, CountingUp
    <3> QED BY <1>2, <3>1
  <2>2. Agree(a, b, m) /\ Agree(b, a, m)
    BY <1>4, <2>1
  <2>3. Len(a) # Len(b)
    <3> SUFFICES ASSUME Len(a) = Len(b) PROVE FALSE
      OBVIOUS
    <3>1. m = Len(a)
      BY <1>2
    <3>2. \A i \in 1..Len(a) : a[i] = b[i]
      BY <2>2, <3>1 DEF Agree
    <3> QED BY <1>1, <3>2, SeqEqual
  <2>4. Under(a, b, m) \/ Under(b, a, m)
    BY <1>1, <1>2, <2>3 DEF Under
  <2> QED BY <1>2, <2>2, <2>4, BeforeDef
<1> QED BY <1>5, <1>6

InOrder(s) == \A i, j \in DOMAIN s : i < j => ~Before(s[j], s[i])

\* There is an arrangement that is sorted: each text at the place that is the
\* number of those ahead of it.
LEMMA SortedShuffled ==
  ASSUME NEW texts \in Seq(Characters)
  PROVE  Sorted(texts) \in Shuffled(texts) /\ InOrder(Sorted(texts))
<1> DEFINE n == Len(texts)
           D == 1..n
           Ahead(i, j) == Before(texts[i], texts[j]) \/ (texts[i] = texts[j] /\ i < j)
           Those(j) == {i \in D : Ahead(i, j)}
           p == [j \in D |-> Cardinality(Those(j)) + 1]
<1>1. n \in Nat /\ DOMAIN texts = D /\ \A i \in D : texts[i] \in Characters /\ i \in Nat
  OBVIOUS
<1>2. IsFiniteSet(D) /\ Cardinality(D) = n
  BY <1>1, FS_Interval
<1>3. \A i \in D : ~Ahead(i, i)
  BY <1>1, BeforeNotItself
<1>4. ASSUME NEW i \in D, NEW j \in D, NEW k \in D, Ahead(i, j), Ahead(j, k)
      PROVE  Ahead(i, k)
  <2>1. Before(texts[i], texts[j]) /\ Before(texts[j], texts[k]) => Before(texts[i], texts[k])
    BY <1>1, BeforeTransitive
  <2>2. texts[i] = texts[j] /\ i < j /\ texts[j] = texts[k] /\ j < k => i < k
    BY <1>1
  <2> QED BY <1>4, <2>1, <2>2
<1>5. ASSUME NEW i \in D, NEW j \in D, i # j
      PROVE  Ahead(i, j) \/ Ahead(j, i)
  <2>1. texts[i] # texts[j] => Before(texts[i], texts[j]) \/ Before(texts[j], texts[i])
    BY <1>1, BeforeTotal
  <2>2. i < j \/ j < i
    BY <1>1, <1>5
  <2> QED BY <2>1, <2>2
<1>6. \A i, j \in D : Before(texts[i], texts[j]) => Ahead(i, j)
  OBVIOUS
<1> HIDE DEF Ahead, D
<1>7. ASSUME NEW j \in D
      PROVE  IsFiniteSet(Those(j)) /\ Cardinality(Those(j)) + 1 \in D
  <2>1. Those(j) \subseteq D \ {j}
    BY <1>3
  <2>2. IsFiniteSet(D \ {j}) /\ Cardinality(D \ {j}) = n - 1
    BY <1>2, FS_RemoveElement
  <2>3. IsFiniteSet(Those(j)) /\ Cardinality(Those(j)) <= n - 1
    BY <2>1, <2>2, FS_Subset
  <2>4. Cardinality(Those(j)) \in Nat
    BY <2>3, FS_CardinalityType
  <2> QED BY <1>1, <2>3, <2>4 DEF D
<1>8. ASSUME NEW i \in D, NEW j \in D, Ahead(i, j)
      PROVE  p[i] < p[j]
  <2>1. Those(i) \cup {i} \subseteq Those(j) /\ i \notin Those(i)
    BY <1>3, <1>4, <1>8
  <2>2. IsFiniteSet(Those(i)) /\ IsFiniteSet(Those(j))
    BY <1>7
  <2>3. Cardinality(Those(i)) \in Nat /\ Cardinality(Those(j)) \in Nat
    BY <2>2, FS_CardinalityType
  <2>4. Cardinality(Those(i) \cup {i}) = Cardinality(Those(i)) + 1
    BY <2>1, <2>2, FS_AddElement
  <2>5. Cardinality(Those(i) \cup {i}) <= Cardinality(Those(j))
    BY <2>1, <2>2, FS_Subset
  <2>6. p[i] = Cardinality(Those(i)) + 1 /\ p[j] = Cardinality(Those(j)) + 1
    OBVIOUS
  <2> HIDE DEF Those, p
  <2> QED BY <2>3, <2>4, <2>5, <2>6
<1>9. p \in [D -> D]
  BY <1>7
<1> HIDE DEF p
<1>10. \A i, j \in D : p[i] = p[j] => i = j
  <2> SUFFICES ASSUME NEW i \in D, NEW j \in D, p[i] = p[j], i # j PROVE FALSE
    OBVIOUS
  <2>1. p[i] < p[j] \/ p[j] < p[i]
    BY <1>5, <1>8
  <2>2. p[i] \in Nat
    BY <1>1, <1>9
  <2> QED BY <2>1, <2>2
<1>11. p \in Bijection(D, D)
  <2>1. p \in Injection(D, D)
    BY <1>9, <1>10 DEF Injection, IsInjective
  <2>2. p \in Surjection(D, D)
    BY <1>2, <2>1, FS_Injection
  <2> QED BY <2>1, <2>2 DEF Bijection
<1>12. PICK q \in Bijection(D, D) : \A i \in D : q[p[i]] = i /\ p[q[i]] = i
  BY <1>11, Undone
<1>13. q \in [D -> D]
  BY DEF Bijection, Injection
<1> DEFINE s == [i \in D |-> texts[q[i]]]
<1>14. s \in Shuffled(texts)
  BY <1>1 DEF Shuffled
<1>15. ASSUME NEW i \in D, NEW j \in D, i < j, Before(s[j], s[i])
       PROVE  FALSE
  <2>1. q[i] \in D /\ q[j] \in D /\ s[i] = texts[q[i]] /\ s[j] = texts[q[j]]
    BY <1>13
  <2>2. Ahead(q[j], q[i])
    BY <1>6, <1>15, <2>1
  <2>3. p[q[j]] < p[q[i]]
    BY <1>8, <2>1, <2>2
  <2>4. j < i
    BY <1>12, <2>3
  <2> QED BY <1>1, <1>15, <2>4
<1>16. DOMAIN s = D
  OBVIOUS
<1> HIDE DEF s
<1>17. \E t \in Shuffled(texts) : \A i, j \in DOMAIN t : i < j => ~Before(t[j], t[i])
  BY <1>14, <1>15, <1>16
<1> QED BY <1>17 DEF Sorted, InOrder

\* Two arrangements cannot part where one has an earlier text than the other
\* that is in order: the other would have that text less often.
LEMMA ArrangementsPart ==
  ASSUME NEW texts \in Seq(Characters), NEW a \in Shuffled(texts), NEW b \in Shuffled(texts), InOrder(b),
         NEW k \in DOMAIN texts, \A i \in DOMAIN texts : i < k => a[i] = b[i]
  PROVE  ~Before(a[k], b[k])
<1> DEFINE D == DOMAIN texts
           A == {i \in D : a[i] = a[k]}
           B == {i \in D : b[i] = a[k]}
<1>1. /\ Len(texts) \in Nat /\ D = 1..Len(texts) /\ DOMAIN a = D /\ DOMAIN b = D
      /\ b \in Seq(Characters) /\ a \in Shuffled(b)
  <2>1. Shuffled(b) = Shuffled(texts) /\ DOMAIN b = D /\ b \in Seq(Characters)
    BY ShuffledFacts
  <2>2. DOMAIN a = D
    BY ShuffledFacts
  <2> QED BY <2>1, <2>2
<1>2. \A i \in D : b[i] \in Characters
  BY <1>1
<1>3. PICK r \in Bijection(D, D) : a = [i \in D |-> b[r[i]]]
  BY <1>1 DEF Shuffled
<1>4. r \in [D -> D] /\ \A i, j \in D : r[i] = r[j] => i = j
  BY DEF Bijection, Injection, IsInjective
<1>5. IsFiniteSet(D)
  BY <1>1, FS_Interval
<1>6. IsFiniteSet(A) /\ IsFiniteSet(B)
  BY <1>5, FS_Subset
<1>7. Cardinality(A) <= Cardinality(B)
  <2> DEFINE f == [i \in A |-> r[i]]
  <2>1. \A i \in A : r[i] \in B
    BY <1>3, <1>4
  <2>2. f \in Injection(A, B)
    BY <1>4, <2>1 DEF Injection, IsInjective
  <2> HIDE DEF f, A, B
  <2> QED BY <1>6, <2>2, FS_Injection
<1>8. SUFFICES ASSUME Before(a[k], b[k]) PROVE FALSE
  OBVIOUS
<1>9. B \subseteq A \ {k}
  <2> SUFFICES ASSUME NEW i \in D, b[i] = a[k] PROVE i < k
    BY <1>1
  <2>1. i # k
    BY <1>2, <1>8, BeforeNotItself
  <2>2. ~(k < i)
    BY <1>1, <1>8 DEF InOrder
  <2> QED BY <1>1, <2>1, <2>2
<1>10. k \in A
  OBVIOUS
<1> HIDE DEF A, B
<1>11. IsFiniteSet(A \ {k}) /\ Cardinality(A \ {k}) = Cardinality(A) - 1
  BY <1>6, <1>10, FS_RemoveElement
<1>12. Cardinality(B) <= Cardinality(A) - 1 /\ Cardinality(A) \in Nat /\ Cardinality(B) \in Nat
  BY <1>6, <1>9, <1>11, FS_Subset, FS_CardinalityType
<1> QED BY <1>7, <1>12

\* Texts have one arrangement in order, and it is the one that Sorted chooses,
\* as vs.sort() and parts.sort() do (canonical_filter).
THEOREM SortedIsTheOneInOrder ==
  ASSUME NEW texts \in Seq(Characters), NEW s \in Shuffled(texts)
  PROVE  InOrder(s) <=> s = Sorted(texts)
<1>1. Sorted(texts) \in Shuffled(texts) /\ InOrder(Sorted(texts))
  BY SortedShuffled
<1>2. ASSUME InOrder(s)
      PROVE  s = Sorted(texts)
  <2> DEFINE t == Sorted(texts)
             n == Len(texts)
             Common == {m \in 0..n : \A i \in 1..n : i <= m => s[i] = t[i]}
  <2> HIDE DEF t
  <2>1. t \in Shuffled(texts) /\ InOrder(t)
    BY <1>1 DEF t
  <2>2. n \in Nat /\ DOMAIN texts = 1..n
    OBVIOUS
  <2>3. /\ s \in Seq(Characters) /\ Len(s) = n /\ DOMAIN s = 1..n
        /\ t \in Seq(Characters) /\ Len(t) = n /\ DOMAIN t = 1..n
    BY <2>1, <2>2, ShuffledFacts
  <2>4. \A i \in 1..n : s[i] \in Characters /\ t[i] \in Characters
    BY <2>3
  <2>5. ASSUME NEW m \in Nat, m < n, m \in Common
        PROVE  m + 1 \in Common
    <3>1. m + 1 \in 1..n /\ \A i \in 1..n : i < m + 1 => s[i] = t[i]
      BY <2>2, <2>5
    <3>2. ~Before(s[m + 1], t[m + 1]) /\ ~Before(t[m + 1], s[m + 1])
      BY <1>2, <2>1, <2>2, <3>1, ArrangementsPart
    <3>3. s[m + 1] = t[m + 1]
      BY <2>4, <3>1, <3>2, BeforeTotal
    <3> QED BY <2>2, <3>1, <3>3
  <2>6. 0 \in Common
    BY <2>2
  <2> HIDE DEF Common
  <2>7. 0..n \subseteq Common
    BY <2>2, <2>5, <2>6, CountingUp
  <2>8. n \in Common
    BY <2>2, <2>7
  <2>9. \A i \in 1..n : s[i] = t[i]
    BY <2>2, <2>8 DEF Common
  <2>10. s = t
    BY <2>3, <2>9
  <2> QED BY <2>10 DEF t
<1> QED BY <1>1, <1>2

-----------------------------------------------------------------------------
(* Keys are read again, so that no two filters share one that match        *)
(* different documents.                                                    *)

\* A name without blanks in it, and values that are plain.
PlainLeaf(c) ==
  /\ \A i \in DOMAIN c.field : c.field[i] # " "
  /\ \A i \in DOMAIN c.values : PlainLiteral(c.values[i])
Plain(f) == \A p \in Placed[f] : PlainLeaf(p.leaf)

LEMMA PlainParts ==
  /\ \A f \in Leaves : Plain(f) <=> PlainLeaf(f)
  /\ \A f \in FilterExpr : f \in Branches(FilterExpr) /\ Plain(f) => \A i \in DOMAIN f.kids : Plain(f.kids[i])
<1>1. ASSUME NEW f \in FilterExpr, f \in Branches(FilterExpr), Plain(f), NEW i \in DOMAIN f.kids,
             NEW p \in Placed[f.kids[i]]
      PROVE  PlainLeaf(p.leaf)
  <2> DEFINE q == [at |-> <<i, p.at>>, leaf |-> p.leaf]
  <2>1. q \in Below(f, i)
    BY BelowFacts
  <2>2. q \in Placed[f]
    BY <1>1, <2>1, PlacedBranch
  <2> QED BY <1>1, <2>2 DEF Plain
<1>2. ASSUME NEW f \in Leaves
      PROVE  Plain(f) <=> PlainLeaf(f)
  <2>1. Placed[f] = {[at |-> << >>, leaf |-> f]}
    BY PlacedLeaf
  <2> QED BY <2>1 DEF Plain
<1>3. ASSUME NEW f \in FilterExpr, f \in Branches(FilterExpr), Plain(f), NEW i \in DOMAIN f.kids
      PROVE  Plain(f.kids[i])
  BY <1>1, <1>3 DEF Plain
<1> QED BY <1>2, <1>3, Zenon

LEMMA OnePiece ==
  ASSUME NEW x \in Pieces
  PROVE  <<x>> \in Seq(Pieces)
OBVIOUS

LEMMA NothingJoined == \A e : Joined(<< >>, e) = << >>
BY DEF Joined, FlattenSeq

LEMMA JoinedType ==
  ASSUME NEW S, NEW p \in Seq(Seq(S)), NEW e \in S
  PROVE  Joined(p, e) \in Seq(S) /\ Joined(<< >>, e) = << >>
<1>1. Joined(<< >>, e) = << >>
  BY NothingJoined
<1>2. CASE p = << >>
  <2>1. << >> \in Seq(S)
    OBVIOUS
  <2> QED BY <1>1, <1>2, <2>1, Zenon
<1>3. CASE p # << >>
  <2>1. Len(p) # 0 /\ Len(p) \in 1..Len(p)
    BY <1>3
  <2> DEFINE whole == Joined(p, e) \o (<<e>> \o << >>)
  <2>2. Reads(whole, Joined(p, e), e, << >>) /\ << >> \in Seq(S)
    BY DEF Reads
  <2> HIDE DEF whole
  <2>3. PICK F : /\ Joins(F, p, e)
                 /\ \A i \in 1..Len(p) :
                      /\ F[i] \in Seq(S)
                      /\ GoesOn(S, whole, F[i], IF i = Len(p) THEN e ELSE e)
    BY <2>1, <2>2, JoinedSplit
  <2> QED BY <1>1, <2>1, <2>3 DEF Joins
<1> QED BY <1>2, <1>3

LEMMA ListTextType ==
  ASSUME NEW values \in Seq(Operands)
  PROVE  LET texts == [i \in DOMAIN values |-> CanonicalLiteral(values[i])]
         IN /\ texts \in Seq(Characters) /\ DOMAIN texts = DOMAIN values
            /\ Sorted(texts) \in Shuffled(texts) /\ Sorted(texts) \in Seq(Characters)
            /\ Joined(Sorted(texts), ",") \in Seq(Pieces)
            /\ ListText(values) = <<"[">> \o (Joined(Sorted(texts), ",") \o <<"]">>)
            /\ ListText(values) \in Seq(Pieces)
<1> DEFINE texts == [i \in DOMAIN values |-> CanonicalLiteral(values[i])]
           joined == Joined(Sorted(texts), ",")
           open == <<"[">>
           close == <<"]">>
<1>1. ASSUME NEW l \in Operands
      PROVE  CanonicalLiteral(l) \in Characters
  <2> DEFINE a == <<Lead(l)>>
             b == Trail(l)
  <2>1. a \in Seq(Pieces) /\ b \in Seq(Pieces) /\ CanonicalLiteral(l) = a \o b
    BY LiteralText, OnePiece
  <2> HIDE DEF a, b
  <2> QED BY <2>1, ConcatProperties DEF Characters
<1>2. texts \in Seq(Characters) /\ DOMAIN texts = DOMAIN values
  BY <1>1
<1>3. {",", "[", "]"} \subseteq Pieces
  BY MarksArePieces DEF Marks
<1>4. open \in Seq(Pieces) /\ close \in Seq(Pieces)
  BY <1>3, OnePiece
<1>5. ListText(values) = (open \o joined) \o close
  BY DEF ListText
<1> HIDE DEF texts
<1>6. Sorted(texts) \in Shuffled(texts) /\ Sorted(texts) \in Seq(Characters)
  BY <1>2, SortedShuffled, ShuffledFacts
<1>7. joined \in Seq(Pieces)
  BY <1>3, <1>6, JoinedType DEF Characters
<1> HIDE DEF joined, open, close
<1>8. (open \o joined) \o close = open \o (joined \o close)
  BY <1>4, <1>7
<1>9. joined \o close \in Seq(Pieces) /\ open \o (joined \o close) \in Seq(Pieces)
  BY <1>4, <1>7, ConcatProperties
<1> QED BY <1>2, <1>5, <1>6, <1>7, <1>8, <1>9 DEF joined, open, close, texts


\* A key is a parenthesis with a word and what stands within.
Word(f) == IF f.kind \in Comparing THEN "cmp" ELSE f.kind
Object(c) ==
  IF c.kind \in Listing THEN ListText(c.values)
  ELSE IF c.kind = "ac" THEN CanonicalLiteral(c.values[1])
  ELSE <<c.kind>> \o (<<" ">> \o CanonicalLiteral(c.values[1]))
KidTexts(f) == [i \in DOMAIN f.kids |-> Canonical[f.kids[i]]]
Within(f) ==
  IF Conditional(f) THEN f.field \o (<<" ">> \o Object(f)) ELSE Joined(Sorted(KidTexts(f)), " ")
Clausal(word, within) == <<"(">> \o (<<word>> \o (<<" ">> \o (within \o <<")">>)))

LEMMA WordFacts ==
  ASSUME NEW f, f.kind \in Comparing \cup Listing \cup {"ac", "and", "or"}
  PROVE  Word(f) \in Pieces
BY MarksArePieces DEF Word, Marks

LEMMA InConcat ==
  ASSUME NEW S, NEW a \in Seq(S), NEW b \in Seq(S), NEW i \in 1..Len(a)
  PROVE  (a \o b)[i] = a[i]
OBVIOUS

LEMMA ThreePieces ==
  ASSUME NEW x \in Pieces, NEW y \in Pieces, NEW z \in Pieces
  PROVE  <<x, y, z>> = (<<x>> \o <<y>>) \o <<z>>
<1> DEFINE a == <<x>>
           b == <<y>>
           c == <<z>>
           all == <<x, y, z>>
           ab == a \o b
           abc == ab \o c
<1>1. /\ a \in Seq(Pieces) /\ b \in Seq(Pieces) /\ c \in Seq(Pieces) /\ all \in Seq(Pieces)
      /\ Len(a) = 1 /\ Len(b) = 1 /\ Len(c) = 1 /\ Len(all) = 3
      /\ a[1] = x /\ b[1] = y /\ c[1] = z /\ all[1] = x /\ all[2] = y /\ all[3] = z
  OBVIOUS
<1> HIDE DEF a, b, c, all
<1>2. ab \in Seq(Pieces) /\ Len(ab) = 2
  <2>1. ab \in Seq(Pieces) /\ Len(ab) = Len(a) + Len(b)
    BY <1>1, ConcatProperties, Zenon
  <2> HIDE DEF ab
  <2> QED BY <1>1, <2>1
<1>3. ab[1] = x /\ ab[2] = y
  <2>1. 1 \in 1..Len(a) /\ 1 \in 1..Len(b) /\ Len(a) + 1 = 2
    BY <1>1
  <2>2. a \in Seq(Pieces) /\ b \in Seq(Pieces)
    BY <1>1
  <2>3. \A i \in 1..Len(a) : ab[i] = a[i]
    BY <2>2, InConcat, Zenon
  <2>4. \A i \in 1..Len(b) : ab[Len(a) + i] = b[i]
    BY <2>2, BehindConcat, Zenon
  <2> HIDE DEF ab
  <2> QED BY <1>1, <2>1, <2>3, <2>4
<1> HIDE DEF ab
<1>4. abc \in Seq(Pieces) /\ Len(abc) = 3
  <2>1. abc \in Seq(Pieces) /\ Len(abc) = Len(ab) + Len(c)
    BY <1>1, <1>2, ConcatProperties, Zenon
  <2> HIDE DEF abc
  <2> QED BY <1>1, <1>2, <2>1
<1>5. abc[1] = x /\ abc[2] = y /\ abc[3] = z
  <2>1. 1 \in 1..Len(ab) /\ 2 \in 1..Len(ab) /\ 1 \in 1..Len(c) /\ Len(ab) + 1 = 3
    BY <1>1, <1>2
  <2>2. ab \in Seq(Pieces) /\ c \in Seq(Pieces)
    BY <1>1, <1>2
  <2>3. \A i \in 1..Len(ab) : abc[i] = ab[i]
    BY <2>2, InConcat, Zenon
  <2>4. \A i \in 1..Len(c) : abc[Len(ab) + i] = c[i]
    BY <2>2, BehindConcat, Zenon
  <2> HIDE DEF abc
  <2> QED BY <1>1, <1>3, <2>1, <2>3, <2>4
<1> HIDE DEF abc
<1>6. \A i \in 1..3 : i = 1 \/ i = 2 \/ i = 3
  OBVIOUS
<1>7. \A i \in 1..3 : all[i] = abc[i]
  BY <1>1, <1>5, <1>6
<1>8. all = abc
  BY <1>1, <1>4, <1>7, SeqEqual
<1> QED BY <1>8 DEF all, abc, ab, a, b, c

LEMMA ClauseForm ==
  ASSUME NEW word \in Pieces, NEW a \in Seq(Pieces), NEW b \in Seq(Pieces)
  PROVE  /\ a \o (<<" ">> \o b) \in Seq(Pieces)
         /\ Clause(word, a, b) = Clausal(word, a \o (<<" ">> \o b))
<1> DEFINE o == <<"(">>
           v == <<word>>
           e == <<" ">>
           c == <<")">>
           w == <<"(", word, " ">>
<1>1. {"(", ")", " "} \subseteq Pieces
  BY MarksArePieces DEF Marks
<1>2. o \in Seq(Pieces) /\ v \in Seq(Pieces) /\ e \in Seq(Pieces) /\ c \in Seq(Pieces)
  BY <1>1, OnePiece
<1>3. w = (o \o v) \o e
  BY <1>1, ThreePieces
<1>4. Clause(word, a, b) = ((((w \o a) \o e) \o b) \o c)
  BY DEF Clause
<1> HIDE DEF o, v, e, c, w
<1>5. o \o v \in Seq(Pieces) /\ w \in Seq(Pieces)
  BY <1>2, <1>3, ConcatProperties
<1> DEFINE eb == e \o b
           aeb == a \o eb
           last == aeb \o c
           el == e \o last
           vel == v \o el
<1>6. eb \in Seq(Pieces)
  BY <1>2, ConcatProperties
<1>7. aeb \in Seq(Pieces)
  BY <1>2, <1>6, ConcatProperties
<1>8. last \in Seq(Pieces)
  BY <1>2, <1>7, ConcatProperties
<1>9. el \in Seq(Pieces)
  BY <1>2, <1>8, ConcatProperties
<1>10. Assoc(w, a, e) /\ Assoc(a, e, b) /\ a \o e \in Seq(Pieces)
  BY <1>2, <1>5, Associates, ConcatProperties
<1>11. Assoc(w, a \o e, b)
  BY <1>5, <1>10, Associates
<1> HIDE DEF eb, aeb, last, el, vel
<1>12. Assoc(w, aeb, c)
  BY <1>2, <1>5, <1>7, Associates
<1>13. Assoc(o \o v, e, last)
  BY <1>2, <1>5, <1>8, Associates
<1>14. Assoc(o, v, el)
  BY <1>2, <1>9, Associates
<1>15. /\ ((w \o a) \o e) \o b = w \o aeb
       /\ (w \o aeb) \o c = w \o last
       /\ w \o last = (o \o v) \o el
       /\ (o \o v) \o el = o \o vel
  <2>1. ((w \o a) \o e) \o b = w \o aeb
    BY <1>10, <1>11 DEF Assoc, aeb, eb
  <2>2. (w \o aeb) \o c = w \o last
    BY <1>12 DEF Assoc, last
  <2>3. w \o last = (o \o v) \o el
    BY <1>3, <1>13 DEF Assoc, el
  <2>4. (o \o v) \o el = o \o vel
    BY <1>14 DEF Assoc, vel
  <2> QED BY <2>1, <2>2, <2>3, <2>4
<1>16. Clause(word, a, b) = o \o vel
  BY <1>4, <1>15
<1> QED BY <1>7, <1>16 DEF eb, aeb, last, el, vel, o, v, e, c, Clausal

LEMMA ClausalType ==
  ASSUME NEW word \in Pieces, NEW a \in Seq(Pieces)
  PROVE  Clausal(word, a) \in Seq(Pieces)
<1>1. {"(", ")", " "} \subseteq Pieces
  BY MarksArePieces DEF Marks
<1>2. <<"(">> \in Seq(Pieces) /\ <<word>> \in Seq(Pieces) /\ <<" ">> \in Seq(Pieces) /\ <<")">> \in Seq(Pieces)
  BY <1>1, OnePiece
<1>3. a \o <<")">> \in Seq(Pieces)
  BY <1>2, ConcatProperties
<1>4. <<" ">> \o (a \o <<")">>) \in Seq(Pieces)
  BY <1>2, <1>3, ConcatProperties
<1>5. <<word>> \o (<<" ">> \o (a \o <<")">>)) \in Seq(Pieces)
  BY <1>2, <1>4, ConcatProperties
<1> QED BY <1>2, <1>5, ConcatProperties DEF Clausal

LEMMA TwoPieces ==
  ASSUME NEW x \in Pieces, NEW y \in Pieces
  PROVE  <<x>> \in Seq(Pieces) /\ <<y>> \in Seq(Pieces) /\ <<x, y>> \in Seq(Pieces) /\ <<x, y>> = <<x>> \o <<y>>
<1>1. <<x>> \in Seq(Pieces) /\ <<y>> \in Seq(Pieces)
  OBVIOUS
<1>2. <<x, y>> \in Seq(Pieces)
  OBVIOUS
<1> DEFINE a == <<x>>
           b == <<y>>
           all == <<x, y>>
           ab == a \o b
<1>3. all = ab
  <2>1. /\ a \in Seq(Pieces) /\ b \in Seq(Pieces) /\ all \in Seq(Pieces)
        /\ Len(a) = 1 /\ Len(b) = 1 /\ Len(all) = 2 /\ a[1] = x /\ b[1] = y /\ all[1] = x /\ all[2] = y
    BY <1>1, <1>2
  <2> HIDE DEF a, b, all
  <2>2. 1 \in 1..Len(a) /\ 1 \in 1..Len(b) /\ Len(a) + 1 = 2
    BY <2>1
  <2>3. ab \in Seq(Pieces) /\ Len(ab) = Len(a) + Len(b)
    BY <2>1, ConcatProperties, Zenon
  <2>4. a \in Seq(Pieces) /\ b \in Seq(Pieces)
    BY <2>1
  <2>5. \A i \in 1..Len(a) : ab[i] = a[i]
    BY <2>4, InConcat, Zenon
  <2>6. \A i \in 1..Len(b) : ab[Len(a) + i] = b[i]
    BY <2>4, BehindConcat, Zenon
  <2> HIDE DEF ab
  <2>7. Len(ab) = 2 /\ ab[1] = x /\ ab[2] = y
    BY <2>1, <2>2, <2>3, <2>5, <2>6
  <2>8. \A i \in 1..2 : i = 1 \/ i = 2
    OBVIOUS
  <2>9. \A i \in 1..2 : all[i] = ab[i]
    BY <2>1, <2>7, <2>8
  <2> QED BY <2>1, <2>3, <2>7, <2>9, SeqEqual
<1> QED BY <1>1, <1>2, <1>3

\* The same with a name.
Formed(word, a, b) ==
  a \o (<<" ">> \o b) \in Seq(Pieces) /\ Clause(word, a, b) = Clausal(word, a \o (<<" ">> \o b))

LEMMA ClauseFormed ==
  ASSUME NEW word \in Pieces, NEW a \in Seq(Pieces), NEW b \in Seq(Pieces)
  PROVE  Formed(word, a, b)
BY ClauseForm DEF Formed

LEMMA LiteralType ==
  ASSUME NEW l \in Operands
  PROVE  CanonicalLiteral(l) \in Seq(Pieces)
<1> DEFINE a == <<Lead(l)>>
           b == Trail(l)
<1>1. a \in Seq(Pieces) /\ b \in Seq(Pieces) /\ CanonicalLiteral(l) = a \o b
  BY LiteralText, OnePiece
<1> HIDE DEF a, b
<1> QED BY <1>1, ConcatProperties

LEMMA LeafForm ==
  ASSUME NEW c \in Leaves
  PROVE  /\ Word(c) \in Pieces /\ Object(c) \in Seq(Pieces)
         /\ c.field \o (<<" ">> \o Object(c)) \in Seq(Pieces)
         /\ CanonicalLeaf(c) = Clausal(Word(c), c.field \o (<<" ">> \o Object(c)))
<1>1. Word(c) \in Pieces
  BY LeafFacts, WordFacts
<1>2. c.field \in Seq(Pieces) /\ c.values \in Seq(Operands)
  BY LeafFacts DEF Characters
<1>3. CASE c.kind \in Listing
  <2>1. Object(c) = ListText(c.values) /\ Word(c) = c.kind
    BY <1>3 DEF Object, Word, Listing, Comparing
  <2>2. CanonicalLeaf(c) = Clause(KindText(c.kind), c.field, ListText(c.values))
    BY <1>3 DEF CanonicalLeaf, Listing
  <2>3. KindText(c.kind) = c.kind
    BY DEF KindText
  <2>4. ListText(c.values) \in Seq(Pieces)
    BY <1>2, ListTextType
  <2> DEFINE within == c.field \o (<<" ">> \o Object(c))
             key == CanonicalLeaf(c)
             o == Object(c)
  <2>5. o \in Seq(Pieces) /\ key = Clause(Word(c), c.field, o) /\ within = c.field \o (<<" ">> \o o)
    BY <2>1, <2>2, <2>3, <2>4
  <2> HIDE DEF within, key, o
  <2>6. Formed(Word(c), c.field, o)
    BY <1>1, <1>2, <2>5, ClauseFormed, Zenon
  <2> QED BY <1>1, <2>5, <2>6 DEF within, key, o, Formed
<1>4. ASSUME c.kind \notin Listing
      PROVE  CanonicalLiteral(c.values[1]) \in Seq(Pieces)
  <2>1. c.values[1] \in Operands
    BY <1>2, <1>4, LeafFacts
  <2> QED BY <2>1, LiteralType
<1>5. CASE c.kind = "ac"
  <2>1. Object(c) = CanonicalLiteral(c.values[1]) /\ Word(c) = "ac" /\ c.kind \notin Listing
    BY <1>5 DEF Object, Word, Listing, Comparing
  <2>2. CanonicalLeaf(c) = Clause("ac", c.field, CanonicalLiteral(c.values[1]))
    BY <1>5, <2>1 DEF CanonicalLeaf
  <2> DEFINE within == c.field \o (<<" ">> \o Object(c))
             key == CanonicalLeaf(c)
             o == Object(c)
  <2>3. o \in Seq(Pieces) /\ key = Clause(Word(c), c.field, o) /\ within = c.field \o (<<" ">> \o o)
    BY <1>4, <2>1, <2>2
  <2> HIDE DEF within, key, o
  <2>4. Formed(Word(c), c.field, o)
    BY <1>1, <1>2, <2>3, ClauseFormed, Zenon
  <2> QED BY <1>1, <2>3, <2>4 DEF within, key, o, Formed
<1>6. CASE c.kind \in Comparing
  <2> DEFINE e == <<" ">>
             k == <<c.kind>>
             l == CanonicalLiteral(c.values[1])
             a == c.field \o <<" ", c.kind>>
             el == e \o l
             kel == k \o el
             ek == <<" ", c.kind>>
  <2>1. c.kind \notin Listing /\ c.kind # "ac"
    BY <1>6 DEF Listing, Comparing
  <2>2. Object(c) = kel /\ Word(c) = "cmp"
    BY <1>6, <2>1 DEF Object, Word
  <2>3. CanonicalLeaf(c) = Clause("cmp", a, l)
    BY <2>1 DEF CanonicalLeaf
  <2>4. " " \in Pieces /\ c.kind \in Pieces
    BY <1>6, MarksArePieces DEF Marks
  <2>5. l \in Seq(Pieces)
    BY <1>4, <2>1
  <2>6. e \in Seq(Pieces) /\ k \in Seq(Pieces) /\ ek \in Seq(Pieces) /\ ek = e \o k
    BY <2>4, TwoPieces
  <2>7. a = c.field \o ek
    OBVIOUS
  <2> DEFINE field == c.field
  <2>8. field \in Seq(Pieces)
    BY <1>2
  <2> HIDE DEF e, k, l, ek, field
  <2>9. el \in Seq(Pieces)
    BY <2>5, <2>6, ConcatProperties
  <2> HIDE DEF el
  <2>10. kel \in Seq(Pieces) /\ a \in Seq(Pieces)
    BY <2>5, <2>6, <2>7, <2>8, <2>9, ConcatProperties DEF field
  <2>11. Assoc(field, ek, el) /\ Assoc(e, k, el)
    BY <2>5, <2>6, <2>8, <2>9, Associates
  <2>12. a \o el = field \o (e \o kel)
    BY <2>6, <2>7, <2>11 DEF Assoc, field
  <2>13. a \o (<<" ">> \o l) \in Seq(Pieces) /\ Clause("cmp", a, l) = Clausal("cmp", a \o (<<" ">> \o l))
    <3>1. "cmp" \in Pieces
      BY <1>1, <2>2
    <3> HIDE DEF a
    <3> QED BY <2>5, <2>10, <3>1, ClauseForm
  <2>14. a \o (<<" ">> \o l) = field \o (<<" ">> \o kel)
    BY <2>12 DEF el, e
  <2> QED BY <1>1, <2>2, <2>3, <2>10, <2>13, <2>14 DEF field
<1> QED BY <1>3, <1>5, <1>6, LeafFacts

LEMMA NodeForm ==
  ASSUME NEW kind \in Pieces, NEW j \in Seq(Pieces)
  PROVE  <<"(", kind, " ">> \o j \o <<")">> = Clausal(kind, j)
<1> DEFINE o == <<"(">>
           v == <<kind>>
           e == <<" ">>
           c == <<")">>
           w == <<"(", kind, " ">>
<1>1. {"(", ")", " "} \subseteq Pieces
  BY MarksArePieces DEF Marks
<1>2. o \in Seq(Pieces) /\ v \in Seq(Pieces) /\ e \in Seq(Pieces) /\ c \in Seq(Pieces)
  BY <1>1, OnePiece
<1>3. w = (o \o v) \o e
  BY <1>1, ThreePieces
<1> DEFINE jc == j \o c
           ejc == e \o jc
<1> HIDE DEF o, v, e, c, w
<1>4. o \o v \in Seq(Pieces) /\ w \in Seq(Pieces) /\ jc \in Seq(Pieces)
  BY <1>2, <1>3, ConcatProperties
<1> HIDE DEF jc
<1>5. ejc \in Seq(Pieces)
  BY <1>2, <1>4, ConcatProperties
<1> HIDE DEF ejc
<1>6. Assoc(w, j, c) /\ Assoc(o \o v, e, jc) /\ Assoc(o, v, ejc)
  BY <1>2, <1>4, <1>5, Associates
<1>7. (w \o j) \o c = o \o (v \o ejc)
  BY <1>3, <1>6 DEF Assoc, jc, ejc
<1> QED BY <1>7 DEF jc, ejc, o, v, e, c, w, Clausal

LEMMA KeyForm ==
  \A f \in FilterExpr :
    /\ Word(f) \in Pieces /\ Within(f) \in Seq(Pieces) /\ Canonical[f] \in Seq(Pieces)
    /\ Canonical[f] = Clausal(Word(f), Within(f))
<1> DEFINE Formal(f) == /\ Word(f) \in Pieces /\ Within(f) \in Seq(Pieces) /\ Canonical[f] \in Seq(Pieces)
                        /\ Canonical[f] = Clausal(Word(f), Within(f))
           T == {f \in FilterExpr : Formal(f)}
<1>1. ASSUME NEW f \in Leaves
      PROVE  f \in T
  <2>1. f \in FilterExpr /\ Conditional(f)
    BY LeafIsFilter, LeafFacts
  <2>2. Canonical[f] = CanonicalLeaf(f)
    BY <2>1, CanonicalDef
  <2>3. Within(f) = f.field \o (<<" ">> \o Object(f))
    BY <2>1 DEF Within
  <2>4. /\ Word(f) \in Pieces /\ Within(f) \in Seq(Pieces)
        /\ CanonicalLeaf(f) = Clausal(Word(f), Within(f))
    BY <2>3, LeafForm
  <2>5. Clausal(Word(f), Within(f)) \in Seq(Pieces)
    BY <2>4, ClausalType
  <2> QED BY <2>1, <2>2, <2>4, <2>5
<1>2. ASSUME NEW f \in FilterExpr, f \in Branches(FilterExpr), \A i \in DOMAIN f.kids : f.kids[i] \in T
      PROVE  f \in T
  <2>1. ~Conditional(f) /\ f.kind \in {"and", "or"} /\ f.kids \in Seq(FilterExpr)
    BY <1>2, BranchFacts
  <2>2. Word(f) = f.kind /\ Word(f) \in Pieces
    BY <2>1, WordFacts DEF Word, Comparing
  <2>3. KidTexts(f) \in Seq(Seq(Pieces))
    <3>1. \A i \in DOMAIN f.kids : Canonical[f.kids[i]] \in Seq(Pieces)
      BY <1>2
    <3>2. DOMAIN f.kids = 1..Len(f.kids) /\ Len(f.kids) \in Nat
      BY <2>1
    <3> QED BY <3>1, <3>2 DEF KidTexts
  <2>4. Sorted(KidTexts(f)) \in Seq(Seq(Pieces))
    BY <2>3, SortedShuffled, ShuffledFacts DEF Characters
  <2>5. Within(f) = Joined(Sorted(KidTexts(f)), " ") /\ Within(f) \in Seq(Pieces)
    <3>1. " " \in Pieces
      BY MarksArePieces DEF Marks
    <3> QED BY <2>1, <2>4, <3>1, JoinedType DEF Within
  <2>6. Canonical[f] = <<"(", f.kind, " ">> \o Within(f) \o <<")">>
    <3>1. Canonical[f] = <<"(", KindText(f.kind), " ">> \o CanonicalKids(KidTexts(f)) \o <<")">>
      BY <2>1, CanonicalDef DEF KidTexts
    <3>2. CanonicalKids(KidTexts(f)) = Joined(Sorted(KidTexts(f)), " ") /\ KindText(f.kind) = f.kind
      BY DEF CanonicalKids, KindText
    <3> QED BY <2>5, <3>1, <3>2
  <2>7. Canonical[f] = Clausal(Word(f), Within(f))
    BY <2>2, <2>5, <2>6, NodeForm
  <2>8. Clausal(Word(f), Within(f)) \in Seq(Pieces)
    BY <2>2, <2>5, ClausalType
  <2> QED BY <2>2, <2>5, <2>7, <2>8
<1> HIDE DEF Formal
<1>3. FilterExpr \subseteq T
  <2>1. Leaves \subseteq T
    BY <1>1
  <2> HIDE DEF T
  <2> QED BY <1>2, <2>1, FilterInduction
<1> QED BY <1>3 DEF Formal

Begins(whole, first, rest) == whole = <<first>> \o rest

LEMMA FirstRead ==
  ASSUME NEW a \in Pieces, NEW b \in Pieces, NEW t \in Seq(Pieces), NEW u \in Seq(Pieces),
         NEW x \in Pieces, NEW y \in Pieces, NEW r \in Seq(Pieces), NEW s \in Seq(Pieces),
         NEW at, NEW bu, Begins(at, a, t), Begins(bu, b, u), BothRead(at, x, r, bu, y, s)
  PROVE  a = b /\ BothRead(t, x, r, u, y, s)
<1>1. PICK w : Reads(w, <<a>> \o t, x, r) /\ Reads(w, <<b>> \o u, y, s)
  BY DEF BothRead, Begins
<1>2. a = b /\ BothRead(t, x, r, u, y, s)
  BY <1>1, FirstPiece
<1> QED BY <1>2

\* Of two keys read from one text, the words agree, and what is within is read.
LEMMA WithinRead ==
  ASSUME NEW f \in FilterExpr, NEW g \in FilterExpr,
         NEW x \in Pieces, NEW y \in Pieces, NEW r \in Seq(Pieces), NEW s \in Seq(Pieces),
         NEW w, Reads(w, Canonical[f], x, r), Reads(w, Canonical[g], y, s)
  PROVE  /\ Word(f) = Word(g)
         /\ \E t, u, v : /\ u \in Seq(Pieces) /\ v \in Seq(Pieces)
                         /\ Reads(t, Within(f), ")", u) /\ Reads(t, Within(g), ")", v)
<1> DEFINE a == Word(f)
           b == Word(g)
           p == Within(f)
           q == Within(g)
           c == <<")">>
           pc == p \o c
           qc == q \o c
           epc == <<" ">> \o pc
           eqc == <<" ">> \o qc
           aepc == <<a>> \o epc
           beqc == <<b>> \o eqc
           u == <<x>> \o r
           v == <<y>> \o s
<1>1. {"(", ")", " "} \subseteq Pieces
  BY MarksArePieces DEF Marks
<1>2. /\ a \in Pieces /\ b \in Pieces /\ p \in Seq(Pieces) /\ q \in Seq(Pieces)
      /\ Canonical[f] = <<"(">> \o aepc /\ Canonical[g] = <<"(">> \o beqc
  BY KeyForm DEF Clausal
<1>3. c \in Seq(Pieces) /\ <<" ">> \in Seq(Pieces) /\ <<a>> \in Seq(Pieces) /\ <<b>> \in Seq(Pieces)
  BY <1>1, <1>2, OnePiece
<1>4. u \in Seq(Pieces) /\ v \in Seq(Pieces)
  OBVIOUS
<1> HIDE DEF a, b, p, q, c, u, v
<1>5. pc \in Seq(Pieces) /\ qc \in Seq(Pieces)
  BY <1>2, <1>3, ConcatProperties
<1>6. Assoc(p, c, u) /\ Assoc(q, c, v)
  BY <1>2, <1>3, <1>4, Associates
<1> HIDE DEF pc, qc
<1>7. epc \in Seq(Pieces) /\ eqc \in Seq(Pieces)
  BY <1>3, <1>5, ConcatProperties
<1> HIDE DEF epc, eqc
<1>8. aepc \in Seq(Pieces) /\ beqc \in Seq(Pieces)
  BY <1>3, <1>7, ConcatProperties
<1> HIDE DEF aepc, beqc
<1>9. BothRead(aepc, x, r, beqc, y, s)
  <2>1. BothRead(Canonical[f], x, r, Canonical[g], y, s)
    BY DEF BothRead
  <2>2. Begins(Canonical[f], "(", aepc) /\ Begins(Canonical[g], "(", beqc) /\ "(" \in Pieces
    BY <1>1, <1>2 DEF Begins
  <2> QED BY <1>8, <2>1, <2>2, FirstRead, Zenon
<1>10. a = b /\ BothRead(epc, x, r, eqc, y, s)
  <2>1. Begins(aepc, a, epc) /\ Begins(beqc, b, eqc)
    BY DEF aepc, beqc, Begins
  <2>2. a \in Pieces /\ b \in Pieces
    BY <1>2
  <2>3. BothRead(epc, x, r, eqc, y, s)
    BY <1>7, <1>9, <2>1, <2>2, FirstRead, SMTT(30)
  <2>4. a = b
    BY <1>7, <1>9, <2>1, <2>2, FirstRead, SMTT(30)
  <2> QED BY <2>3, <2>4
<1>11. BothRead(pc, x, r, qc, y, s)
  <2>1. Begins(epc, " ", pc) /\ Begins(eqc, " ", qc) /\ " " \in Pieces
    BY <1>1 DEF epc, eqc, Begins
  <2> QED BY <1>5, <1>10, <2>1, FirstRead, Zenon
<1>12. PICK t : Reads(t, pc, x, r) /\ Reads(t, qc, y, s)
  BY <1>11 DEF BothRead
<1>13. t = p \o (c \o u) /\ t = q \o (c \o v)
  BY <1>12, <1>6 DEF Reads, Assoc, pc, qc, u, v
<1>14. Reads(t, p, ")", u) /\ Reads(t, q, ")", v)
  BY <1>13 DEF Reads, c
<1> QED BY <1>10, <1>14, <1>4 DEF a, b, p, q

\* A text behind a start, read up to the mark that ends them both.
LEMMA Passed ==
  ASSUME NEW a \in Seq(Pieces), NEW e \in Pieces, NEW b \in Seq(Pieces), NEW x \in Pieces, NEW r \in Seq(Pieces),
         NEW w, Reads(w, a \o (<<e>> \o b), x, r)
  PROVE  Reads(w, a, e, b \o (<<x>> \o r)) /\ b \o (<<x>> \o r) \in Seq(Pieces)
<1> DEFINE d == <<e>>
           l == <<x>> \o r
<1>1. d \in Seq(Pieces) /\ l \in Seq(Pieces)
  OBVIOUS
<1>2. w = (a \o (d \o b)) \o l
  BY DEF Reads
<1> HIDE DEF d, l
<1>3. Regroups(a, d, b, l) /\ b \o l \in Seq(Pieces)
  BY <1>1, Regrouped, ConcatProperties
<1>4. w = a \o (d \o (b \o l))
  BY <1>2, <1>3 DEF Regroups
<1> QED BY <1>3, <1>4 DEF Reads, d, l

LEMMA SameUpTo ==
  ASSUME NEW a \in Seq(Pieces), NEW l \in Seq(Pieces), NEW c \in Seq(Pieces), NEW m \in Seq(Pieces),
         NEW E \in SUBSET Pieces, NEW e \in E,
         \A i \in DOMAIN a : a[i] \notin E, \A i \in DOMAIN c : c[i] \notin E,
         NEW w, Reads(w, a, e, l), Reads(w, c, e, m)
  PROVE  a = c /\ l = m
BY ReadsUpTo

LEMMA UpToBlank ==
  ASSUME NEW a \in Seq(Pieces), NEW b \in Seq(Pieces), NEW c \in Seq(Pieces), NEW d \in Seq(Pieces),
         \A i \in DOMAIN a : a[i] # " ", \A i \in DOMAIN c : c[i] # " ",
         NEW x \in Pieces, NEW y \in Pieces, NEW r \in Seq(Pieces), NEW s \in Seq(Pieces),
         NEW w, Reads(w, a \o (<<" ">> \o b), x, r), Reads(w, c \o (<<" ">> \o d), y, s)
  PROVE  a = c /\ BothRead(b, x, r, d, y, s)
<1> DEFINE l == b \o (<<x>> \o r)
           m == d \o (<<y>> \o s)
<1>1. " " \in Pieces
  BY MarksArePieces DEF Marks
<1>2. Reads(w, a, " ", l) /\ l \in Seq(Pieces) /\ Reads(w, c, " ", m) /\ m \in Seq(Pieces)
  BY <1>1, Passed
<1> HIDE DEF l, m
<1> DEFINE e == " "
           E == {e}
<1>3. E \in SUBSET Pieces /\ e \in E /\ (\A i \in DOMAIN a : a[i] \notin E) /\ \A i \in DOMAIN c : c[i] \notin E
  BY <1>1
<1>4. Reads(w, a, e, l) /\ Reads(w, c, e, m)
  BY <1>2
<1> HIDE DEF e, E
<1>5. a = c /\ l = m
  BY <1>2, <1>3, <1>4, SameUpTo
<1> QED BY <1>2, <1>5 DEF l, m, BothRead, Reads

SameMembers(s, t) == \A x : (\E i \in DOMAIN t : t[i] = x) <=> (\E i \in DOMAIN s : s[i] = x)

LEMMA SameRange ==
  ASSUME NEW S, NEW s \in Seq(S), NEW t \in Shuffled(s)
  PROVE  SameMembers(s, t)
<1>1. PICK p \in Bijection(DOMAIN s, DOMAIN s) : t = [i \in DOMAIN s |-> s[p[i]]]
  BY DEF Shuffled
<1>2. p \in [DOMAIN s -> DOMAIN s] /\ \A j \in DOMAIN s : \E i \in DOMAIN s : p[i] = j
  BY DEF Bijection, Injection, Surjection
<1> QED BY <1>1, <1>2 DEF SameMembers

LEMMA LiteralsApart ==
  ASSUME NEW l \in Operands, NEW m \in Operands, PlainLiteral(l), PlainLiteral(m),
         CanonicalLiteral(l) = CanonicalLiteral(m)
  PROVE  l = m
<1> DEFINE w == CanonicalLiteral(l) \o (<<")">> \o << >>)
<1>1. Reads(w, CanonicalLiteral(l), ")", << >>) /\ Reads(w, CanonicalLiteral(m), ")", << >>)
  BY DEF Reads
<1>2. << >> \in Seq(Pieces) /\ ")" \in Ends
  BY DEF Ends
<1> HIDE DEF w
<1> QED BY <1>1, <1>2, LiteralRead

\* A text that begins with a piece begins with no other.
LEMMA StartsWith ==
  ASSUME NEW a \in Pieces, NEW e \in Pieces, NEW x \in Pieces,
         NEW t \in Seq(Pieces), NEW r \in Seq(Pieces), NEW s \in Seq(Pieces),
         NEW at, Begins(at, a, t), NEW w, Reads(w, at, x, r), Reads(w, << >>, e, s)
  PROVE  a = e
<1> DEFINE k == <<x>> \o r
           c == <<e>>
           d == <<a>>
           cs == c \o s
           tk == t \o k
<1>1. k \in Seq(Pieces) /\ c \in Seq(Pieces) /\ d \in Seq(Pieces) /\ Len(c) = Len(d)
  OBVIOUS
<1>2. w = << >> \o cs /\ w = (d \o t) \o k
  BY DEF Reads, Begins
<1> HIDE DEF k, c, d
<1>3. cs \in Seq(Pieces) /\ tk \in Seq(Pieces) /\ Assoc(d, t, k)
  BY <1>1, ConcatProperties, Associates
<1>4. << >> \o cs = cs
  <2> HIDE DEF cs
  <2> QED BY <1>3
<1>5. c \o s = d \o tk
  BY <1>2, <1>3, <1>4 DEF Assoc
<1> HIDE DEF tk
<1>6. c = d
  BY <1>1, <1>3, <1>5, SplitAtLength
<1> QED BY <1>6 DEF c, d

\* The texts of plain literals.
PlainTexts == {CanonicalLiteral(l) : l \in {l \in Operands : PlainLiteral(l)}}

LEMMA PlainTextsApart ==
  /\ PlainTexts \in SUBSET Seq(Pieces)
  /\ Apart(Pieces, PlainTexts, {",", "]"}) /\ Opens(Pieces, PlainTexts, {",", "]"}, "]")
<1>1. PlainTexts \in SUBSET Seq(Pieces)
  BY LiteralType DEF PlainTexts
<1>2. ASSUME NEW a \in PlainTexts, NEW b \in PlainTexts,
             NEW x \in {",", "]"}, NEW y \in {",", "]"}, NEW r \in Seq(Pieces), NEW s \in Seq(Pieces),
             BothRead(a, x, r, b, y, s)
      PROVE  a = b
  <2>1. PICK l \in Operands : PlainLiteral(l) /\ a = CanonicalLiteral(l)
    BY DEF PlainTexts
  <2>2. PICK m \in Operands : PlainLiteral(m) /\ b = CanonicalLiteral(m)
    BY DEF PlainTexts
  <2>3. x \in Ends /\ y \in Ends
    BY DEF Ends
  <2>4. PICK w : Reads(w, CanonicalLiteral(l), x, r) /\ Reads(w, CanonicalLiteral(m), y, s)
    BY <1>2, <2>1, <2>2 DEF BothRead
  <2>5. l = m
    BY <2>1, <2>2, <2>3, <2>4, LiteralRead
  <2> QED BY <2>1, <2>2, <2>5
<1>3. ASSUME NEW a \in PlainTexts, NEW x \in {",", "]"}, NEW r \in Seq(Pieces), NEW s \in Seq(Pieces),
             BothRead(a, x, r, << >>, "]", s)
      PROVE  FALSE
  <2>1. PICK l \in Operands : a = CanonicalLiteral(l)
    BY DEF PlainTexts
  <2>2. Begins(a, Lead(l), Trail(l)) /\ Lead(l) \in Pieces /\ Trail(l) \in Seq(Pieces) /\ Lead(l) # "]"
    BY <2>1, LiteralText DEF Begins
  <2>3. x \in Pieces /\ "]" \in Pieces
    BY MarksArePieces DEF Marks
  <2>4. PICK w : Reads(w, a, x, r) /\ Reads(w, << >>, "]", s)
    BY <1>3 DEF BothRead
  <2>5. Lead(l) = "]"
    BY <2>2, <2>3, <2>4, StartsWith
  <2> QED BY <2>2, <2>5
<1> QED BY <1>1, <1>2, <1>3 DEF Apart, Opens

AllOf(s, t) == \A i \in DOMAIN s : \E j \in DOMAIN t : s[i] = t[j]

LEMMA JoinedTold ==
  ASSUME NEW words, words \in SUBSET Seq(Pieces), NEW e \in Pieces, NEW close \in Pieces, e # close,
         Apart(Pieces, words, {e, close}), Opens(Pieces, words, {e, close}, close),
         NEW p \in Seq(words), NEW q \in Seq(words), NEW r \in Seq(Pieces), NEW s \in Seq(Pieces),
         NEW w, Reads(w, Joined(p, e), close, r), Reads(w, Joined(q, e), close, s)
  PROVE  p = q
<1>1. Joined(<< >>, e) = << >>
  BY NothingJoined
<1>2. ASSUME NEW z \in Seq(words), NEW u \in Seq(Pieces), NEW v \in Seq(Pieces),
             Reads(w, Joined(z, e), close, u), Reads(w, << >>, close, v)
      PROVE  z = << >>
  BY <1>2, WordsOpen
<1>3. CASE p # << >> /\ q # << >>
  BY <1>3, JoinedRead
<1>4. CASE p = << >>
  <2>1. Reads(w, << >>, close, r)
    BY <1>1, <1>4
  <2>2. q = << >>
    BY <1>2, <2>1
  <2> QED BY <1>4, <2>2
<1>5. CASE q = << >>
  <2>1. Reads(w, << >>, close, s)
    BY <1>1, <1>5
  <2>2. p = << >>
    BY <1>2, <2>1
  <2> QED BY <1>5, <2>2
<1> QED BY <1>3, <1>4, <1>5

LEMMA ListRead ==
  ASSUME NEW a \in Seq(Operands), NEW b \in Seq(Operands),
         \A i \in DOMAIN a : PlainLiteral(a[i]), \A i \in DOMAIN b : PlainLiteral(b[i]),
         NEW x \in Pieces, NEW y \in Pieces, NEW r \in Seq(Pieces), NEW s \in Seq(Pieces),
         BothRead(ListText(a), x, r, ListText(b), y, s)
  PROVE  ListText(a) = ListText(b) /\ AllOf(a, b) /\ AllOf(b, a)
<1> DEFINE T(values) == [i \in DOMAIN values |-> CanonicalLiteral(values[i])]
           J(values) == Joined(Sorted(T(values)), ",")
           c == <<"]">>
<1>1. "[" \in Pieces /\ "]" \in Pieces /\ "," \in Pieces
  BY MarksArePieces DEF Marks
<1>2. ASSUME NEW v \in Seq(Operands)
      PROVE  /\ T(v) \in Seq(Characters) /\ DOMAIN T(v) = DOMAIN v
             /\ Sorted(T(v)) \in Shuffled(T(v)) /\ Sorted(T(v)) \in Seq(Characters)
             /\ J(v) \in Seq(Pieces) /\ ListText(v) = <<"[">> \o (J(v) \o c)
  BY ListTextType
<1>3. ASSUME NEW v \in Seq(Operands), \A i \in DOMAIN v : PlainLiteral(v[i])
      PROVE  Sorted(T(v)) \in Seq(PlainTexts)
  <2>1. \A i \in DOMAIN v : T(v)[i] \in PlainTexts
    BY <1>3 DEF PlainTexts
  <2>2. T(v) \in Seq(PlainTexts)
    <3>1. DOMAIN v = 1..Len(v) /\ Len(v) \in Nat
      BY <1>3
    <3> QED BY <2>1, <3>1
  <2> HIDE DEF T
  <2> QED BY <1>2, <2>2, ShuffledFacts
<1> HIDE DEF T
<1>4. PICK t, k, l : /\ k \in Seq(Pieces) /\ l \in Seq(Pieces)
                     /\ Reads(t, J(a), "]", k) /\ Reads(t, J(b), "]", l)
  <2> DEFINE ja == J(a)
             jb == J(b)
             jac == ja \o c
             jbc == jb \o c
             k == <<x>> \o r
             l == <<y>> \o s
  <2>1. ja \in Seq(Pieces) /\ jb \in Seq(Pieces) /\ c \in Seq(Pieces) /\ k \in Seq(Pieces) /\ l \in Seq(Pieces)
    BY <1>1, <1>2, OnePiece, ConcatProperties
  <2>2. Begins(ListText(a), "[", jac) /\ Begins(ListText(b), "[", jbc)
    BY <1>2 DEF Begins
  <2> HIDE DEF ja, jb, c, k, l
  <2>3. jac \in Seq(Pieces) /\ jbc \in Seq(Pieces)
    BY <2>1, ConcatProperties
  <2>4. Assoc(ja, c, k) /\ Assoc(jb, c, l)
    BY <2>1, Associates
  <2> HIDE DEF jac, jbc
  <2>5. BothRead(jac, x, r, jbc, y, s)
    <3> DEFINE la == ListText(a)
               lb == ListText(b)
               o == "["
    <3>1. Begins(la, o, jac) /\ Begins(lb, o, jbc) /\ o \in Pieces /\ BothRead(la, x, r, lb, y, s)
      BY <1>1, <2>2
    <3> HIDE DEF la, lb, o
    <3> QED BY <2>3, <3>1, FirstRead
  <2>6. PICK t : Reads(t, jac, x, r) /\ Reads(t, jbc, y, s)
    BY <2>5 DEF BothRead
  <2>7. t = ja \o (c \o k) /\ t = jb \o (c \o l)
    BY <2>4, <2>6 DEF Reads, Assoc, jac, jbc, k, l
  <2>8. Reads(t, J(a), "]", k) /\ Reads(t, J(b), "]", l)
    BY <2>7 DEF Reads, c, ja, jb
  <2> QED BY <2>1, <2>8
<1> DEFINE p == Sorted(T(a))
           q == Sorted(T(b))
<1>5. p \in Seq(PlainTexts) /\ q \in Seq(PlainTexts)
  BY <1>3
<1>6. Reads(t, Joined(p, ","), "]", k) /\ Reads(t, Joined(q, ","), "]", l)
  BY <1>4
<1>7. p \in Shuffled(T(a)) /\ q \in Shuffled(T(b))
  BY <1>2
<1> HIDE DEF p, q
<1>8. p = q
  <2> DEFINE e == ","
             f == "]"
  <2>1. /\ Apart(Pieces, PlainTexts, {e, f}) /\ Opens(Pieces, PlainTexts, {e, f}, f)
        /\ PlainTexts \in SUBSET Seq(Pieces) /\ e # f /\ e \in Pieces /\ f \in Pieces
    BY <1>1, PlainTextsApart
  <2>2. Reads(t, Joined(p, e), f, k) /\ Reads(t, Joined(q, e), f, l)
    BY <1>6
  <2> HIDE DEF e, f
  <2> QED BY <1>4, <1>5, <2>1, <2>2, JoinedTold
<1>9. ListText(a) = ListText(b)
  BY <1>2, <1>8 DEF p, q
<1>10. ASSUME NEW u \in Seq(Operands), NEW v \in Seq(Operands),
             \A i \in DOMAIN u : PlainLiteral(u[i]), \A i \in DOMAIN v : PlainLiteral(v[i]),
             p \in Shuffled(T(u)), p \in Shuffled(T(v))
      PROVE  AllOf(u, v)
  <2> SUFFICES ASSUME NEW i \in DOMAIN u
               PROVE  \E j \in DOMAIN v : u[i] = v[j]
    BY DEF AllOf
  <2>1. T(u) \in Seq(Characters) /\ T(v) \in Seq(Characters) /\ DOMAIN T(u) = DOMAIN u /\ DOMAIN T(v) = DOMAIN v
    BY <1>2
  <2>2. \E m \in DOMAIN p : p[m] = T(u)[i]
    <3> DEFINE Tu == T(u)
    <3>1. Tu \in Seq(Characters) /\ p \in Shuffled(Tu) /\ i \in DOMAIN Tu
      BY <1>10, <2>1
    <3> HIDE DEF Tu
    <3>2. SameMembers(Tu, p)
      BY <3>1, SameRange
    <3> QED BY <3>1, <3>2 DEF Tu, SameMembers
  <2>3. PICK j \in DOMAIN T(v) : T(v)[j] = T(u)[i]
    <3> DEFINE Tv == T(v)
               z == T(u)[i]
    <3>1. Tv \in Seq(Characters) /\ p \in Shuffled(Tv) /\ \E m \in DOMAIN p : p[m] = z
      BY <1>10, <2>1, <2>2
    <3> HIDE DEF Tv, z
    <3>2. SameMembers(Tv, p)
      BY <3>1, SameRange
    <3> QED BY <3>1, <3>2 DEF Tv, z, SameMembers
  <2>4. j \in DOMAIN v /\ CanonicalLiteral(v[j]) = CanonicalLiteral(u[i])
    BY <2>1, <2>3 DEF T
  <2>5. u[i] = v[j]
    <3>1. u[i] \in Operands /\ v[j] \in Operands /\ PlainLiteral(u[i]) /\ PlainLiteral(v[j])
      BY <1>10, <2>4
    <3> QED BY <2>4, <3>1, LiteralsApart
  <2> QED BY <2>4, <2>5
<1>11. p \in Shuffled(T(a)) /\ p \in Shuffled(T(b))
  BY <1>8, <1>7
<1> QED BY <1>9, <1>10, <1>11

LEMMA LeafRead ==
  ASSUME NEW c \in Leaves, NEW d \in Leaves, PlainLeaf(c), PlainLeaf(d), Word(c) = Word(d),
         NEW t, NEW u \in Seq(Pieces), NEW v \in Seq(Pieces),
         Reads(t, Within(c), ")", u), Reads(t, Within(d), ")", v)
  PROVE  /\ c.kind = d.kind /\ c.field = d.field /\ Object(c) = Object(d)
         /\ AllOf(c.values, d.values) /\ AllOf(d.values, c.values)
<1>1. /\ Object(c) \in Seq(Pieces) /\ Object(d) \in Seq(Pieces)
      /\ c.field \in Seq(Pieces) /\ d.field \in Seq(Pieces) /\ " " \in Pieces /\ ")" \in Pieces
  BY LeafForm, LeafFacts, MarksArePieces DEF Characters, Marks
<1>2. c.field = d.field /\ BothRead(Object(c), ")", u, Object(d), ")", v)
  <2> DEFINE a == c.field
             b == d.field
             e == Object(c)
             f == Object(d)
             x == ")"
  <2>1. /\ (\A i \in DOMAIN a : a[i] # " ") /\ (\A i \in DOMAIN b : b[i] # " ")
        /\ Reads(t, a \o (<<" ">> \o e), x, u) /\ Reads(t, b \o (<<" ">> \o f), x, v)
        /\ a \in Seq(Pieces) /\ b \in Seq(Pieces) /\ e \in Seq(Pieces) /\ f \in Seq(Pieces) /\ x \in Pieces
    BY <1>1, LeafFacts DEF PlainLeaf, Within
  <2> HIDE DEF a, b, e, f, x
  <2>2. a = b /\ BothRead(e, x, u, f, x, v)
    BY <2>1, UpToBlank
  <2> QED BY <2>2 DEF a, b, e, f, x
<1>3. ASSUME NEW l \in Leaves, PlainLeaf(l)
      PROVE  /\ l.values \in Seq(Operands) /\ \A i \in DOMAIN l.values : PlainLiteral(l.values[i])
             /\ l.kind \notin Listing => /\ l.values[1] \in Operands /\ PlainLiteral(l.values[1])
                                         /\ CanonicalLiteral(l.values[1]) \in Seq(Pieces)
                                         /\ DOMAIN l.values = {1}
  <2>1. l.values \in Seq(Operands) /\ \A i \in DOMAIN l.values : PlainLiteral(l.values[i])
    BY <1>3, LeafFacts DEF PlainLeaf
  <2>2. ASSUME l.kind \notin Listing
        PROVE  l.values[1] \in Operands /\ 1 \in DOMAIN l.values /\ DOMAIN l.values = {1}
    <3>1. Len(l.values) = 1
      BY <2>2, LeafFacts
    <3> DEFINE values == l.values
    <3>2. values \in Seq(Operands) /\ Len(values) = 1
      BY <2>1, <3>1
    <3> HIDE DEF values
    <3>3. DOMAIN values = {1}
      BY <3>2
    <3> QED BY <3>2, <3>3, ElementOfSeq DEF values
  <2> QED BY <2>1, <2>2, LiteralType
<1>4. ASSUME c.kind = d.kind, c.kind \notin Listing, c.values[1] = d.values[1]
      PROVE  AllOf(c.values, d.values) /\ AllOf(d.values, c.values)
  <2>1. DOMAIN c.values = {1} /\ DOMAIN d.values = {1}
    BY <1>3, <1>4
  <2> QED BY <1>4, <2>1 DEF AllOf
<1>5. ASSUME c.kind \notin Listing, d.kind \notin Listing,
             BothRead(CanonicalLiteral(c.values[1]), ")", u, CanonicalLiteral(d.values[1]), ")", v)
      PROVE  c.values[1] = d.values[1]
  <2> DEFINE l == c.values[1]
             m == d.values[1]
             x == ")"
  <2>1. l \in Operands /\ PlainLiteral(l) /\ m \in Operands /\ PlainLiteral(m) /\ x \in Ends
    BY <1>3, <1>5 DEF Ends
  <2>2. BothRead(CanonicalLiteral(l), x, u, CanonicalLiteral(m), x, v)
    BY <1>5
  <2> HIDE DEF l, m, x
  <2>3. PICK w : Reads(w, CanonicalLiteral(l), x, u) /\ Reads(w, CanonicalLiteral(m), x, v)
    BY <2>2 DEF BothRead
  <2>4. l = m
    BY <2>1, <2>3, LiteralRead
  <2> QED BY <2>4 DEF l, m
<1>6. CASE c.kind \in Comparing
  <2>1. Word(c) = "cmp" /\ c.kind \notin Listing /\ c.kind # "ac"
    BY <1>6 DEF Word, Comparing, Listing
  <2>2. d.kind \in Comparing /\ d.kind \notin Listing /\ d.kind # "ac"
    <3>1. d.kind \notin Comparing => Word(d) = d.kind /\ d.kind \in Listing \cup {"ac"}
      BY LeafFacts DEF Word
    <3>2. d.kind \in Comparing
      BY <2>1, <3>1 DEF Listing
    <3> QED BY <3>2 DEF Comparing, Listing
  <2> DEFINE k == c.kind
             l == d.kind
             e == " "
             a == CanonicalLiteral(c.values[1])
             b == CanonicalLiteral(d.values[1])
             ea == <<e>> \o a
             eb == <<e>> \o b
             x == ")"
  <2>3. k \in Pieces /\ l \in Pieces /\ e \in Pieces /\ x \in Pieces
    BY <1>1, <1>6, <2>2, MarksArePieces DEF Marks
  <2>4. a \in Seq(Pieces) /\ b \in Seq(Pieces)
    BY <1>3, <2>1, <2>2
  <2>5. Begins(Object(c), k, ea) /\ Begins(Object(d), l, eb) /\ Begins(ea, e, a) /\ Begins(eb, e, b)
    BY <2>1, <2>2 DEF Object, Begins
  <2>6. BothRead(Object(c), x, u, Object(d), x, v)
    BY <1>2
  <2>7. <<e>> \in Seq(Pieces)
    BY <2>3, OnePiece
  <2> DEFINE oc == Object(c)
             od == Object(d)
  <2> HIDE DEF k, l, e, a, b, x, oc, od
  <2>8. ea \in Seq(Pieces) /\ eb \in Seq(Pieces)
    BY <2>4, <2>7, ConcatProperties
  <2> HIDE DEF ea, eb
  <2>9. k = l /\ BothRead(a, x, u, b, x, v)
    <3>1. /\ k \in Pieces /\ l \in Pieces /\ x \in Pieces /\ ea \in Seq(Pieces) /\ eb \in Seq(Pieces)
          /\ Begins(oc, k, ea) /\ Begins(od, l, eb) /\ BothRead(oc, x, u, od, x, v)
      BY <2>3, <2>5, <2>6, <2>8 DEF oc, od
    <3>2. k = l /\ BothRead(ea, x, u, eb, x, v)
      BY <3>1, FirstRead
    <3>3. Begins(ea, e, a) /\ Begins(eb, e, b) /\ BothRead(ea, x, u, eb, x, v)
      BY <2>5, <3>2
    <3>4. BothRead(a, x, u, b, x, v)
      BY <2>3, <2>4, <3>3, FirstRead
    <3> QED BY <3>2, <3>4
  <2>10. c.values[1] = d.values[1]
    BY <1>5, <2>1, <2>2, <2>9 DEF a, b, x
  <2>11. Object(c) = Object(d)
    <3>1. k = l /\ ea = eb
      BY <2>9, <2>10 DEF ea, eb, a, b
    <3> QED BY <2>5, <3>1 DEF Begins
  <2> QED BY <1>2, <1>4, <2>1, <2>9, <2>10, <2>11 DEF k, l
<1>7. CASE c.kind \notin Comparing
  <2>1. Word(c) = c.kind /\ c.kind \in Listing \cup {"ac"}
    BY <1>7, LeafFacts DEF Word
  <2>2. d.kind = c.kind
    <3>1. d.kind \in Comparing => Word(d) = "cmp"
      BY DEF Word
    <3>2. Word(d) # "cmp"
      BY <2>1 DEF Listing
    <3> QED BY <2>1, <3>1, <3>2 DEF Word
  <2>3. CASE c.kind \in Listing
    <3>1. Object(c) = ListText(c.values) /\ Object(d) = ListText(d.values)
      BY <2>2, <2>3 DEF Object
    <3>2. ListText(c.values) = ListText(d.values) /\ AllOf(c.values, d.values) /\ AllOf(d.values, c.values)
      <4> DEFINE a == c.values
                 b == d.values
                 x == ")"
      <4>1. /\ a \in Seq(Operands) /\ b \in Seq(Operands) /\ x \in Pieces
            /\ (\A i \in DOMAIN a : PlainLiteral(a[i])) /\ (\A i \in DOMAIN b : PlainLiteral(b[i]))
            /\ BothRead(ListText(a), x, u, ListText(b), x, v)
        BY <1>1, <1>2, <1>3, <3>1
      <4> HIDE DEF a, b, x
      <4>2. ListText(a) = ListText(b) /\ AllOf(a, b) /\ AllOf(b, a)
        BY <4>1, ListRead
      <4> QED BY <4>2 DEF a, b
    <3> QED BY <1>2, <2>2, <3>1, <3>2
  <2>4. CASE c.kind = "ac"
    <3>1. c.kind \notin Listing /\ Object(c) = CanonicalLiteral(c.values[1]) /\ Object(d) = CanonicalLiteral(d.values[1])
      BY <2>2, <2>4 DEF Object, Listing
    <3>2. c.values[1] = d.values[1]
      BY <1>2, <1>5, <2>2, <3>1
    <3> QED BY <1>2, <1>4, <2>2, <3>1, <3>2
  <2> QED BY <2>1, <2>3, <2>4
<1> QED BY <1>6, <1>7

\* Lists with the same values in them match the same documents.
LEMMA SameMatched ==
  ASSUME NEW c \in Leaves, NEW d \in Leaves, c.kind = d.kind, c.field = d.field,
         AllOf(c.values, d.values), AllOf(d.values, c.values)
  PROVE  Matched[c] = Matched[d]
<1>1. c.values \in Seq(Operands) /\ d.values \in Seq(Operands)
  BY LeafFacts
<1>2. CASE c.kind \notin Listing
  <2> DEFINE a == c.values
             b == d.values
  <2>1. Len(a) = 1 /\ Len(b) = 1 /\ a \in Seq(Operands) /\ b \in Seq(Operands) /\ AllOf(a, b)
    BY <1>1, <1>2, LeafFacts
  <2>2. c = Condition(c.kind, c.field, a) /\ d = Condition(d.kind, d.field, b)
    BY LeafFacts
  <2> HIDE DEF a, b
  <2>3. DOMAIN a = {1} /\ DOMAIN b = {1}
    BY <2>1
  <2>4. a[1] = b[1]
    BY <2>1, <2>3 DEF AllOf
  <2>5. \A i \in 1..Len(a) : a[i] = b[i]
    BY <2>1, <2>4
  <2>6. a = b
    BY <2>1, <2>5, SeqEqual
  <2> QED BY <2>2, <2>6
<1>3. CASE c.kind \in Listing
  <2>1. ASSUME NEW e \in Leaves, e.kind \in Listing
        PROVE  Matched[e] = {doc \in Docs : Meets(doc, Built(e))}
    <3>1. Operator(e.kind) # "AND" /\ Operator(e.kind) # "OR"
      BY <2>1 DEF Operator, Listing
    <3>2. e \in FilterExpr
      BY LeafIsFilter
    <3> QED BY <3>1, <3>2, MatchedDef
  <2>2. ASSUME NEW doc
        PROVE  Meets(doc, Built(c)) <=> Meets(doc, Built(d))
    <3> DEFINE l == Stored(doc)[c.field]
    <3>1. ASSUME NEW e \in Leaves, e.kind \in Listing
          PROVE  /\ Built(e).op = Operator(e.kind) /\ Built(e).path = e.field /\ Built(e).operand = e.values
      BY DEF Built
    <3>2. CASE c.kind = "in"
      <4>1. ASSUME NEW e \in Leaves, e.kind = "in"
            PROVE  Meets(doc, Built(e)) <=>
                     e.field \in DOMAIN Stored(doc) /\ \E i \in DOMAIN e.values : Same(Stored(doc)[e.field], e.values[i])
        BY <3>1, <4>1 DEF Meets, Operator, Among, Listing, Built
      <4>2. (\E i \in DOMAIN c.values : Same(l, c.values[i])) <=> (\E i \in DOMAIN d.values : Same(l, d.values[i]))
        BY DEF AllOf
      <4> QED BY <3>2, <4>1, <4>2
    <3>3. CASE c.kind = "not_in"
      <4>1. ASSUME NEW e \in Leaves, e.kind = "not_in"
            PROVE  Meets(doc, Built(e)) <=>
                     /\ e.field \in DOMAIN Stored(doc) /\ Stored(doc)[e.field].t # "null"
                     /\ ~\E i \in DOMAIN e.values : Same(Stored(doc)[e.field], e.values[i])
        BY <3>1, <4>1 DEF Meets, Operator, Among, Listing, Built
      <4>2. (\E i \in DOMAIN c.values : Same(l, c.values[i])) <=> (\E i \in DOMAIN d.values : Same(l, d.values[i]))
        BY DEF AllOf
      <4> QED BY <3>3, <4>1, <4>2
    <3>4. CASE c.kind = "aca"
      <4>1. ASSUME NEW e \in Leaves, e.kind = "aca"
            PROVE  Meets(doc, Built(e)) <=>
                     /\ e.field \in DOMAIN Stored(doc) /\ Stored(doc)[e.field].t = "array"
                     /\ \E i \in DOMAIN e.values : Among(e.values[i], Stored(doc)[e.field].v)
        BY <3>1, <4>1 DEF Meets, Operator, Listing, Built
      <4>2. (\E i \in DOMAIN c.values : Among(c.values[i], l.v)) <=> (\E i \in DOMAIN d.values : Among(d.values[i], l.v))
        BY DEF AllOf
      <4> QED BY <3>4, <4>1, <4>2
    <3> QED BY <1>3, <3>2, <3>3, <3>4 DEF Listing
  <2>3. {doc \in Docs : Meets(doc, Built(c))} = {doc \in Docs : Meets(doc, Built(d))}
    BY <2>2
  <2> QED BY <1>3, <2>1, <2>3
<1> QED BY <1>2, <1>3

\* In a text, the keys of filters that match different documents are told
\* apart up to a layer.
Tells(f, g, x, y, r, s) ==
  Plain(f) /\ Plain(g) /\ BothRead(Canonical[f], x, r, Canonical[g], y, s)
    => Canonical[f] = Canonical[g] /\ Matched[f] = Matched[g]
Told(n) ==
  \A f, g \in FilterExprTo[n], x, y \in {" ", ")"}, r, s \in Seq(Pieces) : Tells(f, g, x, y, r, s)
PlainKeys(n) == {Canonical[f] : f \in {f \in FilterExprTo[n] : Plain(f)}}

LEMMA PlainKeysApart ==
  ASSUME NEW n \in 0..MaxDepth, Told(n)
  PROVE  /\ PlainKeys(n) \in SUBSET Seq(Pieces)
         /\ Apart(Pieces, PlainKeys(n), {" ", ")"}) /\ Opens(Pieces, PlainKeys(n), {" ", ")"}, ")")
         /\ \A f, g \in FilterExprTo[n] :
              Plain(f) /\ Plain(g) /\ Canonical[f] = Canonical[g] => Matched[f] = Matched[g]
<1>1. FilterExprTo[n] \subseteq FilterExpr
  BY LayerIsFilter
<1>2. PlainKeys(n) \in SUBSET Seq(Pieces)
  BY <1>1, KeyForm DEF PlainKeys
<1>3. ASSUME NEW a \in PlainKeys(n), NEW b \in PlainKeys(n),
             NEW x \in {" ", ")"}, NEW y \in {" ", ")"}, NEW r \in Seq(Pieces), NEW s \in Seq(Pieces),
             BothRead(a, x, r, b, y, s)
      PROVE  a = b
  <2>1. PICK f \in FilterExprTo[n] : Plain(f) /\ a = Canonical[f]
    BY DEF PlainKeys
  <2>2. PICK g \in FilterExprTo[n] : Plain(g) /\ b = Canonical[g]
    BY DEF PlainKeys
  <2>3. BothRead(Canonical[f], x, r, Canonical[g], y, s)
    BY <1>3, <2>1, <2>2
  <2> QED BY <2>1, <2>2, <2>3 DEF Told, Tells
<1>4. ASSUME NEW a \in PlainKeys(n), NEW x \in {" ", ")"}, NEW r \in Seq(Pieces), NEW s \in Seq(Pieces),
             BothRead(a, x, r, << >>, ")", s)
      PROVE  FALSE
  <2>1. PICK f \in FilterExprTo[n] : a = Canonical[f]
    BY DEF PlainKeys
  <2>2. {"(", ")", " "} \subseteq Pieces
    BY MarksArePieces DEF Marks
  <2> DEFINE v == <<Word(f)>>
             e == <<" ">>
             c == <<")">>
             k == Within(f)
             kc == k \o c
             ekc == e \o kc
             t == v \o ekc
             o == "("
  <2>3. v \in Seq(Pieces) /\ e \in Seq(Pieces) /\ c \in Seq(Pieces) /\ k \in Seq(Pieces)
    BY <1>1, <2>2, KeyForm, OnePiece
  <2>4. Begins(a, o, t)
    BY <1>1, <2>1, KeyForm DEF Begins, Clausal
  <2> HIDE DEF v, e, c, k
  <2>5. kc \in Seq(Pieces)
    BY <2>3, ConcatProperties
  <2> HIDE DEF kc
  <2>6. ekc \in Seq(Pieces)
    BY <2>3, <2>5, ConcatProperties
  <2> HIDE DEF ekc
  <2>7. t \in Seq(Pieces)
    BY <2>3, <2>6, ConcatProperties
  <2> DEFINE d == ")"
  <2>8. x \in Pieces /\ o \in Pieces /\ d \in Pieces /\ o # d /\ BothRead(a, x, r, << >>, d, s)
    BY <1>4, <2>2
  <2> HIDE DEF t, o, d
  <2>9. PICK w : Reads(w, a, x, r) /\ Reads(w, << >>, d, s)
    BY <2>8 DEF BothRead
  <2>10. o = d
    BY <2>4, <2>7, <2>8, <2>9, StartsWith
  <2> QED BY <2>8, <2>10
<1>5. ASSUME NEW f \in FilterExprTo[n], NEW g \in FilterExprTo[n], Plain(f), Plain(g), Canonical[f] = Canonical[g]
      PROVE  Matched[f] = Matched[g]
  <2> DEFINE w == Canonical[f] \o (<<")">> \o << >>)
             x == ")"
             r == << >>
  <2>1. Reads(w, Canonical[f], x, r) /\ Reads(w, Canonical[g], x, r)
    BY <1>5 DEF Reads
  <2>2. BothRead(Canonical[f], x, r, Canonical[g], x, r)
    BY <2>1 DEF BothRead
  <2>3. r \in Seq(Pieces) /\ x \in {" ", ")"}
    OBVIOUS
  <2> HIDE DEF w, x, r
  <2> QED BY <1>5, <2>2, <2>3 DEF Told, Tells
<1> QED BY <1>2, <1>3, <1>4, <1>5 DEF Apart, Opens

LEMMA LeavesTold ==
  ASSUME NEW f \in Leaves, NEW g \in Leaves, Plain(f), Plain(g), Word(f) = Word(g),
         NEW t, NEW u \in Seq(Pieces), NEW v \in Seq(Pieces),
         Reads(t, Within(f), ")", u), Reads(t, Within(g), ")", v)
  PROVE  Canonical[f] = Canonical[g] /\ Matched[f] = Matched[g]
<1>1. PlainLeaf(f) /\ PlainLeaf(g)
  BY PlainParts
<1>2. /\ f.kind = g.kind /\ f.field = g.field /\ Object(f) = Object(g)
      /\ AllOf(f.values, g.values) /\ AllOf(g.values, f.values)
  BY <1>1, LeafRead
<1>3. Matched[f] = Matched[g]
  BY <1>2, SameMatched
<1>4. Within(f) = Within(g)
  BY <1>2, LeafFacts DEF Within
<1>5. Canonical[f] = Canonical[g]
  BY <1>4, KeyForm, LeafIsFilter
<1> QED BY <1>3, <1>5

LEMMA BranchesTold ==
  ASSUME NEW n \in 0..MaxDepth, Told(n),
         NEW f \in FilterExpr, NEW g \in FilterExpr,
         f \in Branches(FilterExprTo[n]), g \in Branches(FilterExprTo[n]),
         Plain(f), Plain(g), Word(f) = Word(g),
         NEW t, NEW u \in Seq(Pieces), NEW v \in Seq(Pieces),
         Reads(t, Within(f), ")", u), Reads(t, Within(g), ")", v)
  PROVE  Canonical[f] = Canonical[g] /\ Matched[f] = Matched[g]
<1> DEFINE words == PlainKeys(n)
<1>1. ASSUME NEW h \in FilterExpr, h \in Branches(FilterExprTo[n]), Plain(h)
      PROVE  /\ ~Conditional(h) /\ Word(h) = h.kind /\ h.kind \in {"and", "or"}
             /\ \A i \in DOMAIN h.kids : h.kids[i] \in FilterExprTo[n] /\ Plain(h.kids[i])
             /\ KidTexts(h) \in Seq(Characters) /\ DOMAIN KidTexts(h) = DOMAIN h.kids
             /\ Sorted(KidTexts(h)) \in Shuffled(KidTexts(h)) /\ Sorted(KidTexts(h)) \in Seq(words)
             /\ Within(h) = Joined(Sorted(KidTexts(h)), " ")
  <2>1. ~Conditional(h) /\ h.kind \in {"and", "or"} /\ h.kids \in Seq(FilterExprTo[n])
    BY <1>1, BranchFacts
  <2>2. h \in Branches(FilterExpr)
    BY <2>1, FilterFacts
  <2>3. \A i \in DOMAIN h.kids : h.kids[i] \in FilterExprTo[n] /\ Plain(h.kids[i])
    BY <1>1, <2>1, <2>2, PlainParts
  <2>4. KidTexts(h) \in Seq(words) /\ DOMAIN KidTexts(h) = DOMAIN h.kids
    <3>1. \A i \in DOMAIN h.kids : Canonical[h.kids[i]] \in words
      BY <2>3 DEF PlainKeys
    <3>2. DOMAIN h.kids = 1..Len(h.kids) /\ Len(h.kids) \in Nat
      BY <2>1
    <3> HIDE DEF words
    <3> QED BY <3>1, <3>2 DEF KidTexts
  <2>5. KidTexts(h) \in Seq(Characters)
    <3>1. words \in SUBSET Characters
      BY PlainKeysApart DEF Characters
    <3> HIDE DEF words
    <3> QED BY <2>4, <3>1
  <2>6. Sorted(KidTexts(h)) \in Shuffled(KidTexts(h))
    BY <2>5, SortedShuffled
  <2>7. Sorted(KidTexts(h)) \in Seq(words)
    BY <2>4, <2>6, ShuffledFacts
  <2>8. Word(h) = h.kind /\ Within(h) = Joined(Sorted(KidTexts(h)), " ")
    BY <2>1 DEF Word, Within, Comparing
  <2> QED BY <2>1, <2>3, <2>4, <2>5, <2>6, <2>7, <2>8
<1> DEFINE p == Sorted(KidTexts(f))
           q == Sorted(KidTexts(g))
<1>2. p = q
  <2> DEFINE e == " "
             close == ")"
  <2>1. /\ words \in SUBSET Seq(Pieces) /\ Apart(Pieces, words, {e, close}) /\ Opens(Pieces, words, {e, close}, close)
        /\ e \in Pieces /\ close \in Pieces /\ e # close
    BY PlainKeysApart, MarksArePieces DEF Marks
  <2>2. p \in Seq(words) /\ q \in Seq(words) /\ Reads(t, Joined(p, e), close, u) /\ Reads(t, Joined(q, e), close, v)
    BY <1>1
  <2> HIDE DEF words, e, close, p, q
  <2> QED BY <2>1, <2>2, JoinedTold
<1>3. Within(f) = Within(g)
  BY <1>1, <1>2
<1>4. Canonical[f] = Canonical[g]
  BY <1>3, KeyForm
<1>5. ASSUME NEW h \in FilterExpr, NEW k \in FilterExpr, h \in Branches(FilterExprTo[n]), k \in Branches(FilterExprTo[n]),
             Plain(h), Plain(k), Sorted(KidTexts(h)) = Sorted(KidTexts(k)), NEW i \in DOMAIN h.kids
      PROVE  \E j \in DOMAIN k.kids : Matched[h.kids[i]] = Matched[k.kids[j]]
  <2> DEFINE z == KidTexts(h)[i]
             c == KidTexts(h)
             d == KidTexts(k)
             o == Sorted(c)
  <2>1. /\ c \in Seq(Characters) /\ o \in Shuffled(c) /\ DOMAIN c = DOMAIN h.kids
        /\ d \in Seq(Characters) /\ o \in Shuffled(d) /\ DOMAIN d = DOMAIN k.kids
    BY <1>1, <1>5
  <2> HIDE DEF c, d, o
  <2>2. SameMembers(c, o)
    BY <2>1, SameRange
  <2>3. SameMembers(d, o)
    BY <2>1, SameRange
  <2>4. PICK j \in DOMAIN d : d[j] = c[i]
    BY <2>1, <2>2, <2>3 DEF SameMembers
  <2>5. j \in DOMAIN k.kids /\ Canonical[k.kids[j]] = Canonical[h.kids[i]]
    BY <2>1, <2>4 DEF c, d, KidTexts
  <2>6. Matched[h.kids[i]] = Matched[k.kids[j]]
    BY <1>1, <1>5, <2>5, PlainKeysApart
  <2> QED BY <2>5, <2>6
<1>6. {Matched[f.kids[i]] : i \in DOMAIN f.kids} = {Matched[g.kids[i]] : i \in DOMAIN g.kids}
  <2>1. \A i \in DOMAIN f.kids : \E j \in DOMAIN g.kids : Matched[f.kids[i]] = Matched[g.kids[j]]
    BY <1>2, <1>5
  <2>2. \A i \in DOMAIN g.kids : \E j \in DOMAIN f.kids : Matched[g.kids[i]] = Matched[f.kids[j]]
    BY <1>2, <1>5
  <2> QED BY <2>1, <2>2
<1>7. f.kind = g.kind
  BY <1>1
<1>8. Matched[f] = Matched[g]
  <2>1. CASE f.kind = "and"
    <3>1. Operator(f.kind) = "AND" /\ Operator(g.kind) = "AND"
      BY <1>7, <2>1 DEF Operator
    <3> QED BY <1>6, <3>1, MatchedDef
  <2>2. CASE f.kind = "or"
    <3>1. Operator(f.kind) = "OR" /\ Operator(g.kind) = "OR"
      BY <1>7, <2>2 DEF Operator
    <3> QED BY <1>6, <3>1, MatchedDef
  <2> QED BY <1>1, <2>1, <2>2
<1> QED BY <1>4, <1>8

LEMMA AllTold == \A n \in 0..MaxDepth : Told(n)
<1> DEFINE T == {n \in 0..MaxDepth : Told(n)}
<1>1. ASSUME NEW n \in 0..MaxDepth,
             \/ n = 0
             \/ Told(n - 1) /\ n - 1 \in 0..MaxDepth
      PROVE  Told(n)
  <2>1. ASSUME NEW f \in FilterExprTo[n], NEW g \in FilterExprTo[n],
               NEW x \in {" ", ")"}, NEW y \in {" ", ")"}, NEW r \in Seq(Pieces), NEW s \in Seq(Pieces)
        PROVE  Tells(f, g, x, y, r, s)
    <3> SUFFICES ASSUME Plain(f), Plain(g), BothRead(Canonical[f], x, r, Canonical[g], y, s)
                 PROVE  Canonical[f] = Canonical[g] /\ Matched[f] = Matched[g]
      BY DEF Tells
    <3>1. f \in FilterExpr /\ g \in FilterExpr /\ x \in Pieces /\ y \in Pieces
      BY <2>1, LayerIsFilter, MarksArePieces DEF Marks
    <3>2. PICK w : Reads(w, Canonical[f], x, r) /\ Reads(w, Canonical[g], y, s)
      BY DEF BothRead
    <3>3. /\ Word(f) = Word(g)
          /\ \E t, u, v : /\ u \in Seq(Pieces) /\ v \in Seq(Pieces)
                          /\ Reads(t, Within(f), ")", u) /\ Reads(t, Within(g), ")", v)
      BY <3>1, <3>2, WithinRead
    <3>4. PICK t, u, v : /\ u \in Seq(Pieces) /\ v \in Seq(Pieces)
                         /\ Reads(t, Within(f), ")", u) /\ Reads(t, Within(g), ")", v)
      BY <3>3
    <3>5. \A h \in Leaves : Word(h) \notin {"and", "or"}
      BY LeafFacts DEF Word, Comparing, Listing
    <3>6. \A h \in Branches(FilterExprTo[n - 1]) : Word(h) \in {"and", "or"}
      BY BranchFacts DEF Word, Comparing
    <3>7. CASE f \in Leaves /\ g \in Leaves
      BY <3>3, <3>4, <2>1, <3>7, LeavesTold
    <3>8. CASE n # 0 /\ f \in Branches(FilterExprTo[n - 1]) /\ g \in Branches(FilterExprTo[n - 1])
      BY <1>1, <2>1, <3>1, <3>3, <3>4, <3>8, BranchesTold
    <3> QED BY <3>3, <3>5, <3>6, <3>7, <3>8, <2>1, LayerFacts
  <2> QED BY <2>1 DEF Told
<1>2. 0 \in T
  BY <1>1, MaxDepthAssumption
<1>3. ASSUME NEW n \in Nat, n < MaxDepth, n \in T
      PROVE  n + 1 \in T
  <2>1. n + 1 \in 0..MaxDepth /\ (n + 1) - 1 = n
    BY <1>3, MaxDepthAssumption
  <2> QED BY <1>1, <1>3, <2>1
<1> HIDE DEF T
<1>4. 0..MaxDepth \subseteq T
  BY <1>2, <1>3, CountingUp, MaxDepthAssumption
<1> QED BY <1>4 DEF T

\* Filters with plain names and values that have one key match the same
\* documents, so that the count cached under it is the count of either
\* (canonical_filter tells apart what it must).
THEOREM KeysTellApart ==
  \A f, g \in FilterExpr :
    Plain(f) /\ Plain(g) /\ Canonical[f] = Canonical[g] => Matched[f] = Matched[g]
<1>1. MaxDepth \in 0..MaxDepth
  BY MaxDepthAssumption
<1>2. Told(MaxDepth)
  BY <1>1, AllTold
<1> QED BY <1>1, <1>2, PlainKeysApart DEF FilterExpr

-----------------------------------------------------------------------------
(* The answers of a session.                                               *)

\* What the text of one filter stands for in the cache, another must not: a
\* string with quotes in it, or a name with blanks, can spell what is not there.
Keyed ==
  {<<CountKey(q.table, Prepared(q)), Matching(q.table, Prepared(q))>> :
     q \in {Read(t) : t \in AllTexts} \ {Fail}}
KeysTellTextsApart == \A x, y \in Keyed : x[1] = y[1] => x[2] = y[2]

\* The count that is cached is that of a text's filter.
CountInv == cached # None => \E x \in Keyed : cached = [key |-> x[1], count |-> Cardinality(x[2])]

\* The text at hand means what the parser makes of it.
MeaningInv == Sayable(text) = Parses(text)

LEMMA MeaningKept ==
  ASSUME MeaningInv, text' = text
  PROVE  Sayable(text)' = Sayable(text) /\ MeaningInv'
BY DEF MeaningInv, Sayable, Parses

LEMMA WhereFacts ==
  ASSUME NEW t \in AllTexts, NEW q, q = Read(t), q # Fail
  PROVE  /\ Accepted(Prepared(q)) /\ ~(Prepared(q) # None /\ Refused(Prepared(q)))
              <=> ~(q.where # None /\ ~Legal(q.where))
         /\ ~(q.where # None /\ ~Legal(q.where)) => Matching(q.table, Prepared(q)) = Selected(q)
         /\ <<CountKey(q.table, Prepared(q)), Matching(q.table, Prepared(q))>> \in Keyed
<1>1. <<CountKey(q.table, Prepared(q)), Matching(q.table, Prepared(q))>> \in Keyed
  BY DEF Keyed
<1>2. CASE q.where = None
  <2>1. Prepared(q) = None
    BY <1>2 DEF Prepared
  <2> QED BY <1>1, <1>2, <2>1 DEF Accepted, Matching, Selected
<1>3. CASE q.where # None
  <2>1. q.where \in FilterExpr /\ Typeable(q.where)
    BY <1>3, ReadFacts
  <2>2. Prepared(q) = Rewrite[q.where] /\ Rewrite[q.where] # None
    BY <1>3, <2>1, RewriteType, NoneAssumption DEF Prepared
  <2>3. Valid(Rewrite[q.where]) /\ ~Refused(Rewrite[q.where]) <=> Legal(q.where)
    BY <2>1, AcceptedIffLegal
  <2>4. Legal(q.where) => Matched[Rewrite[q.where]] = Shown[q.where]
    BY <2>1, LegalMatchesRows
  <2>5. Accepted(Prepared(q)) <=> Valid(Rewrite[q.where])
    BY <2>2 DEF Accepted
  <2>6. Legal(q.where) => Matching(q.table, Prepared(q)) = Selected(q)
    BY <1>3, <2>2, <2>4 DEF Matching, Selected
  <2> QED BY <1>1, <1>3, <2>2, <2>3, <2>5, <2>6
<1> QED BY <1>2, <1>3

LEMMA Unwrapped ==
  ASSUME NEW x \in Nat, NEW m \in Nat, x <= m
  PROVE  x % (m + 1) = x
OBVIOUS

\* Where the bits of the window suffice, what is sent is what is asked for.
LEMMA WindowFacts ==
  ASSUME NEW t \in AllTexts, NEW q, q = Read(t), q # Fail,
         NEW p \in [page : Nat \cup {None}, size : Nat \cup {None}],
         Representable(q, p), ~PageOneAtText(q, p)
  PROVE  SentLimit(q, p) = Limit(q, p) /\ SentOffset(q, p) = AskedOffset(q, p)
         /\ Offset(q, p) = AskedOffset(q, p)
<1> DEFINE limit == Limit(q, p)
           asked == AskedOffset(q, p)
<1>1. q.limit \in Nat \cup {None} /\ q.offset \in Nat \cup {None}
  BY ReadFacts DEF ParsedQuery
<1>2. p.page \in Nat \cup {None} /\ p.size \in Nat \cup {None}
  OBVIOUS
<1>3. MaxU64 \in Nat /\ MaxU32 \in Nat /\ MaxU32 <= MaxU64 /\ DefaultLimit \in Nat
  BY WindowAssumption
<1>4. limit \in Nat
  BY <1>1, <1>2, <1>3 DEF Limit
<1>5. limit <= MaxU32 /\ asked <= MaxU32
  BY DEF Representable
<1>6. SentLimit(q, p) = limit
  <2> HIDE DEF limit
  <2>1. limit % (MaxU32 + 1) = limit
    BY <1>3, <1>4, <1>5, Unwrapped
  <2> QED BY <2>1 DEF SentLimit, limit
<1>7. asked \in Nat /\ Offset(q, p) = asked
  <2>1. CASE p.page # None /\ p.page > 1
    <3> DEFINE product == (p.page - 1) * limit
    <3>1. asked = product /\ Offset(q, p) = product % (MaxU64 + 1)
      BY <1>2, <2>1 DEF AskedOffset, Offset
    <3>2. product \in Nat
      <4>1. p.page - 1 \in Nat
        BY <1>2, <2>1
      <4> HIDE DEF limit
      <4> QED BY <1>4, <4>1
    <3> HIDE DEF product, asked
    <3>3. product % (MaxU64 + 1) = product
      BY <1>3, <1>5, <3>1, <3>2, Unwrapped
    <3> QED BY <3>1, <3>2, <3>3
  <2>2. CASE ~(p.page # None /\ p.page > 1)
    <3>1. p.page = None \/ p.page <= 1
      BY <1>2, <2>2
    <3>2. CASE p.page = None
      BY <1>1, <2>2, <3>2 DEF AskedOffset, Offset
    <3>3. CASE p.page # None
      <4>1. asked = 0 /\ q.offset \in {None, 0}
        BY <2>2, <3>1, <3>3 DEF AskedOffset, PageOneAtText
      <4> QED BY <2>2, <4>1 DEF Offset
    <3> QED BY <3>2, <3>3
  <2> QED BY <2>1, <2>2
<1>8. SentOffset(q, p) = asked
  <2> HIDE DEF asked
  <2> QED BY <1>3, <1>5, <1>7 DEF SentOffset, Smaller
<1> QED BY <1>6, <1>7, <1>8

\* The inductive invariant: it carries from one request to the next that the
\* cached count is right for every filter that would find it.
AnswerInv == TextsInv /\ CountInv /\ MeaningInv /\ AnswersItsText

LEMMA RejectRight ==
  ASSUME AnswerInv, text' = text, NEW q, q = Read(text), Reject(q)
  PROVE  CountInv' /\ AnswersItsText'
<1>1. CountInv'
  BY DEF AnswerInv, CountInv, Reject
<1>2. reply' = Error
  BY DEF Reject
<1>3. \A r \in Sayable(text) : r.where # None /\ ~Legal(r.where)
  <2>1. CASE q = Fail
    BY <2>1 DEF AnswerInv, MeaningInv, Parses
  <2>2. CASE q # Fail
    <3>1. ~Accepted(Prepared(q))
      BY <2>2 DEF Reject
    <3>2. q.where # None /\ ~Legal(q.where)
      BY <2>2, <3>1, WhereFacts DEF AnswerInv, TextsInv
    <3> QED BY <2>2, <3>2 DEF AnswerInv, MeaningInv, Parses
  <2> QED BY <2>1, <2>2
<1>4. Error.kind = "error"
  BY DEF Error
<1>5. Sayable(text)' = Sayable(text)
  BY MeaningKept DEF AnswerInv
<1> QED BY <1>1, <1>2, <1>3, <1>4, <1>5 DEF AnswersItsText

LEMMA RefusalRight ==
  ASSUME AnswerInv, text' = text, NEW q, q = Read(text), q # Fail,
         Prepared(q) # None /\ Refused(Prepared(q)), reply' = Error, cached' = cached
  PROVE  CountInv' /\ AnswersItsText'
<1>1. CountInv'
  BY DEF AnswerInv, CountInv
<1>2. q.where # None /\ ~Legal(q.where)
  BY WhereFacts DEF AnswerInv, TextsInv
<1>3. Sayable(text) = {q}
  BY DEF AnswerInv, MeaningInv, Parses
<1>4. Error.kind = "error"
  BY DEF Error
<1>5. Sayable(text)' = Sayable(text)
  BY MeaningKept DEF AnswerInv
<1> QED BY <1>1, <1>2, <1>3, <1>4, <1>5 DEF AnswersItsText

LEMMA PageRight ==
  ASSUME KeysTellTextsApart,
         AnswerInv, text' = text, NEW q, q = Read(text), q # Fail, Accepted(Prepared(q)),
         ~(Prepared(q) # None /\ Refused(Prepared(q))),
         NEW p \in Pagings, NEW hit \in BOOLEAN, NEW first \in BOOLEAN, NEW rows, NEW total,
         hit <=> cached # None /\ cached.key = CountKey(q.table, Prepared(q)),
         first <=> Offset(q, p) = 0,
         rows = Page(Cardinality(Ordered(Matching(q.table, Prepared(q)), q.order)), SentOffset(q, p), SentLimit(q, p)),
         total = CASE hit -> cached.count
                   [] ~hit /\ first -> Cardinality(Matching(q.table, Prepared(q)))
                   [] OTHER -> rows,
         reply' = [kind |-> "page", asked |-> p, rows |-> rows, total |-> total],
         cached' = IF hit \/ first THEN [key |-> CountKey(q.table, Prepared(q)), count |-> total] ELSE cached
  PROVE  CountInv' /\ AnswersItsText'
<1> DEFINE key == CountKey(q.table, Prepared(q))
           matching == Matching(q.table, Prepared(q))
<1>1. text \in AllTexts
  BY DEF AnswerInv, TextsInv
<1>2. <<key, matching>> \in Keyed
  BY <1>1, WhereFacts
<1>3. ~(q.where # None /\ ~Legal(q.where)) /\ matching = Selected(q)
  BY <1>1, WhereFacts
<1> HIDE DEF key, matching
<1>4. hit \/ first => total = Cardinality(matching)
  <2>1. CASE hit
    <3>1. PICK x \in Keyed : cached = [key |-> x[1], count |-> Cardinality(x[2])]
      BY <2>1 DEF AnswerInv, CountInv
    <3>2. x[1] = key
      BY <2>1, <3>1 DEF key
    <3>3. x[2] = matching
      <4>1. x[1] = <<key, matching>>[1]
        BY <3>2
      <4>2. x[2] = <<key, matching>>[2]
        BY <1>2, <4>1 DEF KeysTellTextsApart
      <4> QED BY <4>2
    <3>4. total = cached.count
      BY <2>1
    <3> QED BY <3>1, <3>3, <3>4
  <2>2. CASE ~hit /\ first
    BY <2>2 DEF matching
  <2> QED BY <2>1, <2>2
<1>5. CountInv'
  <2>1. CASE hit \/ first
    <3>1. cached' = [key |-> key, count |-> Cardinality(matching)]
      BY <1>4, <2>1 DEF key
    <3>2. cached' = [key |-> <<key, matching>>[1], count |-> Cardinality(<<key, matching>>[2])]
      BY <3>1
    <3> QED BY <1>2, <3>2 DEF CountInv
  <2>2. CASE ~(hit \/ first)
    BY <2>2 DEF AnswerInv, CountInv
  <2> QED BY <2>1, <2>2
<1>6. Sayable(text) = {q}
  BY DEF AnswerInv, MeaningInv, Parses
<1>7. /\ reply'.kind = "page" /\ reply'.asked = p /\ reply'.rows = rows /\ reply'.total = total
      /\ reply' # Error
  <2>1. reply'.kind = "page" /\ reply'.asked = p /\ reply'.rows = rows /\ reply'.total = total
    OBVIOUS
  <2> QED BY <2>1 DEF Error
<1>8. ASSUME Representable(q, p), ~PageOneAtText(q, p)
      PROVE  /\ AskedOffset(q, p) = 0 => total = Cardinality(Selected(q))
             /\ rows = RowsAsked(q, p)
  <2>1. /\ SentLimit(q, p) = Limit(q, p) /\ SentOffset(q, p) = AskedOffset(q, p)
        /\ Offset(q, p) = AskedOffset(q, p)
    BY <1>1, <1>8, WindowAssumption, WindowFacts
  <2>2. rows = Page(Cardinality(Ordered(matching, q.order)), SentOffset(q, p), SentLimit(q, p))
    BY DEF matching
  <2> QED BY <1>3, <1>4, <2>1, <2>2 DEF RowsAsked, Found
<1>9. AnswersItsText'
  <2>1. reply' # None =>
          LET qs == Sayable(text)
          IN /\ reply' = Error <=> \A r \in qs : r.where # None /\ ~Legal(r.where)
             /\ reply'.kind = "page" =>
                  \E r \in qs :
                    Representable(r, reply'.asked) /\ ~PageOneAtText(r, reply'.asked) =>
                      /\ AskedOffset(r, reply'.asked) = 0 => reply'.total = Cardinality(Selected(r))
                      /\ OrdersByFields(r) => reply'.rows = RowsAsked(r, reply'.asked)
    BY <1>3, <1>6, <1>7, <1>8
  <2>2. reply'.kind # "plan"
    BY <1>7
  <2>3. Sayable(text)' = Sayable(text)
    BY MeaningKept DEF AnswerInv
  <2> QED BY <2>1, <2>2, <2>3 DEF AnswersItsText
<1> QED BY <1>5, <1>9

LEMMA AnswerRight ==
  ASSUME KeysTellTextsApart, AnswerInv, text' = text, NEW q, q = Read(text), Answer(q)
  PROVE  CountInv' /\ AnswersItsText'
<1> DEFINE where == Prepared(q)
           key == CountKey(q.table, where)
           hit == cached # None /\ cached.key = key
           matching == Matching(q.table, where)
           found == Cardinality(Ordered(matching, q.order))
<1>1. q # Fail /\ Accepted(where)
  BY DEF Answer
<1>2. CASE where # None /\ Refused(where)
  <2>1. reply' = Error /\ cached' = cached
    BY <1>2 DEF Answer
  <2> QED BY <1>1, <1>2, <2>1, RefusalRight
<1>3. CASE ~(where # None /\ Refused(where))
  <2>1. PICK p \in Pagings :
          LET first == Offset(q, p) = 0
              rows == Page(found, SentOffset(q, p), SentLimit(q, p))
              total == CASE hit -> cached.count
                         [] ~hit /\ first -> Cardinality(matching)
                         [] OTHER -> rows
          IN /\ reply' = [kind |-> "page", asked |-> p, rows |-> rows, total |-> total]
             /\ cached' = IF hit \/ first THEN [key |-> key, count |-> total] ELSE cached
    BY <1>3 DEF Answer
  <2> DEFINE first == Offset(q, p) = 0
             rows == Page(found, SentOffset(q, p), SentLimit(q, p))
             total == CASE hit -> cached.count
                        [] ~hit /\ first -> Cardinality(matching)
                        [] OTHER -> rows
  <2>2. /\ reply' = [kind |-> "page", asked |-> p, rows |-> rows, total |-> total]
        /\ cached' = IF hit \/ first THEN [key |-> key, count |-> total] ELSE cached
    BY <2>1
  <2>3. hit \in BOOLEAN /\ first \in BOOLEAN
    OBVIOUS
  <2> HIDE DEF total
  <2>4. total = CASE hit -> cached.count [] ~hit /\ first -> Cardinality(matching) [] OTHER -> rows
    BY DEF total
  <2> HIDE DEF rows, first, hit
  <2>5. (hit <=> cached # None /\ cached.key = key) /\ (first <=> Offset(q, p) = 0)
    BY DEF hit, first
  <2>6. rows = Page(found, SentOffset(q, p), SentLimit(q, p))
    BY DEF rows
  <2> QED BY <1>1, <1>3, <2>2, <2>3, <2>4, <2>5, <2>6, PageRight
<1> QED BY <1>2, <1>3

LEMMA ExplainRight ==
  ASSUME AnswerInv, text' = text, NEW q, q = Read(text), Explain(q)
  PROVE  CountInv' /\ AnswersItsText'
<1> DEFINE where == Prepared(q)
           found == Cardinality(Ordered(Matching(q.table, where), q.order))
           rows == IF q.limit = None THEN found ELSE Page(found, 0, q.limit % (MaxU32 + 1))
<1>1. q # Fail /\ Accepted(where) /\ cached' = cached
  BY DEF Explain
<1>2. CASE where # None /\ Refused(where)
  <2>1. reply' = Error
    BY <1>2 DEF Explain
  <2> QED BY <1>1, <1>2, <2>1, RefusalRight
<1>3. CASE ~(where # None /\ Refused(where))
  <2>1. PICK shown \in {None, rows} : reply' = [kind |-> "plan", rows |-> shown]
    BY <1>3 DEF Explain
  <2>2. text \in AllTexts
    BY DEF AnswerInv, TextsInv
  <2>3. ~(q.where # None /\ ~Legal(q.where)) /\ Matching(q.table, where) = Selected(q)
    BY <1>1, <1>3, <2>2, WhereFacts
  <2>4. Sayable(text) = {q}
    BY <1>1 DEF AnswerInv, MeaningInv, Parses
  <2>5. ASSUME Representable(q, Unasked), ~ExplainedApart(q)
        PROVE  rows = RowsAsked(q, Unasked)
    <3>1. q.limit \in Nat \cup {None} /\ q.offset \in {None, 0}
      BY <1>1, <2>2, <2>5, ReadFacts DEF ParsedQuery, ExplainedApart
    <3>2. Unasked.page = None /\ Unasked.size = None
      BY DEF Unasked
    <3>3. AskedOffset(q, Unasked) = 0
      BY <3>1, <3>2 DEF AskedOffset
    <3>4. found = Found(q) /\ found \in Nat
      <4>1. Ordered(Matching(q.table, where), q.order) \subseteq Docs
        BY <2>3 DEF Ordered, Selected, In
      <4> QED BY <2>3, <4>1, DocsAssumption, FS_Subset, FS_CardinalityType DEF Found
    <3> HIDE DEF found
    <3>5. CASE q.limit = None
      <4>1. rows = found /\ found <= DefaultLimit /\ Limit(q, Unasked) = DefaultLimit
        BY <2>5, <3>2, <3>4, <3>5, WindowAssumption DEF ExplainedApart, Limit
      <4>2. Page(found, 0, DefaultLimit) = found
        BY <3>4, <4>1, WindowAssumption DEF Page, Smaller
      <4> QED BY <3>3, <3>4, <4>1, <4>2 DEF RowsAsked
    <3>6. CASE q.limit # None
      <4>1. Limit(q, Unasked) = q.limit /\ q.limit <= MaxU32
        BY <2>5, <3>2, <3>6 DEF Limit, Representable
      <4>2. q.limit % (MaxU32 + 1) = q.limit
        BY <3>1, <3>6, <4>1, WindowAssumption, Unwrapped
      <4> QED BY <3>3, <3>4, <3>6, <4>1, <4>2 DEF RowsAsked
    <3> QED BY <3>5, <3>6
  <2> HIDE DEF rows
  <2>6. reply'.kind = "plan" /\ reply'.rows \in {None, rows} /\ reply' # Error
    <3>1. reply'.kind = "plan" /\ reply'.rows \in {None, rows}
      BY <2>1
    <3> QED BY <3>1 DEF Error
  <2>7. CountInv'
    BY <1>1 DEF AnswerInv, CountInv
  <2>8. AnswersItsText'
    <3>1. reply' = Error <=> \A r \in Sayable(text) : r.where # None /\ ~Legal(r.where)
      BY <2>3, <2>4, <2>6
    <3>2. reply'.kind = "plan" /\ reply'.rows # None =>
            \E r \in Sayable(text) :
              Representable(r, Unasked) /\ ~ExplainedApart(r) /\ OrdersByFields(r)
                => reply'.rows = RowsAsked(r, Unasked)
      BY <2>4, <2>5, <2>6
    <3>3. reply'.kind # "page"
      BY <2>6
    <3>4. Sayable(text)' = Sayable(text)
      BY MeaningKept DEF AnswerInv
    <3> QED BY <3>1, <3>2, <3>3, <3>4 DEF AnswersItsText
  <2> QED BY <2>7, <2>8
<1> QED BY <1>2, <1>3

AllPlain ==
  \A t \in AllTexts : Read(t) # Fail /\ Read(t).where # None => Plain(Rewrite[Read(t).where])

\* Texts whose filters, as they are rewritten, have plain names and values share
\* a key only if they ask for the same documents (the key of execute_query).
THEOREM PlainTextsKeyApart == AllPlain => KeysTellTextsApart
<1> SUFFICES ASSUME AllPlain,
                    NEW t \in AllTexts, NEW u \in AllTexts, Read(t) # Fail, Read(u) # Fail,
                    CountKey(Read(t).table, Prepared(Read(t))) = CountKey(Read(u).table, Prepared(Read(u)))
             PROVE  Matching(Read(t).table, Prepared(Read(t))) = Matching(Read(u).table, Prepared(Read(u)))
  BY DEF KeysTellTextsApart, Keyed
<1> DEFINE p == Prepared(Read(t))
           q == Prepared(Read(u))
           Key(w) == IF w = None THEN << >> ELSE Canonical[w]
<1>1. Read(t).table = Read(u).table /\ Key(p) = Key(q)
  BY DEF CountKey
<1>2. p = None \/ (p \in FilterExpr /\ Plain(p) /\ p # None)
  BY ReadFacts, RewriteType, NoneAssumption DEF AllPlain, Prepared
<1>3. q = None \/ (q \in FilterExpr /\ Plain(q) /\ q # None)
  BY ReadFacts, RewriteType, NoneAssumption DEF AllPlain, Prepared
<1>4. \A f \in FilterExpr : Canonical[f] # << >>
  <2> SUFFICES ASSUME NEW f \in FilterExpr PROVE Canonical[f] # << >>
    OBVIOUS
  <2> DEFINE rest == <<Word(f)>> \o (<<" ">> \o (Within(f) \o <<")">>))
  <2>1. Word(f) \in Pieces /\ Within(f) \in Seq(Pieces) /\ {"(", ")", " "} \subseteq Pieces
    BY KeyForm, MarksArePieces DEF Marks
  <2>2. Within(f) \o <<")">> \in Seq(Pieces)
    BY <2>1, OnePiece, ConcatProperties
  <2>3. <<" ">> \o (Within(f) \o <<")">>) \in Seq(Pieces)
    BY <2>1, <2>2, OnePiece, ConcatProperties
  <2>4. rest \in Seq(Pieces)
    BY <2>1, <2>3, OnePiece, ConcatProperties
  <2>5. Canonical[f] = <<"(">> \o rest
    BY KeyForm DEF Clausal
  <2> HIDE DEF rest
  <2> QED BY <2>4, <2>5
<1> HIDE DEF p, q
<1>5. p = None <=> q = None
  BY <1>1, <1>2, <1>3, <1>4
<1>6. p # None => Matched[p] = Matched[q]
  BY <1>1, <1>2, <1>3, <1>5, KeysTellApart
<1>7. Matching(Read(t).table, p) = Matching(Read(u).table, q)
  BY <1>1, <1>5, <1>6 DEF Matching
<1> QED BY <1>7 DEF p, q

\* While the parser takes each text for what it means and no two texts that ask
\* for different documents share a key, every answer is that of its text:
\* whatever was asked, counted and cached before (execute_query, explain_query,
\* prepare_filter).
THEOREM AnswersFollowReadings ==
  ASSUME KeysTellTextsApart
  PROVE  Spec /\ []ReadsItsGrammar => []AnswersItsText
<1>1. Init /\ ReadsItsGrammar => AnswerInv
  <2> SUFFICES ASSUME Init, ReadsItsGrammar PROVE AnswerInv
    OBVIOUS
  <2>1. reply = None /\ cached = None /\ text \in Texts
    BY DEF Init
  <2> QED BY <2>1 DEF AnswerInv, TextsInv, AllTexts, CountInv, MeaningInv, AnswersItsText, ReadsItsGrammar
<1>2. AnswerInv /\ ReadsItsGrammar' /\ TextsInv' /\ [Next]_vars => AnswerInv'
  <2> SUFFICES ASSUME AnswerInv, ReadsItsGrammar', TextsInv', [Next]_vars PROVE AnswerInv'
    OBVIOUS
  <2>1. ASSUME text' = text
        PROVE  MeaningInv'
    BY <2>1, MeaningKept DEF AnswerInv
  <2>2. ASSUME NEW t, Type(t)
        PROVE  AnswerInv'
    <3>1. reply' = None /\ cached' = cached
      BY <2>2 DEF Type
    <3>2. MeaningInv'
      BY <3>1 DEF ReadsItsGrammar, MeaningInv
    <3>3. CountInv' /\ AnswersItsText'
      BY <3>1 DEF AnswerInv, CountInv, AnswersItsText
    <3> QED BY <3>2, <3>3 DEF AnswerInv
  <2>3. CASE ExecuteQuery
    <3>1. text' = text /\ (Reject(Read(text)) \/ Answer(Read(text)))
      BY <2>3 DEF ExecuteQuery
    <3>2. CountInv' /\ AnswersItsText'
      BY <3>1, RejectRight, AnswerRight
    <3> QED BY <2>1, <3>1, <3>2 DEF AnswerInv
  <2>4. CASE ExplainQuery
    <3>1. text' = text /\ (Reject(Read(text)) \/ Explain(Read(text)))
      BY <2>4 DEF ExplainQuery
    <3>2. CountInv' /\ AnswersItsText'
      BY <3>1, RejectRight, ExplainRight
    <3> QED BY <2>1, <3>1, <3>2 DEF AnswerInv
  <2>5. CASE Slip
    BY <2>2, <2>5 DEF Slip
  <2>6. CASE Retype
    BY <2>2, <2>6 DEF Retype
  <2>7. CASE UNCHANGED vars
    <3>1. text' = text /\ cached' = cached /\ reply' = reply
      BY <2>7 DEF vars
    <3>2. Sayable(text)' = Sayable(text)
      BY <3>1, MeaningKept DEF AnswerInv
    <3>3. CountInv' /\ AnswersItsText'
      BY <3>1, <3>2 DEF AnswerInv, CountInv, AnswersItsText
    <3> QED BY <2>1, <3>1, <3>3 DEF AnswerInv
  <2> QED BY <2>3, <2>4, <2>5, <2>6, <2>7 DEF Next
<1>3. AnswerInv => AnswersItsText
  BY DEF AnswerInv
<1> QED BY <1>1, <1>2, <1>3, TextsInvariant, PTL DEF Spec
=============================================================================
