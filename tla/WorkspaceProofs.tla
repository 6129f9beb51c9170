--------------------------- MODULE WorkspaceProofs --------------------------
(***************************************************************************)
(* Theorems about LayoutTree, WorkspaceReducer and Workspace, for trees    *)
(* and states of any size, and for any number of terminals, workspaces,    *)
(* calls and events: what pruning and splitting a tree, removing           *)
(* terminals, focusing, saving and restoring do; and that every terminal   *)
(* the page knows is in one pane, that the focus is where the user looks,  *)
(* that no shell is forgotten, and that a reload shows what a page at rest *)
(* shows.                                                                  *)
(***************************************************************************)
EXTENDS Workspace, FiniteSetTheorems, FunctionTheorems, SequenceTheorems, TLAPS

-----------------------------------------------------------------------------
(* Trees.                                                                   *)

\* A set of natural numbers has a least element.
LEMMA NatMin ==
    ASSUME NEW T, T \subseteq Nat, T # {}
    PROVE  \E x \in T : \A y \in T : x <= y
<1>. DEFINE TT == {0..n : n \in T}
<1>1. TT \subseteq FiniteSubsetsOf(Nat) /\ TT # {}
  <2>1. \A n \in T : 0..n \subseteq Nat /\ IsFiniteSet(0..n)
    BY FS_Interval
  <2>2. \A X \in TT : X \in FiniteSubsetsOf(Nat)
    BY <2>1 DEF FiniteSubsetsOf
  <2>. QED BY <2>2
<1>2. PICK X \in TT : \A Y \in TT : ~(<<Y, X>> \in StrictSubsetOrdering(Nat))
  <2>. HIDE DEF TT
  <2>. QED BY <1>1, FS_StrictSubsetOrderingWellFounded, WFMin
<1>3. PICK x \in T : X = 0..x
  OBVIOUS
<1>4. ASSUME NEW y \in T, y < x PROVE FALSE
  <2>1. /\ 0..y \in TT /\ 0..y \subseteq 0..x /\ 0..y # 0..x
        /\ 0..y \in SUBSET Nat /\ 0..x \in SUBSET Nat
    BY <1>4
  <2>2. <<0..y, 0..x>> \in StrictSubsetOrdering(Nat)
    BY <2>1 DEF StrictSubsetOrdering
  <2>. QED BY <1>2, <1>3, <2>1, <2>2
<1>. QED BY <1>4

\* What Min chooses.
LEMMA MinIsLeast ==
    ASSUME NEW T, T \subseteq Nat, T # {}
    PROVE  Min(T) \in T /\ \A y \in T : Min(T) <= y
BY NatMin DEF Min

-----------------------------------------------------------------------------
\* The place of an index among those of I.
Rank(I, i) == Cardinality({j \in I : j <= i})

\* The indices of I have the ranks from 1 to their number, in their order.
LEMMA Ranks ==
    ASSUME NEW n \in Nat, NEW I, I \subseteq 1..n
    PROVE  /\ IsFiniteSet(I) /\ Cardinality(I) \in Nat
           /\ \A i \in I : Rank(I, i) \in 1..Cardinality(I)
           /\ \A i, j \in I : i < j => Rank(I, i) < Rank(I, j)
           /\ \A k \in 1..Cardinality(I) : \E i \in I : Rank(I, i) = k
<1>1. IsFiniteSet(I) /\ Cardinality(I) \in Nat
  BY FS_Interval, FS_Subset, FS_CardinalityType, 1 \in Int, n \in Int
<1>. DEFINE Upto(i) == {j \in I : j <= i}
<1>2. \A i \in I : IsFiniteSet(Upto(i)) /\ Cardinality(Upto(i)) \in Nat /\ Cardinality(Upto(i)) <= Cardinality(I)
  <2>. TAKE i \in I
  <2>1. Upto(i) \subseteq I
    OBVIOUS
  <2>. QED BY <1>1, <2>1, FS_Subset, FS_CardinalityType
<1>3. \A i \in I : Cardinality(Upto(i)) \in 1..Cardinality(I)
  <2>. TAKE i \in I
  <2>1. i \in Upto(i)
    OBVIOUS
  <2>2. Cardinality(Upto(i)) # 0
    BY <1>2, <2>1, FS_EmptySet
  <2>. QED BY <1>1, <1>2, <2>2
<1>4. ASSUME NEW i \in I, NEW j \in I, i < j
      PROVE  Cardinality(Upto(i)) < Cardinality(Upto(j))
  <2>1. i \in Nat /\ j \in Nat /\ I \subseteq Nat
    OBVIOUS
  <2>2. Upto(i) \subseteq Upto(j)
    <3>. SUFFICES ASSUME NEW x \in I, x <= i PROVE x <= j
      OBVIOUS
    <3>. QED BY <1>4, <2>1
  <2>4. j \in Upto(j) /\ j \notin Upto(i)
    BY <1>4, <2>1
  <2>3. Upto(i) # Upto(j)
    BY <2>4
  <2>. QED BY <1>2, <2>2, <2>3, FS_Subset
<1>5. ASSUME NEW k \in 1..Cardinality(I) PROVE \E i \in I : Cardinality(Upto(i)) = k
  <2>. DEFINE f == [i \in I |-> Cardinality(Upto(i))]
              K == 1..Cardinality(I)
  <2>1. f \in [I -> K]
    BY <1>3
  <2>2. \A i, j \in I : f[i] = f[j] => i = j
    <3>. SUFFICES ASSUME NEW i \in I, NEW j \in I, f[i] = f[j], i # j PROVE FALSE
      OBVIOUS
    <3>1. f[i] = Cardinality(Upto(i)) /\ f[j] = Cardinality(Upto(j))
      OBVIOUS
    <3>2. f[i] \in Nat /\ f[j] \in Nat
      BY <1>2, <3>1
    <3>3. i < j \/ j < i
      OBVIOUS
    <3>. QED BY <1>4, <3>1, <3>2, <3>3
  <2>. HIDE DEF f
  <2>3. f \in Injection(I, K)
    BY <2>1, <2>2, Fun_IsInj
  <2>4. IsFiniteSet(K) /\ Cardinality(K) = Cardinality(I)
    BY <1>1, FS_Interval, 1 \in Int
  <2>. HIDE DEF K
  <2>5. f \in Surjection(I, K)
    BY <2>3, <2>4, FS_Injection
  <2>6. \A y \in K : \E i \in I : f[i] = y
    BY <2>5, Fun_SurjectionProperties
  <2>7. k \in K
    BY DEF K
  <2>8. PICK i \in I : f[i] = k
    BY <2>6, <2>7
  <2>. QED BY <2>8 DEF f
<1>. QED BY <1>1, <1>3, <1>4, <1>5 DEF Rank

\* A subsequence has the elements at its indices, each at the index's rank.
LEMMA SubsequenceElements ==
    ASSUME NEW S, NEW q \in Seq(S), NEW I, I \subseteq DOMAIN q
    PROVE  /\ Subsequence(q, I) \in Seq(S)
           /\ DOMAIN Subsequence(q, I) = 1..Cardinality(I)
           /\ Len(Subsequence(q, I)) = Cardinality(I)
           /\ \A i \in I : /\ Rank(I, i) \in DOMAIN Subsequence(q, I)
                           /\ Subsequence(q, I)[Rank(I, i)] = q[i]
           /\ \A k \in DOMAIN Subsequence(q, I) : \E i \in I : Rank(I, i) = k
<1>. DEFINE n == Cardinality(I)
            At(k) == CHOOSE i \in I : Rank(I, i) = k
<1>0. Len(q) \in Nat /\ DOMAIN q = 1..Len(q)
  OBVIOUS
<1>1. /\ n \in Nat
      /\ \A i \in I : Rank(I, i) \in 1..n
      /\ \A i, j \in I : i < j => Rank(I, i) < Rank(I, j)
      /\ \A k \in 1..n : \E i \in I : Rank(I, i) = k
  BY <1>0, Ranks
<1>2. Subsequence(q, I) = [k \in 1..n |-> q[At(k)]]
  BY DEF Subsequence, Rank
<1>. HIDE DEF n
<1>3. \A k \in 1..n : At(k) \in I /\ Rank(I, At(k)) = k
  BY <1>1
<1>4. \A i \in I : At(Rank(I, i)) = i
  <2>. TAKE i \in I
  <2>1. At(Rank(I, i)) \in I /\ Rank(I, At(Rank(I, i))) = Rank(I, i)
    BY <1>1, <1>3
  <2>2. i \in Nat /\ At(Rank(I, i)) \in Nat
    BY <1>0, <2>1
  <2>. HIDE DEF At
  <2>. QED BY <1>1, <2>1, <2>2
<1>. HIDE DEF At
<1>5. Subsequence(q, I) \in [1..n -> S]
  BY <1>0, <1>2, <1>3
<1>6. Subsequence(q, I) \in Seq(S) /\ Len(Subsequence(q, I)) = n
  BY <1>1, <1>5
<1>. QED BY <1>1, <1>2, <1>4, <1>5, <1>6 DEF n

\* What is left of a sequence without some elements.
LEMMA WithoutElements ==
    ASSUME NEW S, NEW q \in Seq(S), NEW I, I \subseteq DOMAIN q
    PROVE  /\ ToSet(Subsequence(q, I)) = {q[i] : i \in I}
           /\ (\A i, j \in I : q[i] = q[j] => i = j) =>
                 \A k, l \in DOMAIN Subsequence(q, I) :
                    Subsequence(q, I)[k] = Subsequence(q, I)[l] => k = l
<1>. DEFINE u == Subsequence(q, I)
<1>1. /\ \A i \in I : Rank(I, i) \in DOMAIN u /\ u[Rank(I, i)] = q[i]
      /\ \A k \in DOMAIN u : \E i \in I : Rank(I, i) = k
  BY SubsequenceElements
<1>. HIDE DEF u
<1>2. ToSet(u) = {q[i] : i \in I}
  BY <1>1 DEF ToSet
<1>3. (\A i, j \in I : q[i] = q[j] => i = j) => \A k, l \in DOMAIN u : u[k] = u[l] => k = l
  BY <1>1
<1>. QED BY <1>2, <1>3 DEF u

\* Where a node may be.
Positions == Seq({0, 1})

\* A prefix agrees at each of its steps.
LEMMA PrefixSteps ==
    ASSUME NEW p \in Positions, NEW q \in Positions
    PROVE  IsPrefix(p, q) <=> Len(p) <= Len(q) /\ \A i \in 1..Len(p) : p[i] = q[i]
<1>1. SubSeq(p, 1, Len(p)) = p
  BY DEF Positions
<1>2. ASSUME Len(p) <= Len(q)
      PROVE  SubSeq(q, 1, Len(p)) = [i \in 1..Len(p) |-> q[i]]
  BY <1>2 DEF Positions
<1>3. p = [i \in 1..Len(p) |-> p[i]]
  BY DEF Positions
<1>. QED BY <1>1, <1>2, <1>3 DEF IsPrefix

\* Being a prefix is an order.
LEMMA PrefixOrder ==
    ASSUME NEW p \in Positions, NEW q \in Positions, NEW r \in Positions
    PROVE  /\ IsPrefix(p, p)
           /\ IsPrefix(p, q) /\ IsPrefix(q, r) => IsPrefix(p, r)
           /\ IsPrefix(p, q) /\ IsPrefix(q, p) => p = q
<1>1. IsPrefix(p, p)
  BY PrefixSteps DEF Positions
<1>2. ASSUME IsPrefix(p, q), IsPrefix(q, r) PROVE IsPrefix(p, r)
  <2>1. Len(p) \in Nat /\ Len(q) \in Nat /\ Len(r) \in Nat
    BY DEF Positions
  <2>. QED BY <1>2, <2>1, PrefixSteps
<1>3. ASSUME IsPrefix(p, q), IsPrefix(q, p) PROVE p = q
  <2>1. Len(p) \in Nat /\ Len(q) \in Nat
    BY DEF Positions
  <2>2. Len(p) = Len(q) /\ \A i \in 1..Len(p) : p[i] = q[i]
    BY <1>3, <2>1, PrefixSteps
  <2>. QED BY <2>2 DEF Positions
<1>. QED BY <1>1, <1>2, <1>3

\* A position with one more step.
LEMMA OneStepMore ==
    ASSUME NEW q \in Positions, NEW side \in {0, 1}
    PROVE  /\ Append(q, side) \in Positions
           /\ Len(Append(q, side)) = Len(q) + 1
           /\ Append(q, side)[Len(q) + 1] = side
           /\ \A i \in 1..Len(q) : Append(q, side)[i] = q[i]
           /\ IsPrefix(q, Append(q, side))
<1>1. /\ Append(q, side) \in Positions
      /\ Len(Append(q, side)) = Len(q) + 1
      /\ Append(q, side)[Len(q) + 1] = side
      /\ \A i \in 1..Len(q) : Append(q, side)[i] = q[i]
  BY DEF Positions
<1>2. Len(q) <= Len(q) + 1
  BY DEF Positions
<1>. QED BY <1>1, <1>2, PrefixSteps

\* The position beside a step to p.
LEMMA BesideSteps ==
    ASSUME NEW p \in Positions, NEW i \in DOMAIN p
    PROVE  /\ Beside(p, i) \in Positions
           /\ Len(Beside(p, i)) = i
           /\ Beside(p, i)[i] = 1 - p[i]
           /\ \A j \in 1..i-1 : Beside(p, i)[j] = p[j]
<1>1. i \in 1..Len(p) /\ Len(p) \in Nat /\ p[i] \in {0, 1}
  BY DEF Positions
<1>. DEFINE s == SubSeq(p, 1, i - 1)
<1>2. s \in Positions /\ Len(s) = i - 1 /\ \A j \in 1..i-1 : s[j] = p[j]
  BY <1>1 DEF Positions
<1>3. 1 - p[i] \in {0, 1}
  BY <1>1
<1>. HIDE DEF s
<1>4. Beside(p, i) = Append(s, 1 - p[i])
  BY DEF Beside, s
<1>. QED BY <1>1, <1>2, <1>3, <1>4, OneStepMore

\* Two positions, one not below the other, part at a first step, or the other
\* is below the one.
LEMMA FirstDifference ==
    ASSUME NEW p \in Positions, NEW q \in Positions, ~IsPrefix(p, q)
    PROVE  \/ \E k \in DOMAIN p \intersect DOMAIN q :
                 p[k] # q[k] /\ \A i \in 1..k-1 : p[i] = q[i]
           \/ IsPrefix(q, p) /\ Len(q) < Len(p)
<1>. DEFINE D == {k \in DOMAIN p \intersect DOMAIN q : p[k] # q[k]}
<1>0. /\ DOMAIN p = 1..Len(p) /\ DOMAIN q = 1..Len(q)
      /\ Len(p) \in Nat /\ Len(q) \in Nat
  BY DEF Positions
<1>1. CASE D # {}
  <2>0. D \subseteq Nat
    BY <1>0
  <2>1. PICK k \in D : \A i \in D : k <= i
    <3>. HIDE DEF D
    <3>. QED BY <1>1, <2>0, NatMin
  <2>2. \A i \in 1..k-1 : i \in DOMAIN p \intersect DOMAIN q /\ i \notin D
    BY <1>0, <2>1
  <2>. QED BY <2>1, <2>2
<1>2. CASE D = {}
  <2>1. ~(Len(p) <= Len(q))
    BY <1>0, <1>2, PrefixSteps
  <2>. QED BY <1>0, <1>2, <2>1, PrefixSteps
<1>. QED BY <1>1, <1>2

-----------------------------------------------------------------------------
\* Above a node are splits, down to it.
LEMMA TreeShape ==
    ASSUME NEW t, IsTree(t)
    PROVE  /\ \A p \in DOMAIN t : \A i \in DOMAIN p :
                  SubSeq(p, 1, i - 1) \in DOMAIN t /\ t[SubSeq(p, 1, i - 1)].type = "split"
           /\ \A p \in DOMAIN t : t[p].type = "split" =>
                  Append(p, 0) \in DOMAIN t /\ Append(p, 1) \in DOMAIN t
BY DEF IsTree, Dividers, Leaves

\* What is known of a tree's nodes.
LEMMA TreeNodes ==
    ASSUME NEW t, IsTree(t)
    PROVE  /\ IsFiniteSet(DOMAIN t)
           /\ \A p \in DOMAIN t : p \in Positions /\ t[p] \in Nodes
           /\ \A p, q \in DOMAIN t : p # q /\ IsPrefix(p, q) => t[p].type = "split"
           /\ \A p \in Panes(t) : t[p] = Pane(t[p].id) /\ t[p].id \in Nat \ {0} /\ p \in Leaves(t)
<1>1. IsFiniteSet(DOMAIN t) /\ \A p \in DOMAIN t : p \in Positions /\ t[p] \in Nodes
  BY DEF IsTree, Positions
<1>2. ASSUME NEW p \in DOMAIN t, NEW q \in DOMAIN t, p # q, IsPrefix(p, q)
      PROVE  t[p].type = "split"
  <2>1. /\ p \in Positions /\ q \in Positions /\ Len(p) <= Len(q)
        /\ \A i \in 1..Len(p) : p[i] = q[i]
    BY <1>1, <1>2, PrefixSteps
  <2>2. Len(p) # Len(q)
    BY <1>2, <2>1 DEF Positions
  <2>. DEFINE i == Len(p) + 1
  <2>3. i \in DOMAIN q /\ i - 1 = Len(p)
    BY <2>1, <2>2 DEF Positions
  <2>4. SubSeq(q, 1, i - 1) = p
    BY <2>1, <2>3 DEF Positions
  <2>. HIDE DEF i
  <2>5. t[SubSeq(q, 1, i - 1)].type = "split"
    BY <2>3, TreeShape
  <2>. QED BY <2>4, <2>5
<1>3. \A p \in Panes(t) : t[p] = Pane(t[p].id) /\ t[p].id \in Nat \ {0} /\ p \in Leaves(t)
  <2>. TAKE p \in Panes(t)
  <2>1. p \in DOMAIN t /\ t[p].type = "pane" /\ t[p] \in Nodes
    BY <1>1 DEF Panes
  <2>2. t[p] \in [type : {"pane", "editor"}, id : Nat \ {0}]
    BY <2>1 DEF Nodes
  <2>. QED BY <2>1, <2>2 DEF Pane, Leaves
<1>. QED BY <1>1, <1>2, <1>3

\* Of two panes of a tree, one is left of the other.
LEMMA PanesAreOrdered ==
    ASSUME NEW t, IsTree(t), NEW p \in Panes(t), NEW q \in Panes(t), p # q
    PROVE  LeftOf(p, q) \/ LeftOf(q, p)
<1>1. p \in Positions /\ q \in Positions /\ p \in DOMAIN t /\ q \in DOMAIN t
  BY TreeNodes DEF Panes
<1>2. ~IsPrefix(p, q) /\ ~IsPrefix(q, p)
  BY <1>1, TreeNodes DEF Panes
<1>3. PICK k \in DOMAIN p \intersect DOMAIN q : p[k] # q[k] /\ \A i \in 1..k-1 : p[i] = q[i]
  BY <1>1, <1>2, FirstDifference
<1>4. p[k] \in {0, 1} /\ q[k] \in {0, 1}
  BY <1>1, <1>3 DEF Positions
<1>5. p[k] < q[k] \/ q[k] < p[k]
  BY <1>3, <1>4
<1>. QED BY <1>3, <1>5 DEF LeftOf

\* Left of is a strict order.
LEMMA LeftOfOrder ==
    ASSUME NEW p \in Positions, NEW q \in Positions, NEW r \in Positions
    PROVE  ~LeftOf(p, p) /\ (LeftOf(p, q) /\ LeftOf(q, r) => LeftOf(p, r))
<1>0. /\ DOMAIN p = 1..Len(p) /\ DOMAIN q = 1..Len(q) /\ DOMAIN r = 1..Len(r)
      /\ Len(p) \in Nat /\ Len(q) \in Nat /\ Len(r) \in Nat
      /\ \A i \in DOMAIN p : p[i] \in Int
      /\ \A i \in DOMAIN q : q[i] \in Int
      /\ \A i \in DOMAIN r : r[i] \in Int
  BY DEF Positions
<1>1. ~LeftOf(p, p)
  BY <1>0 DEF LeftOf
<1>2. ASSUME LeftOf(p, q), LeftOf(q, r) PROVE LeftOf(p, r)
  <2>1. PICK k \in DOMAIN p \intersect DOMAIN q : p[k] < q[k] /\ \A i \in 1..k-1 : p[i] = q[i]
    BY <1>2 DEF LeftOf
  <2>2. PICK l \in DOMAIN q \intersect DOMAIN r : q[l] < r[l] /\ \A i \in 1..l-1 : q[i] = r[i]
    BY <1>2 DEF LeftOf
  <2>3. CASE k < l
    <3>1. k \in DOMAIN p \intersect DOMAIN r /\ p[k] < r[k]
      BY <1>0, <2>1, <2>2, <2>3
    <3>2. \A i \in 1..k-1 : p[i] = r[i]
      BY <1>0, <2>1, <2>2, <2>3
    <3>. QED BY <3>1, <3>2 DEF LeftOf
  <2>4. CASE k = l
    <3>1. k \in DOMAIN p \intersect DOMAIN r /\ p[k] < r[k]
      BY <1>0, <2>1, <2>2, <2>4
    <3>2. \A i \in 1..k-1 : p[i] = r[i]
      BY <1>0, <2>1, <2>2, <2>4
    <3>. QED BY <3>1, <3>2 DEF LeftOf
  <2>5. CASE l < k
    <3>1. l \in DOMAIN p \intersect DOMAIN r /\ p[l] < r[l]
      BY <1>0, <2>1, <2>2, <2>5
    <3>2. \A i \in 1..l-1 : p[i] = r[i]
      BY <1>0, <2>1, <2>2, <2>5
    <3>. QED BY <3>1, <3>2 DEF LeftOf
  <2>. QED BY <1>0, <2>3, <2>4, <2>5
<1>. QED BY <1>1, <1>2

\* A tree with panes has a first one.
LEMMA FirstTerminalIn ==
    ASSUME NEW t, IsTree(t), TerminalsIn(t) # {}
    PROVE  FirstTerminal(t) \in TerminalsIn(t)
<1>. DEFINE P == Panes(t)
            LeftLeaves(p) == {q \in P : LeftOf(q, p)}
            LL == {LeftLeaves(p) : p \in P}
<1>1. IsFiniteSet(P) /\ P # {} /\ \A p \in P : p \in Positions
  <2>1. P \subseteq DOMAIN t
    BY DEF Panes
  <2>. QED BY <2>1, TreeNodes, FS_Subset DEF TerminalsIn
<1>2. LL \subseteq FiniteSubsetsOf(P) /\ LL # {}
  <2>1. \A p \in P : LeftLeaves(p) \subseteq P /\ IsFiniteSet(LeftLeaves(p))
    <3>. TAKE p \in P
    <3>1. LeftLeaves(p) \subseteq P
      OBVIOUS
    <3>. QED BY <1>1, <3>1, FS_Subset
  <2>. QED BY <1>1, <2>1 DEF FiniteSubsetsOf
<1>3. PICK X \in LL : \A Y \in LL : ~(<<Y, X>> \in StrictSubsetOrdering(P))
  <2>. HIDE DEF LL
  <2>. QED BY <1>2, FS_StrictSubsetOrderingWellFounded, WFMin
<1>4. PICK p \in P : X = LeftLeaves(p)
  OBVIOUS
<1>5. ASSUME NEW q \in LeftLeaves(p) PROVE FALSE
  <2>1. q \in P /\ LeftOf(q, p)
    OBVIOUS
  <2>2. \A r \in LeftLeaves(q) : r \in LeftLeaves(p)
    BY <1>1, <2>1, LeftOfOrder
  <2>3. q \notin LeftLeaves(q)
    BY <1>1, <2>1, LeftOfOrder
  <2>4. LeftLeaves(q) \in LL /\ LeftLeaves(q) \subseteq LeftLeaves(p) /\ LeftLeaves(q) # LeftLeaves(p)
    BY <2>1, <2>2, <2>3
  <2>5. <<LeftLeaves(q), LeftLeaves(p)>> \in StrictSubsetOrdering(P)
    BY <2>4 DEF StrictSubsetOrdering
  <2>. QED BY <1>3, <1>4, <2>4, <2>5
<1>6. \A q \in P \ {p} : LeftOf(p, q)
  BY <1>4, <1>5, PanesAreOrdered
<1>7. FirstPane(t) \in P
  BY <1>6 DEF FirstPane
<1>. QED BY <1>7 DEF FirstTerminal, TerminalsIn

\* Below a node that remains, a leaf is kept.
LEMMA RemainingKept ==
    ASSUME NEW t, IsTree(t), NEW kept, NEW p \in Remaining(t, kept)
    PROVE  p \in DOMAIN t /\ p \in Positions /\ KeptBelow(t, kept, p)
<1>1. p \in DOMAIN t /\ p \in Positions
  BY TreeNodes DEF Remaining
<1>2. CASE t[p].type = "split"
  <2>1. KeptBelow(t, kept, Append(p, 0))
    BY <1>2 DEF Remaining
  <2>2. PICK q \in Leaves(t) : IsPrefix(Append(p, 0), q) /\ t[q] \in kept
    BY <2>1 DEF KeptBelow
  <2>3. q \in Positions
    BY TreeNodes DEF Leaves
  <2>4. IsPrefix(p, q)
    BY <1>1, <2>2, <2>3, OneStepMore, PrefixOrder
  <2>. QED BY <1>1, <2>2, <2>4 DEF KeptBelow
<1>3. CASE t[p].type # "split"
  <2>1. p \in Leaves(t) /\ t[p] \in kept
    BY <1>1, <1>3 DEF Remaining, Leaves
  <2>. QED BY <1>1, <2>1, PrefixOrder DEF KeptBelow
<1>. QED BY <1>2, <1>3

\* What is kept below a position is kept below those above it.
LEMMA KeptAbove ==
    ASSUME NEW t, IsTree(t), NEW kept, NEW p \in Positions, NEW q \in Positions,
           IsPrefix(p, q), KeptBelow(t, kept, q)
    PROVE  KeptBelow(t, kept, p)
<1>1. PICK r \in Leaves(t) : IsPrefix(q, r) /\ t[r] \in kept
  BY DEF KeptBelow
<1>2. r \in Positions
  BY TreeNodes DEF Leaves
<1>3. IsPrefix(p, r)
  BY <1>1, <1>2, PrefixOrder
<1>. QED BY <1>1, <1>3 DEF KeptBelow

\* The steps of a position that stay in its new one.
Steps(t, kept, p) == {i \in DOMAIN p : KeptBelow(t, kept, Beside(p, i))}

\* A new position has the steps that stay, each at its rank.
LEMMA NewPositionSteps ==
    ASSUME NEW t, NEW kept, NEW p \in Positions
    PROVE  /\ Steps(t, kept, p) \subseteq 1..Len(p)
           /\ NewPosition(t, kept, p) \in Positions
           /\ Len(NewPosition(t, kept, p)) = Cardinality(Steps(t, kept, p))
           /\ \A i \in Steps(t, kept, p) :
                /\ Rank(Steps(t, kept, p), i) \in 1..Cardinality(Steps(t, kept, p))
                /\ NewPosition(t, kept, p)[Rank(Steps(t, kept, p), i)] = p[i]
<1>1. p \in Seq({0, 1}) /\ DOMAIN p = 1..Len(p) /\ Len(p) \in Nat
  BY DEF Positions
<1>2. NewPosition(t, kept, p) = Subsequence(p, Steps(t, kept, p))
  BY DEF NewPosition, Steps
<1>3. Steps(t, kept, p) \subseteq DOMAIN p
  BY DEF Steps
<1>. QED BY <1>1, <1>2, <1>3, SubsequenceElements DEF Positions

\* What is beside a common step is beside it for both.
LEMMA CommonBeside ==
    ASSUME NEW p \in Positions, NEW q \in Positions, NEW k \in DOMAIN p \intersect DOMAIN q,
           \A i \in 1..k : p[i] = q[i]
    PROVE  Beside(p, k) = Beside(q, k)
<1>1. /\ Beside(p, k) \in Positions /\ Len(Beside(p, k)) = k
      /\ Beside(p, k)[k] = 1 - p[k] /\ \A i \in 1..k-1 : Beside(p, k)[i] = p[i]
  BY BesideSteps
<1>2. /\ Beside(q, k) \in Positions /\ Len(Beside(q, k)) = k
      /\ Beside(q, k)[k] = 1 - q[k] /\ \A i \in 1..k-1 : Beside(q, k)[i] = q[i]
  BY BesideSteps
<1>3. k \in Nat /\ k >= 1
  BY DEF Positions
<1>4. \A i \in 1..k : Beside(p, k)[i] = Beside(q, k)[i]
  <2>1. \A i \in 1..k : i = k \/ i \in 1..k-1
    BY <1>3
  <2>. QED BY <1>1, <1>2, <1>3, <2>1
<1>. QED BY <1>1, <1>2, <1>4 DEF Positions

\* A step that stays is taken at a split that remains; its new position has
\* the new steps up to there.
LEMMA CutPosition ==
    ASSUME NEW t, IsTree(t), NEW kept, NEW p \in Remaining(t, kept), NEW i \in Steps(t, kept, p)
    PROVE  LET s == SubSeq(p, 1, i - 1)
               k == Rank(Steps(t, kept, p), i)
           IN  /\ s \in Remaining(t, kept) /\ t[s].type = "split"
               /\ k \in 1..Len(NewPosition(t, kept, p))
               /\ Len(NewPosition(t, kept, s)) = k - 1
               /\ \A r \in 1..k-1 : NewPosition(t, kept, s)[r] = NewPosition(t, kept, p)[r]
<1>. DEFINE s == SubSeq(p, 1, i - 1)
            I == Steps(t, kept, p)
            J == Steps(t, kept, s)
            k == Rank(I, i)
            np == NewPosition(t, kept, p)
            ns == NewPosition(t, kept, s)
<1>1. p \in DOMAIN t /\ p \in Positions /\ KeptBelow(t, kept, p)
  BY RemainingKept
<1>2. /\ I \subseteq 1..Len(p) /\ np \in Positions /\ Len(np) = Cardinality(I)
      /\ \A j \in I : Rank(I, j) \in 1..Cardinality(I) /\ np[Rank(I, j)] = p[j]
  BY <1>1, NewPositionSteps
<1>3. i \in 1..Len(p) /\ i \in DOMAIN p /\ Len(p) \in Nat /\ p[i] \in {0, 1} /\ i \in I
      /\ KeptBelow(t, kept, Beside(p, i))
  BY <1>1, <1>2 DEF Positions, Steps
<1>4. s \in DOMAIN t /\ t[s].type = "split"
  BY <1>1, <1>3, TreeShape
<1>5. s \in Positions /\ Len(s) = i - 1 /\ \A j \in 1..i-1 : s[j] = p[j]
  BY <1>1, <1>3 DEF Positions
<1>6. Beside(p, i) = Append(s, 1 - p[i])
  BY DEF Beside
<1>. HIDE DEF s, I, J, k, np, ns
<1>7. KeptBelow(t, kept, Append(s, p[i]))
  <2>1. /\ Append(s, p[i]) \in Positions /\ Len(Append(s, p[i])) = i
        /\ Append(s, p[i])[i] = p[i] /\ \A j \in 1..i-1 : Append(s, p[i])[j] = p[j]
    BY <1>3, <1>5, OneStepMore
  <2>2. \A j \in 1..i : Append(s, p[i])[j] = p[j]
    <3>1. \A j \in 1..i : j = i \/ j \in 1..i-1
      BY <1>3
    <3>. QED BY <1>3, <1>5, <2>1, <3>1
  <2>. DEFINE a == Append(s, p[i])
  <2>. HIDE DEF a
  <2>3. IsPrefix(a, p)
    <3>1. a \in Positions /\ Len(a) = i /\ (\A j \in 1..i : a[j] = p[j])
      BY <2>1, <2>2 DEF a
    <3>2. i <= Len(p)
      BY <1>3
    <3>. QED BY <1>1, <3>1, <3>2, PrefixSteps
  <2>. QED BY <1>1, <2>1, <2>3, KeptAbove DEF a
<1>8. s \in Remaining(t, kept)
  <2>1. KeptBelow(t, kept, Append(s, 0)) /\ KeptBelow(t, kept, Append(s, 1))
    <3>1. (p[i] = 0 /\ 1 - p[i] = 1) \/ (p[i] = 1 /\ 1 - p[i] = 0)
      BY <1>3
    <3>. QED BY <1>3, <1>6, <1>7, <3>1
  <2>. QED BY <1>4, <2>1 DEF Remaining
<1>9. /\ J \subseteq 1..i-1 /\ ns \in Positions /\ Len(ns) = Cardinality(J)
      /\ \A j \in J : Rank(J, j) \in 1..Cardinality(J) /\ ns[Rank(J, j)] = s[j]
  BY <1>5, NewPositionSteps DEF J, ns
<1>10. \A j \in 1..i-1 : j \in J <=> j \in I
  <2>. TAKE j \in 1..i-1
  <2>1. j \in DOMAIN s /\ j \in DOMAIN p
    BY <1>1, <1>3, <1>5 DEF Positions
  <2>2. \A l \in 1..j : s[l] = p[l]
    BY <1>3, <1>5
  <2>3. Beside(s, j) = Beside(p, j)
    BY <1>1, <1>5, <2>1, <2>2, CommonBeside
  <2>. QED BY <2>1, <2>3 DEF I, J, Steps
<1>11. \A j \in J : j \in I /\ j \in 1..i-1 /\ Rank(J, j) = Rank(I, j)
  <2>. TAKE j \in J
  <2>1. j \in I /\ j \in 1..i-1
    BY <1>9, <1>10
  <2>2. {l \in J : l <= j} = {l \in I : l <= j}
    <3>1. \A l \in I : l <= j => l \in 1..i-1
      BY <1>2, <1>3, <2>1
    <3>. QED BY <1>9, <1>10, <3>1
  <2>. QED BY <2>1, <2>2 DEF Rank
<1>12. Cardinality(J) = k - 1 /\ Cardinality(J) \in Nat
  <2>1. {l \in I : l <= i} = J \union {i}
    <3>1. \A l \in I : l <= i => l = i \/ l \in 1..i-1
      BY <1>2, <1>3
    <3>2. \A l \in J : l \in I /\ l <= i
      BY <1>3, <1>9, <1>10
    <3>. QED BY <1>3, <1>10, <3>1, <3>2
  <2>2. i \notin J
    BY <1>3, <1>9
  <2>3. IsFiniteSet(J) /\ Cardinality(J) \in Nat
    <3>1. i - 1 \in Nat
      BY <1>3
    <3>. QED BY <1>9, <3>1, Ranks
  <2>4. Cardinality(J \union {i}) = Cardinality(J) + 1
    BY <2>2, <2>3, FS_AddElement
  <2>. QED BY <2>1, <2>3, <2>4 DEF k, Rank
<1>13. ASSUME NEW r \in 1..k-1 PROVE ns[r] = np[r]
  <2>1. PICK j \in J : Rank(J, j) = r
    <3>1. i - 1 \in Nat
      BY <1>3
    <3>. QED BY <1>9, <1>12, <3>1, Ranks
  <2>. QED BY <1>2, <1>5, <1>9, <1>11, <2>1
<1>14. k \in 1..Len(np) /\ Len(ns) = k - 1
  BY <1>2, <1>3, <1>9, <1>12 DEF k
<1>. QED BY <1>4, <1>8, <1>13, <1>14 DEF s, I, k, np, ns

\* Nodes that remain, one not below the other, are so in their new positions.
LEMMA NewPositionsApart ==
    ASSUME NEW t, IsTree(t), NEW kept,
           NEW p \in Remaining(t, kept), NEW q \in Remaining(t, kept), ~IsPrefix(p, q)
    PROVE  ~IsPrefix(NewPosition(t, kept, p), NewPosition(t, kept, q))
<1>. DEFINE I == Steps(t, kept, p)
            J == Steps(t, kept, q)
            np == NewPosition(t, kept, p)
            nq == NewPosition(t, kept, q)
<1>1. /\ p \in Positions /\ p \in DOMAIN t /\ KeptBelow(t, kept, p)
      /\ q \in Positions /\ q \in DOMAIN t /\ KeptBelow(t, kept, q)
  BY RemainingKept
<1>2. /\ DOMAIN p = 1..Len(p) /\ DOMAIN q = 1..Len(q) /\ Len(p) \in Nat /\ Len(q) \in Nat
      /\ \A i \in DOMAIN p : p[i] \in {0, 1}
      /\ \A i \in DOMAIN q : q[i] \in {0, 1}
  BY <1>1 DEF Positions
<1>3. /\ I \subseteq 1..Len(p) /\ np \in Positions /\ Len(np) = Cardinality(I)
      /\ \A i \in I : Rank(I, i) \in 1..Cardinality(I) /\ np[Rank(I, i)] = p[i]
      /\ J \subseteq 1..Len(q) /\ nq \in Positions /\ Len(nq) = Cardinality(J)
      /\ \A i \in J : Rank(J, i) \in 1..Cardinality(J) /\ nq[Rank(J, i)] = q[i]
  BY <1>1, NewPositionSteps
<1>. HIDE DEF np, nq
<1>4. ASSUME NEW k \in DOMAIN p \intersect DOMAIN q, \A i \in 1..k : p[i] = q[i]
      PROVE  Beside(p, k) = Beside(q, k)
  BY <1>1, <1>4, CommonBeside
<1>5. CASE \E k \in DOMAIN p \intersect DOMAIN q : p[k] # q[k] /\ \A i \in 1..k-1 : p[i] = q[i]
  <2>1. PICK k \in DOMAIN p \intersect DOMAIN q : p[k] # q[k] /\ \A i \in 1..k-1 : p[i] = q[i]
    BY <1>5
  <2>2. k \in Nat /\ k <= Len(p) /\ k <= Len(q) /\ q[k] = 1 - p[k] /\ p[k] = 1 - q[k]
    BY <1>2, <2>1
  <2>3. k \in I /\ k \in J
    <3>1. /\ Beside(p, k) \in Positions /\ Len(Beside(p, k)) = k
          /\ \A i \in 1..k : Beside(p, k)[i] = q[i]
          /\ Beside(q, k) \in Positions /\ Len(Beside(q, k)) = k
          /\ \A i \in 1..k : Beside(q, k)[i] = p[i]
      <4>1. /\ Beside(p, k) \in Positions /\ Len(Beside(p, k)) = k
            /\ Beside(p, k)[k] = 1 - p[k] /\ \A i \in 1..k-1 : Beside(p, k)[i] = p[i]
        BY <1>1, BesideSteps
      <4>2. /\ Beside(q, k) \in Positions /\ Len(Beside(q, k)) = k
            /\ Beside(q, k)[k] = 1 - q[k] /\ \A i \in 1..k-1 : Beside(q, k)[i] = q[i]
        BY <1>1, BesideSteps
      <4>3. \A i \in 1..k : i = k \/ i \in 1..k-1
        BY <2>2
      <4>. QED BY <2>1, <2>2, <4>1, <4>2, <4>3
    <3>2. IsPrefix(Beside(p, k), q) /\ IsPrefix(Beside(q, k), p)
      BY <1>1, <2>2, <3>1, PrefixSteps
    <3>3. KeptBelow(t, kept, Beside(p, k)) /\ KeptBelow(t, kept, Beside(q, k))
      BY <1>1, <3>1, <3>2, KeptAbove
    <3>. QED BY <2>1, <3>3 DEF Steps
  <2>4. {i \in I : i <= k} = {i \in J : i <= k}
    <3>1. ASSUME NEW i \in 1..k-1 PROVE i \in I <=> i \in J
      <4>1. i \in DOMAIN p \intersect DOMAIN q /\ \A j \in 1..i : p[j] = q[j]
        BY <1>2, <2>1, <2>2
      <4>2. Beside(p, i) = Beside(q, i)
        BY <1>4, <4>1
      <4>. QED BY <4>1, <4>2 DEF Steps
    <3>. HIDE DEF I, J
    <3>2. \A i \in I \union J : i \in Nat /\ i >= 1
      BY <1>2, <1>3
    <3>3. \A i \in I \union J : i <= k => i = k \/ i \in 1..k-1
      BY <2>2, <3>2
    <3>. QED BY <2>3, <3>1, <3>3
  <2>5. Rank(I, k) = Rank(J, k)
    BY <2>4 DEF Rank
  <2>6. /\ Rank(I, k) \in 1..Len(np) /\ np[Rank(I, k)] = p[k]
        /\ Rank(I, k) \in 1..Len(nq) /\ nq[Rank(I, k)] = q[k]
    BY <1>3, <2>3, <2>5
  <2>. QED BY <1>3, <2>1, <2>6, PrefixSteps DEF np, nq
<1>6. CASE IsPrefix(q, p) /\ Len(q) < Len(p)
  <2>. DEFINE k == Len(q) + 1
  <2>1. \A i \in 1..Len(q) : p[i] = q[i]
    BY <1>1, <1>6, PrefixSteps
  <2>2. t[q].type = "split" /\ k \in DOMAIN p
    BY <1>1, <1>2, <1>6, TreeNodes
  <2>3. KeptBelow(t, kept, Append(q, 1 - p[k]))
    <3>1. 1 - p[k] \in {0, 1}
      BY <1>2, <2>2
    <3>. QED BY <2>2, <3>1 DEF Remaining
  <2>4. Beside(p, k) = Append(q, 1 - p[k])
    <3>1. 1 - p[k] \in {0, 1}
      BY <1>2, <2>2
    <3>2. /\ Append(q, 1 - p[k]) \in Positions /\ Len(Append(q, 1 - p[k])) = k
          /\ Append(q, 1 - p[k])[k] = 1 - p[k]
          /\ \A i \in 1..Len(q) : Append(q, 1 - p[k])[i] = q[i]
      BY <1>1, <3>1, OneStepMore
    <3>3. /\ Beside(p, k) \in Positions /\ Len(Beside(p, k)) = k
          /\ Beside(p, k)[k] = 1 - p[k]
          /\ \A i \in 1..k-1 : Beside(p, k)[i] = p[i]
      BY <1>1, <2>2, BesideSteps
    <3>4. \A i \in 1..k : Beside(p, k)[i] = Append(q, 1 - p[k])[i]
      BY <1>2, <2>1, <3>2, <3>3
    <3>. QED BY <3>2, <3>3, <3>4 DEF Positions
  <2>5. k \in I /\ k \notin J
    <3>1. k \in I
      BY <2>2, <2>3, <2>4 DEF Steps
    <3>2. k \notin 1..Len(q)
      BY <1>2
    <3>. QED BY <1>3, <3>1, <3>2
  <2>6. J \subseteq I
    <3>1. ASSUME NEW i \in J PROVE i \in I
      <4>1. i \in DOMAIN p \intersect DOMAIN q /\ \A j \in 1..i : p[j] = q[j]
        BY <1>2, <1>3, <1>6, <2>1
      <4>2. Beside(p, i) = Beside(q, i)
        BY <1>4, <4>1
      <4>. QED BY <4>1, <4>2 DEF Steps
    <3>. QED BY <3>1
  <2>7. Cardinality(J) < Cardinality(I) /\ Cardinality(I) \in Nat /\ Cardinality(J) \in Nat
    <3>1. IsFiniteSet(I) /\ Cardinality(I) \in Nat /\ Cardinality(J) \in Nat
      BY <1>2, <1>3, Ranks
    <3>. QED BY <2>5, <2>6, <3>1, FS_Subset
  <2>. QED BY <1>3, <2>7, PrefixSteps DEF np, nq
<1>. QED BY <1>1, <1>5, <1>6, FirstDifference

\* Nodes that remain have different new positions.
LEMMA NewPositionsDiffer ==
    ASSUME NEW t, IsTree(t), NEW kept,
           NEW p \in Remaining(t, kept), NEW q \in Remaining(t, kept),
           NewPosition(t, kept, p) = NewPosition(t, kept, q)
    PROVE  p = q
<1>1. p \in Positions /\ q \in Positions
  BY RemainingKept
<1>2. NewPosition(t, kept, p) \in Positions /\ NewPosition(t, kept, q) \in Positions
  BY <1>1, NewPositionSteps
<1>3. /\ IsPrefix(NewPosition(t, kept, p), NewPosition(t, kept, q))
      /\ IsPrefix(NewPosition(t, kept, q), NewPosition(t, kept, p))
  BY <1>2, PrefixOrder
<1>4. IsPrefix(p, q) /\ IsPrefix(q, p)
  BY <1>3, NewPositionsApart
<1>. QED BY <1>1, <1>4, PrefixOrder

\* The nodes above one in its new position are above it in its old.
LEMMA NewAbove ==
    ASSUME NEW t, IsTree(t), NEW kept, NEW p \in Remaining(t, kept),
           NEW k \in DOMAIN NewPosition(t, kept, p)
    PROVE  \E s \in Remaining(t, kept) :
              t[s].type = "split" /\ NewPosition(t, kept, s) = SubSeq(NewPosition(t, kept, p), 1, k - 1)
<1>. DEFINE I == Steps(t, kept, p)
            np == NewPosition(t, kept, p)
<1>1. p \in Positions /\ I \subseteq 1..Len(p) /\ np \in Positions /\ Len(np) = Cardinality(I)
  BY RemainingKept, NewPositionSteps
<1>2. k \in 1..Len(np) /\ Len(p) \in Nat
  BY <1>1 DEF Positions
<1>3. PICK i \in I : Rank(I, i) = k
  <2>. HIDE DEF I, np
  <2>. QED BY <1>1, <1>2, Ranks
<1>. DEFINE s == SubSeq(p, 1, i - 1)
            ns == NewPosition(t, kept, s)
<1>4. /\ s \in Remaining(t, kept) /\ t[s].type = "split"
      /\ Len(ns) = k - 1 /\ \A r \in 1..k-1 : ns[r] = np[r]
  BY <1>3, CutPosition
<1>5. ns \in Positions
  BY <1>4, RemainingKept, NewPositionSteps
<1>. HIDE DEF s, ns, np
<1>6. ns = SubSeq(np, 1, k - 1)
  BY <1>1, <1>2, <1>4, <1>5 DEF Positions
<1>. QED BY <1>4, <1>6 DEF ns, np

\* On each side of a split that remains, the topmost node that remains.
LEMMA NewBelow ==
    ASSUME NEW t, IsTree(t), NEW kept, NEW p \in Remaining(t, kept), t[p].type = "split",
           NEW side \in {0, 1}
    PROVE  \E m \in Remaining(t, kept) :
              NewPosition(t, kept, m) = Append(NewPosition(t, kept, p), side)
<1>. DEFINE c == Append(p, side)
            below == {m \in Remaining(t, kept) : IsPrefix(c, m)}
            i == Len(p) + 1
<1>1. p \in Positions /\ p \in DOMAIN t /\ Len(p) \in Nat
  BY RemainingKept DEF Positions
<1>2. c \in Positions /\ Len(c) = i /\ c[i] = side /\ \A j \in 1..Len(p) : c[j] = p[j]
  BY <1>1, OneStepMore
<1>3. KeptBelow(t, kept, c) /\ KeptBelow(t, kept, Append(p, 1 - side))
  <2>1. 1 - side \in {0, 1}
    OBVIOUS
  <2>. QED BY <2>1 DEF Remaining
<1>. HIDE DEF c
<1>4. below # {}
  <2>1. PICK q \in Leaves(t) : IsPrefix(c, q) /\ t[q] \in kept
    BY <1>3 DEF KeptBelow
  <2>2. q \in Remaining(t, kept)
    BY <2>1 DEF Remaining, Leaves
  <2>. QED BY <2>1, <2>2
<1>5. \A m \in below : /\ m \in Remaining(t, kept) /\ m \in Positions /\ IsPrefix(c, m)
                       /\ i <= Len(m) /\ \A j \in 1..i : m[j] = c[j]
  BY <1>2, RemainingKept, PrefixSteps
<1>6. PICK m \in below : \A n \in below : Len(m) <= Len(n)
  <2>. DEFINE LL == {Len(n) : n \in below}
  <2>. HIDE DEF below
  <2>1. LL \subseteq Nat /\ LL # {}
    BY <1>4, <1>5 DEF Positions
  <2>2. PICK x \in LL : \A y \in LL : x <= y
    <3>. HIDE DEF LL
    <3>. QED BY <2>1, NatMin
  <2>. QED BY <2>2
<1>. DEFINE I == Steps(t, kept, m)
            k == Rank(I, i)
            nm == NewPosition(t, kept, m)
            np == NewPosition(t, kept, p)
<1>7. /\ m \in Remaining(t, kept) /\ m \in Positions /\ IsPrefix(c, m)
      /\ i <= Len(m) /\ m[i] = side /\ Len(m) \in Nat
      /\ \A j \in 1..Len(p) : m[j] = p[j]
  <2>1. i \in 1..i /\ \A j \in 1..Len(p) : j \in 1..i
    BY <1>1
  <2>. QED BY <1>2, <1>5, <2>1 DEF Positions
<1>8. /\ I \subseteq 1..Len(m) /\ nm \in Positions /\ Len(nm) = Cardinality(I)
      /\ \A j \in I : Rank(I, j) \in 1..Cardinality(I) /\ nm[Rank(I, j)] = m[j]
  BY <1>7, NewPositionSteps
<1>9. SubSeq(m, 1, i - 1) = p
  BY <1>1, <1>7 DEF Positions
<1>10. i \in I
  <2>1. Beside(m, i) = Append(p, 1 - side)
    BY <1>7, <1>9 DEF Beside
  <2>2. i \in DOMAIN m
    BY <1>1, <1>7 DEF Positions
  <2>. QED BY <1>3, <2>1, <2>2 DEF Steps
<1>11. /\ k \in 1..Len(nm) /\ Len(np) = k - 1
       /\ \A r \in 1..k-1 : np[r] = nm[r]
  <2>. DEFINE s == SubSeq(m, 1, i - 1)
  <2>. HIDE DEF i
  <2>1. /\ k \in 1..Len(nm) /\ Len(NewPosition(t, kept, s)) = k - 1
        /\ \A r \in 1..k-1 : NewPosition(t, kept, s)[r] = nm[r]
    BY <1>7, <1>10, CutPosition
  <2>. HIDE DEF s, I, k, nm
  <2>2. s = p
    BY <1>9 DEF s
  <2>. QED BY <2>1, <2>2
<1>12. ASSUME NEW j \in I, j > i PROVE FALSE
  <2>. DEFINE s == SubSeq(m, 1, j - 1)
  <2>1. j \in 1..Len(m)
    BY <1>8
  <2>2. s \in Remaining(t, kept)
    BY <1>7, CutPosition
  <2>3. s \in Positions /\ Len(s) = j - 1 /\ \A l \in 1..j-1 : s[l] = m[l]
    BY <1>7, <2>1 DEF Positions
  <2>. HIDE DEF s
  <2>4. i <= Len(s) /\ \A l \in 1..i : s[l] = c[l]
    <3>1. \A l \in 1..i : l \in 1..j-1
      BY <1>12, <2>1
    <3>2. \A l \in 1..i : m[l] = c[l]
      BY <1>5
    <3>3. i <= j - 1
      BY <1>1, <1>12, <2>1
    <3>. QED BY <2>3, <3>1, <3>2, <3>3
  <2>5. IsPrefix(c, s)
    BY <1>2, <2>3, <2>4, PrefixSteps
  <2>6. Len(m) <= Len(s)
    BY <1>6, <2>2, <2>5
  <2>. QED BY <1>7, <2>1, <2>3, <2>6
<1>13. k = Len(nm)
  <2>1. {j \in I : j <= i} = I
    <3>1. \A j \in I : ~(j > i) => j <= i
      BY <1>1, <1>8
    <3>. QED BY <1>12, <3>1
  <2>. QED BY <1>8, <2>1 DEF Rank
<1>14. nm[k] = side
  BY <1>7, <1>8, <1>10
<1>15. np \in Positions
  BY <1>1, NewPositionSteps
<1>. HIDE DEF I, k, nm, np
<1>16. nm = Append(np, side)
  <2>. DEFINE a == Append(np, side)
  <2>1. a \in Positions /\ Len(a) = k /\ a[k] = side /\ \A r \in 1..k-1 : a[r] = np[r]
    BY <1>11, <1>15, OneStepMore DEF Positions
  <2>. HIDE DEF a
  <2>2. \A r \in 1..k : r = k \/ r \in 1..k-1
    BY <1>11
  <2>3. \A r \in 1..k : a[r] = nm[r]
    BY <1>11, <1>14, <2>1, <2>2
  <2>4. a = nm
    BY <1>8, <1>13, <2>1, <2>3 DEF Positions
  <2>. QED BY <2>4 DEF a
<1>. QED BY <1>7, <1>16 DEF nm, np

\* The pruned tree has the nodes that remain, each at its new position.
LEMMA PrunedNodes ==
    ASSUME NEW t, IsTree(t), NEW kept
    PROVE  /\ DOMAIN Pruned(t, kept) = {NewPosition(t, kept, p) : p \in Remaining(t, kept)}
           /\ \A p \in Remaining(t, kept) : Pruned(t, kept)[NewPosition(t, kept, p)] = t[p]
<1>. DEFINE left == Remaining(t, kept)
            New(p) == NewPosition(t, kept, p)
            D == {New(p) : p \in left}
<1>1. Pruned(t, kept) = [q \in D |-> t[CHOOSE p \in left : New(p) = q]]
  BY DEF Pruned
<1>2. ASSUME NEW p \in left PROVE Pruned(t, kept)[New(p)] = t[p]
  <2>1. (CHOOSE r \in left : New(r) = New(p)) = p
    <3>. DEFINE c == CHOOSE r \in left : New(r) = New(p)
    <3>1. c \in left /\ New(c) = New(p)
      OBVIOUS
    <3>. HIDE DEF c
    <3>2. c = p
      BY <3>1, NewPositionsDiffer
    <3>. QED BY <3>2 DEF c
  <2>2. New(p) \in D
    OBVIOUS
  <2>. HIDE DEF D, left, New
  <2>. QED BY <1>1, <2>1, <2>2
<1>3. DOMAIN Pruned(t, kept) = D
  BY <1>1
<1>. QED BY <1>2, <1>3

\* Each terminal has one pane.
Once(t) == \A p, q \in Panes(t) : t[p].id = t[q].id => p = q

\* Pruning a tree gives a tree with the terminals that are kept, each as often
\* as before.
THEOREM PrunedTree ==
    ASSUME NEW t, IsTree(t), NEW kept
    PROVE  /\ IsTree(Pruned(t, kept))
           /\ TerminalsIn(Pruned(t, kept)) = {x \in TerminalsIn(t) : Pane(x) \in kept}
           /\ Once(t) => Once(Pruned(t, kept))
<1>. DEFINE left == Remaining(t, kept)
            New(p) == NewPosition(t, kept, p)
            u == Pruned(t, kept)
<1>1. DOMAIN u = {New(p) : p \in left} /\ \A p \in left : u[New(p)] = t[p]
  BY PrunedNodes
<1>2. \A p \in left : p \in DOMAIN t /\ p \in Positions /\ New(p) \in Positions
  BY RemainingKept, NewPositionSteps
<1>3. u = [q \in DOMAIN u |-> u[q]]
  BY DEF Pruned
<1>4. IsFiniteSet(DOMAIN u)
  <2>1. left \subseteq DOMAIN t
    BY <1>2
  <2>2. IsFiniteSet(left)
    BY <2>1, TreeNodes, FS_Subset
  <2>3. IsFiniteSet({New(p) : p \in left})
    <3>. DEFINE f == [p \in left |-> New(p)]
                D == {New(p) : p \in left}
    <3>1. f \in [left -> D] /\ \A d \in D : \E p \in left : f[p] = d
      OBVIOUS
    <3>. HIDE DEF f, D
    <3>2. f \in Surjection(left, D)
      BY <3>1, Fun_IsSurj
    <3>3. IsFiniteSet(D)
      BY <2>2, <3>2, FS_Surjection
    <3>. QED BY <3>3 DEF D
  <2>. QED BY <1>1, <2>3
<1>5. \A p \in left : \A k \in DOMAIN New(p) :
          \E s \in left : t[s].type = "split" /\ New(s) = SubSeq(New(p), 1, k - 1)
  BY NewAbove
<1>6. \A p \in left, side \in {0, 1} : t[p].type = "split" => \E m \in left : New(m) = Append(New(p), side)
  BY NewBelow
<1>. HIDE DEF left, New, u
<1>7. \A q \in DOMAIN u : q \in Seq({0, 1}) /\ u[q] \in Nodes
  BY <1>1, <1>2, TreeNodes DEF Positions
<1>8. \A q \in DOMAIN u : \A i \in DOMAIN q : SubSeq(q, 1, i - 1) \in Dividers(u)
  <2>. SUFFICES ASSUME NEW p \in left, NEW i \in DOMAIN New(p)
                PROVE  SubSeq(New(p), 1, i - 1) \in Dividers(u)
    BY <1>1
  <2>1. PICK s \in left : t[s].type = "split" /\ New(s) = SubSeq(New(p), 1, i - 1)
    BY <1>5
  <2>. QED BY <1>1, <2>1 DEF Dividers, Leaves
<1>9. \A q \in Dividers(u), side \in {0, 1} : Append(q, side) \in DOMAIN u
  <2>. SUFFICES ASSUME NEW q \in Dividers(u), NEW side \in {0, 1} PROVE Append(q, side) \in DOMAIN u
    OBVIOUS
  <2>1. PICK p \in left : q = New(p) /\ t[p].type = "split"
    BY <1>1 DEF Dividers, Leaves
  <2>2. PICK m \in left : New(m) = Append(New(p), side)
    BY <1>6, <2>1
  <2>. QED BY <1>1, <2>1, <2>2
<1>10. IsTree(u)
  BY <1>3, <1>4, <1>7, <1>8, <1>9 DEF IsTree
<1>11. \A p \in Panes(t) : t[p] \in kept => p \in left
  BY TreeNodes DEF left, Remaining, Panes, Pane
<1>12. \A p \in left : p \in Panes(t) => t[p] \in kept
  BY DEF left, Remaining, Panes
<1>13. Panes(u) = {New(p) : p \in {r \in Panes(t) : t[r] \in kept}}
  BY <1>1, <1>2, <1>11, <1>12 DEF Panes
<1>14. TerminalsIn(u) = {x \in TerminalsIn(t) : Pane(x) \in kept}
  <2>1. \A p \in Panes(t) : t[p] = Pane(t[p].id)
    BY TreeNodes
  <2>. QED BY <1>1, <1>11, <1>13, <2>1 DEF TerminalsIn
<1>15. Once(t) => Once(u)
  BY <1>1, <1>11, <1>13 DEF Once
<1>. QED BY <1>10, <1>14, <1>15 DEF u

\* A function takes finitely many values on a finite set.
LEMMA FiniteValues ==
    ASSUME NEW S, IsFiniteSet(S), NEW f, S \subseteq DOMAIN f
    PROVE  IsFiniteSet({f[x] : x \in S}) /\ Cardinality({f[x] : x \in S}) <= Cardinality(S)
<1>. DEFINE g == [x \in S |-> f[x]]
            V == {f[x] : x \in S}
<1>1. g \in [S -> V] /\ \A v \in V : \E x \in S : g[x] = v
  OBVIOUS
<1>. HIDE DEF g, V
<1>2. g \in Surjection(S, V)
  BY <1>1, Fun_IsSurj
<1>3. IsFiniteSet(V) /\ Cardinality(V) <= Cardinality(S)
  BY <1>2, FS_Surjection
<1>. QED BY <1>3 DEF V

\* A tree of one leaf.
LEMMA LeafTree ==
    ASSUME NEW x \in Nat \ {0}
    PROVE  IsTree(Leaf(Pane(x))) /\ TerminalsIn(Leaf(Pane(x))) = {x} /\ Once(Leaf(Pane(x)))
<1>. DEFINE t == Leaf(Pane(x))
<1>1. DOMAIN t = {<<>>} /\ t[<<>>] = Pane(x) /\ t = [p \in DOMAIN t |-> t[p]]
  BY DEF Leaf
<1>2. Pane(x) \in Nodes /\ Pane(x).type = "pane" /\ Pane(x).id = x
  BY DEF Pane, Nodes
<1>. HIDE DEF t
<1>3. IsTree(t)
  <2>1. IsFiniteSet({<<>>})
    BY FS_Singleton
  <2>2. <<>> \in Seq({0, 1}) /\ DOMAIN <<>> = {}
    OBVIOUS
  <2>3. Dividers(t) = {}
    BY <1>1, <1>2 DEF Dividers, Leaves
  <2>. QED BY <1>1, <1>2, <2>1, <2>2, <2>3 DEF IsTree
<1>4. Panes(t) = {<<>>}
  BY <1>1, <1>2 DEF Panes
<1>. QED BY <1>1, <1>2, <1>3, <1>4 DEF TerminalsIn, Once, t

\* Splitting a terminal's pane adds the new leaf, and nothing where the
\* terminal has no pane.
THEOREM SplitTree ==
    ASSUME NEW t, IsTree(t), NEW x \in Nat \ {0}, NEW direction \in Directions,
           NEW node \in Nodes, node.type # "split"
    PROVE  LET u == PaneSplit(t, x, direction, node) IN
           /\ IsTree(u)
           /\ TerminalsIn(u) = TerminalsIn(t) \union
                  IF x \in TerminalsIn(t) /\ node.type = "pane" THEN {node.id} ELSE {}
           /\ Once(t) /\ (node.type = "pane" => node.id \notin TerminalsIn(t)) => Once(u)
<1>. DEFINE u == PaneSplit(t, x, direction, node)
            at == {p \in Panes(t) : t[p].id = x}
            new == {Append(q, side) : q \in at, side \in {0, 1}}
<1>1. \A p \in at : /\ p \in DOMAIN t /\ p \in Positions /\ t[p].type = "pane"
                    /\ t[p].id = x /\ t[p].type # "split"
  BY TreeNodes DEF Panes
<1>2. \A p \in DOMAIN t : p \in Positions /\ t[p] \in Nodes
  BY TreeNodes
<1>3. \A p \in new : \E q \in at, side \in {0, 1} : p = Append(q, side)
  OBVIOUS
<1>4. ASSUME NEW q \in at, NEW side \in {0, 1}
      PROVE  /\ Append(q, side) \in new /\ Append(q, side) \in Positions
             /\ Append(q, side) \notin DOMAIN t
             /\ Append(q, side)[Len(Append(q, side))] = side
  <2>1. Append(q, side) \in Positions /\ IsPrefix(q, Append(q, side))
        /\ Len(Append(q, side)) = Len(q) + 1 /\ Append(q, side)[Len(q) + 1] = side
    BY <1>1, OneStepMore
  <2>2. Append(q, side) # q
    BY <1>1, <2>1 DEF Positions
  <2>3. Append(q, side) \notin DOMAIN t
    BY <1>1, <2>1, <2>2, TreeNodes
  <2>4. Append(q, side) \in new
    OBVIOUS
  <2>. HIDE DEF new, at
  <2>. QED BY <2>1, <2>3, <2>4
<1>5. /\ DOMAIN u = DOMAIN t \union new
      /\ \A p \in DOMAIN u : u[p] = IF p \in at THEN Split(direction, 5)
                                    ELSE IF p \in DOMAIN t THEN t[p]
                                    ELSE IF p[Len(p)] = 0 THEN Pane(x) ELSE node
      /\ u = [p \in DOMAIN u |-> u[p]]
  BY DEF PaneSplit
<1>. HIDE DEF at, new, u
<1>6. /\ Split(direction, 5) \in Nodes /\ Split(direction, 5).type = "split"
      /\ Pane(x) \in Nodes /\ Pane(x).type = "pane" /\ Pane(x).id = x
  <2>1. Split(direction, 5) \in [type : {"split"}, direction : Directions, ratio : 1..9]
        /\ Split(direction, 5).type = "split"
    BY DEF Split
  <2>2. Pane(x) \in [type : {"pane", "editor"}, id : Nat \ {0}]
        /\ Pane(x).type = "pane" /\ Pane(x).id = x
    BY DEF Pane
  <2>. QED BY <2>1, <2>2 DEF Nodes
<1>7. /\ \A p \in at : u[p].type = "split" /\ u[p] \in Nodes
      /\ \A p \in DOMAIN t \ at : u[p] = t[p]
      /\ \A q \in at : /\ u[Append(q, 0)] = Pane(x) /\ Append(q, 0) \in DOMAIN u
                       /\ u[Append(q, 1)] = node /\ Append(q, 1) \in DOMAIN u
  <2>1. \A q \in at, side \in {0, 1} : Append(q, side) \notin at
    BY <1>1, <1>4
  <2>2. \A q \in at, side \in {0, 1} : /\ Append(q, side) \in DOMAIN u
                                      /\ u[Append(q, side)] = IF side = 0 THEN Pane(x) ELSE node
    BY <1>4, <1>5, <2>1
  <2>. QED BY <1>1, <1>5, <1>6, <2>2
<1>8. \A p \in DOMAIN u : \/ p \in DOMAIN t
                          \/ \E q \in at, side \in {0, 1} : p = Append(q, side)
  BY <1>3, <1>5
<1>9. IsTree(u)
  <2>1. IsFiniteSet(DOMAIN u)
    <3>1. IsFiniteSet(at)
      <4>1. at \subseteq DOMAIN t
        BY <1>1
      <4>. QED BY <4>1, TreeNodes, FS_Subset
    <3>. DEFINE f == [q \in at |-> Append(q, 0)]
                g == [q \in at |-> Append(q, 1)]
    <3>2. IsFiniteSet({f[q] : q \in at}) /\ IsFiniteSet({g[q] : q \in at})
      <4>1. at \subseteq DOMAIN f /\ at \subseteq DOMAIN g
        OBVIOUS
      <4>. HIDE DEF f, g
      <4>. QED BY <3>1, <4>1, FiniteValues
    <3>3. new = {f[q] : q \in at} \union {g[q] : q \in at}
      BY DEF new
    <3>4. IsFiniteSet(DOMAIN t)
      BY TreeNodes
    <3>. HIDE DEF f, g
    <3>5. IsFiniteSet({f[q] : q \in at} \union {g[q] : q \in at})
      BY <3>2, FS_Union
    <3>6. IsFiniteSet(new)
      BY <3>3, <3>5
    <3>7. IsFiniteSet(DOMAIN t \union new)
      BY <3>4, <3>6, FS_Union
    <3>. QED BY <1>5, <3>7, Zenon
  <2>2. \A p \in DOMAIN u : p \in Positions /\ u[p] \in Nodes
    <3>1. \A q \in at, side \in {0, 1} : u[Append(q, side)] \in Nodes
      BY <1>6, <1>7
    <3>2. \A p \in DOMAIN t : u[p] \in Nodes
      BY <1>2, <1>7
    <3>. QED BY <1>2, <1>4, <1>8, <3>1, <3>2
  <2>3. \A p \in Dividers(t) : p \in Dividers(u)
    <3>. TAKE p \in Dividers(t)
    <3>1. p \in DOMAIN t /\ t[p].type = "split"
      BY DEF Dividers, Leaves
    <3>. QED BY <1>1, <1>5, <1>7, <3>1 DEF Dividers, Leaves
  <2>4. \A q \in at : q \in Dividers(u)
    BY <1>1, <1>5, <1>7 DEF Dividers, Leaves
  <2>5. ASSUME NEW p \in DOMAIN u, NEW i \in DOMAIN p
        PROVE  SubSeq(p, 1, i - 1) \in Dividers(u)
    <3>1. CASE p \in DOMAIN t
      BY <2>3, <2>5, <3>1 DEF IsTree
    <3>2. ASSUME NEW q \in at, NEW side \in {0, 1}, p = Append(q, side)
          PROVE  SubSeq(p, 1, i - 1) \in Dividers(u)
      <4>1. /\ q \in DOMAIN t /\ q \in Positions /\ Len(p) = Len(q) + 1 /\ p \in Positions
            /\ \A j \in 1..Len(q) : p[j] = q[j]
        BY <1>1, <3>2, OneStepMore
      <4>2. i \in 1..Len(q) \/ i = Len(q) + 1
        BY <2>5, <4>1 DEF Positions
      <4>3. CASE i = Len(q) + 1
        <5>1. SubSeq(p, 1, i - 1) = q
          BY <4>1, <4>3 DEF Positions
        <5>. QED BY <2>4, <5>1
      <4>4. CASE i \in 1..Len(q)
        <5>1. i \in DOMAIN q
          BY <4>1, <4>4 DEF Positions
        <5>2. SubSeq(q, 1, i - 1) \in Dividers(t)
          BY <4>1, <5>1 DEF IsTree
        <5>3. SubSeq(p, 1, i - 1) = SubSeq(q, 1, i - 1)
          BY <4>1, <4>4 DEF Positions
        <5>. QED BY <2>3, <5>2, <5>3
      <4>. QED BY <4>2, <4>3, <4>4
    <3>. QED BY <1>8, <3>1, <3>2
  <2>6. ASSUME NEW p \in Dividers(u), NEW side \in {0, 1}
        PROVE  Append(p, side) \in DOMAIN u
    <3>1. p \in DOMAIN u /\ u[p].type = "split"
      BY DEF Dividers, Leaves
    <3>2. CASE p \in at
      BY <1>5, <3>2 DEF new
    <3>3. CASE p \in DOMAIN t \ at
      <4>1. p \in Dividers(t)
        BY <1>7, <3>1, <3>3 DEF Dividers, Leaves
      <4>. QED BY <1>5, <4>1 DEF IsTree
    <3>4. ASSUME NEW q \in at, NEW s \in {0, 1}, p = Append(q, s) PROVE FALSE
      <4>1. p = Append(q, 0) \/ p = Append(q, 1)
        BY <3>4
      <4>. QED BY <1>6, <1>7, <3>1, <4>1
    <3>. QED BY <1>8, <3>1, <3>2, <3>3, <3>4
  <2>. QED BY <1>5, <2>1, <2>2, <2>5, <2>6 DEF IsTree, Positions
<1>. DEFINE F == {Append(q, 0) : q \in at}
            G == IF node.type = "pane" THEN {Append(q, 1) : q \in at} ELSE {}
<1>10. \A p \in F : p \in Panes(u) /\ u[p].id = x
  BY <1>6, <1>7 DEF Panes
<1>11. \A p \in G : p \in Panes(u) /\ u[p].id = node.id /\ node.type = "pane"
  BY <1>7 DEF Panes
<1>12. \A p \in Panes(t) : IF t[p].id = x THEN p \in at ELSE p \in Panes(u) /\ u[p] = t[p]
  BY <1>5, <1>7 DEF Panes, at
<1>13. ASSUME NEW p \in Panes(u) PROVE (p \in Panes(t) /\ t[p].id # x) \/ p \in F \/ p \in G
  <2>1. p \in DOMAIN u /\ u[p].type = "pane"
    BY DEF Panes
  <2>2. CASE p \in DOMAIN t
    BY <1>7, <2>1, <2>2 DEF Panes, at
  <2>3. ASSUME NEW q \in at, NEW side \in {0, 1}, p = Append(q, side) PROVE p \in F \/ p \in G
    BY <1>7, <2>1, <2>3
  <2>. QED BY <1>8, <2>1, <2>2, <2>3
<1>14. /\ x \in TerminalsIn(t) <=> at # {}
       /\ x \in TerminalsIn(t) <=> F # {}
       /\ x \in TerminalsIn(t) /\ node.type = "pane" <=> G # {}
  BY DEF at, TerminalsIn
<1>15. Once(t) => (\A p, q \in F : p = q) /\ (\A p, q \in G : p = q)
  BY DEF at, Once
<1>. HIDE DEF F, G
<1>16. TerminalsIn(u) = TerminalsIn(t) \union
           IF x \in TerminalsIn(t) /\ node.type = "pane" THEN {node.id} ELSE {}
  <2>1. ASSUME NEW y \in TerminalsIn(u)
        PROVE  y \in TerminalsIn(t) \/ (G # {} /\ y = node.id)
    <3>1. PICK p \in Panes(u) : u[p].id = y
      BY DEF TerminalsIn
    <3>. QED BY <1>10, <1>11, <1>12, <1>13, <1>14, <3>1 DEF TerminalsIn
  <2>2. TerminalsIn(t) \subseteq TerminalsIn(u)
    BY <1>10, <1>12, <1>14 DEF TerminalsIn
  <2>3. G # {} => node.id \in TerminalsIn(u)
    BY <1>11 DEF TerminalsIn
  <2>. QED BY <1>14, <2>1, <2>2, <2>3
<1>17. ASSUME Once(t), node.type = "pane" => node.id \notin TerminalsIn(t)
       PROVE  Once(u)
  <2>. SUFFICES ASSUME NEW p \in Panes(u), NEW q \in Panes(u), u[p].id = u[q].id
                PROVE  p = q
    BY DEF Once
  <2>1. \A r \in Panes(t) : t[r].id # node.id \/ node.type # "pane"
    BY <1>17 DEF TerminalsIn
  <2>2. F # {} => x # node.id \/ node.type # "pane"
    BY <1>14, <1>17
  <2>3. CASE p \in F
    BY <1>10, <1>11, <1>12, <1>13, <1>15, <1>17, <2>2, <2>3
  <2>4. CASE p \in G
    BY <1>10, <1>11, <1>12, <1>13, <1>15, <1>17, <2>1, <2>2, <2>4
  <2>5. CASE p \in Panes(t) /\ t[p].id # x
    <3>1. u[p] = t[p]
      BY <1>12, <2>5
    <3>2. q \notin F /\ q \notin G
      BY <1>10, <1>11, <2>1, <2>5, <3>1
    <3>3. q \in Panes(t) /\ u[q] = t[q]
      BY <1>12, <1>13, <3>2
    <3>. QED BY <1>17, <2>5, <3>1, <3>3 DEF Once
  <2>. QED BY <1>13, <2>3, <2>4, <2>5
<1>. QED BY <1>9, <1>16, <1>17 DEF u

\* Dragging a divider changes no leaf.
LEMMA RatioTree ==
    ASSUME NEW t, IsTree(t), NEW path, NEW ratio \in 1..9
    PROVE  LET u == RatioSet(t, path, ratio)
           IN  IsTree(u) /\ TerminalsIn(u) = TerminalsIn(t) /\ (Once(t) => Once(u))
<1>. DEFINE u == RatioSet(t, path, ratio)
<1>1. CASE path \notin Dividers(t)
  <2>1. u = t
    BY <1>1 DEF RatioSet
  <2>. QED BY <2>1
<1>2. CASE path \in Dividers(t)
  <2>1. path \in DOMAIN t /\ t[path].type = "split" /\ t[path] \in Nodes
    BY <1>2, TreeNodes DEF Dividers, Leaves
  <2>2. t[path] \in [type : {"split"}, direction : Directions, ratio : 1..9]
    BY <2>1 DEF Nodes
  <2>3. [t[path] EXCEPT !.ratio = ratio] \in [type : {"split"}, direction : Directions, ratio : 1..9]
    BY <2>2
  <2>. DEFINE n == [t[path] EXCEPT !.ratio = ratio]
  <2>4. n \in Nodes /\ n.type = "split"
    BY <2>3 DEF Nodes
  <2>5. u = [t EXCEPT ![path] = n]
    BY <1>2 DEF RatioSet
  <2>6. t = [p \in DOMAIN t |-> t[p]]
    BY DEF IsTree
  <2>. HIDE DEF n, u
  <2>7. /\ DOMAIN u = DOMAIN t /\ u = [p \in DOMAIN u |-> u[p]] /\ u[path] = n
        /\ \A p \in DOMAIN t : p # path => u[p] = t[p]
    BY <2>1, <2>5, <2>6
  <2>8. Dividers(u) = Dividers(t)
    BY <2>1, <2>4, <2>7 DEF Dividers, Leaves
  <2>9. IsTree(u)
    BY <2>1, <2>4, <2>7, <2>8 DEF IsTree
  <2>10. Panes(u) = Panes(t) /\ \A p \in Panes(t) : u[p] = t[p]
    BY <2>1, <2>4, <2>7 DEF Panes
  <2>. QED BY <2>9, <2>10 DEF TerminalsIn, Once, u
<1>. QED BY <1>1, <1>2

\* All of the indices have themselves as ranks.
LEMMA RanksOfAll ==
    ASSUME NEW n \in Nat
    PROVE  Cardinality(1..n) = n /\ \A i \in 1..n : Rank(1..n, i) = i
<1>1. \A m \in Nat : Cardinality(1..m) = m
  <2>. TAKE m \in Nat
  <2>1. 1 \in Int /\ m \in Int
    OBVIOUS
  <2>2. Cardinality(1..m) = IF 1 > m THEN 0 ELSE m - 1 + 1
    BY <2>1, FS_Interval
  <2>. QED BY <2>2
<1>2. \A i \in 1..n : Rank(1..n, i) = i
  <2>. TAKE i \in 1..n
  <2>1. {j \in 1..n : j <= i} = 1..i /\ i \in Nat
    OBVIOUS
  <2>2. Rank(1..n, i) = Cardinality(1..i)
    BY <2>1 DEF Rank
  <2>. QED BY <1>1, <2>1, <2>2
<1>. QED BY <1>1, <1>2

\* All of a sequence is the sequence.
LEMMA WholeSequence ==
    ASSUME NEW S, NEW q \in Seq(S)
    PROVE  Subsequence(q, DOMAIN q) = q
<1>. DEFINE I == DOMAIN q
            n == Len(q)
<1>1. n \in Nat /\ I = 1..n
  OBVIOUS
<1>2. Subsequence(q, I) \in Seq(S) /\ DOMAIN Subsequence(q, I) = 1..n
      /\ \A i \in I : Subsequence(q, I)[i] = q[i]
  BY <1>1, RanksOfAll, SubsequenceElements
<1>. HIDE DEF I
<1>3. Len(Subsequence(q, I)) = n
  BY <1>1, <1>2
<1>4. Subsequence(q, I) = q
  BY <1>1, <1>2, <1>3
<1>. QED BY <1>4 DEF I

\* Below every node is a leaf.
LEMMA LeafBelow ==
    ASSUME NEW t, IsTree(t), NEW p \in DOMAIN t
    PROVE  \E q \in Leaves(t) : IsPrefix(p, q)
<1>. DEFINE D == DOMAIN t
            Under(q) == {r \in D : IsPrefix(q, r)}
            P == {q \in D : IsPrefix(p, q)}
            Unders == {Under(q) : q \in P}
<1>1. IsFiniteSet(D) /\ \A q \in D : q \in Positions
  BY TreeNodes
<1>2. p \in P
  BY <1>1, PrefixOrder
<1>3. Unders \subseteq FiniteSubsetsOf(D) /\ Unders # {}
  <2>1. \A q \in P : Under(q) \subseteq D /\ IsFiniteSet(Under(q))
    <3>. TAKE q \in P
    <3>1. Under(q) \subseteq D
      OBVIOUS
    <3>. QED BY <1>1, <3>1, FS_Subset
  <2>. QED BY <1>2, <2>1 DEF FiniteSubsetsOf
<1>4. PICK X \in Unders : \A Y \in Unders : ~(<<Y, X>> \in StrictSubsetOrdering(D))
  <2>. HIDE DEF Unders, D
  <2>. QED BY <1>1, <1>3, FS_StrictSubsetOrderingWellFounded, WFMin
<1>5. PICK q \in P : X = Under(q)
  OBVIOUS
<1>6. q \in D /\ q \in Positions /\ IsPrefix(p, q)
  BY <1>1
<1>7. ASSUME t[q].type = "split" PROVE FALSE
  <2>. DEFINE r == Append(q, 0)
  <2>1. r \in D /\ r \in Positions /\ IsPrefix(q, r) /\ Len(r) = Len(q) + 1
    BY <1>1, <1>6, <1>7, TreeShape, OneStepMore
  <2>. HIDE DEF r
  <2>2. r \in P
    BY <1>1, <1>6, <2>1, PrefixOrder
  <2>3. \A m \in Under(r) : m \in Under(q)
    BY <1>1, <1>6, <2>1, PrefixOrder
  <2>4. q \in Under(q)
    BY <1>6, PrefixOrder
  <2>5. q \notin Under(r)
    <3>1. Len(q) \in Nat
      BY <1>6 DEF Positions
    <3>. QED BY <1>6, <2>1, <3>1, PrefixSteps
  <2>6. Under(r) \in Unders /\ Under(r) \subseteq Under(q) /\ Under(r) # Under(q)
    BY <2>2, <2>3, <2>4, <2>5
  <2>7. <<Under(r), Under(q)>> \in StrictSubsetOrdering(D)
    BY <2>6 DEF StrictSubsetOrdering
  <2>. QED BY <1>4, <1>5, <2>6, <2>7
<1>. QED BY <1>6, <1>7 DEF Leaves

\* A tree whose leaves are all kept stays as it is.
LEMMA PrunedToAll ==
    ASSUME NEW t, IsTree(t), NEW kept, LeavesIn(t) \subseteq kept
    PROVE  Pruned(t, kept) = t
<1>1. \A p \in DOMAIN t : p \in Positions /\ KeptBelow(t, kept, p)
  BY TreeNodes, LeafBelow DEF KeptBelow, LeavesIn
<1>2. ASSUME NEW p \in DOMAIN t, NEW i \in DOMAIN p PROVE Beside(p, i) \in DOMAIN t
  <2>. DEFINE s == SubSeq(p, 1, i - 1)
  <2>1. s \in DOMAIN t /\ t[s].type = "split"
    BY TreeShape
  <2>2. Append(s, 0) \in DOMAIN t /\ Append(s, 1) \in DOMAIN t
    BY <2>1, TreeShape
  <2>3. p[i] \in {0, 1}
    BY <1>1 DEF Positions
  <2>4. 1 - p[i] \in {0, 1}
    BY <2>3
  <2>. QED BY <2>2, <2>4 DEF Beside
<1>3. ASSUME NEW p \in DOMAIN t PROVE NewPosition(t, kept, p) = p
  <2>1. Steps(t, kept, p) = DOMAIN p
    BY <1>1, <1>2 DEF Steps
  <2>2. NewPosition(t, kept, p) = Subsequence(p, DOMAIN p)
    BY <2>1 DEF NewPosition, Steps
  <2>3. p \in Seq({0, 1})
    BY <1>1 DEF Positions
  <2>. QED BY <2>2, <2>3, WholeSequence
<1>4. Remaining(t, kept) = DOMAIN t
  <2>1. \A p \in DOMAIN t : t[p].type = "split" => \A side \in {0, 1} : KeptBelow(t, kept, Append(p, side))
    BY <1>1, TreeShape
  <2>2. \A p \in DOMAIN t : t[p].type # "split" => t[p] \in kept
    BY DEF LeavesIn, Leaves
  <2>. QED BY <2>1, <2>2 DEF Remaining
<1>5. DOMAIN Pruned(t, kept) = DOMAIN t /\ \A p \in DOMAIN t : Pruned(t, kept)[p] = t[p]
  BY <1>3, <1>4, PrunedNodes
<1>6. t = [p \in DOMAIN t |-> t[p]]
  BY DEF IsTree
<1>7. Pruned(t, kept) = [p \in DOMAIN Pruned(t, kept) |-> Pruned(t, kept)[p]]
  BY DEF Pruned
<1>. QED BY <1>5, <1>6, <1>7

\* The leaves of a pruned tree are leaves of the tree that are kept.
LEMMA LeavesKept ==
    ASSUME NEW t, IsTree(t), NEW kept
    PROVE  LeavesIn(Pruned(t, kept)) \subseteq LeavesIn(t) \intersect kept
<1>. DEFINE u == Pruned(t, kept)
<1>1. DOMAIN u = {NewPosition(t, kept, p) : p \in Remaining(t, kept)}
      /\ \A p \in Remaining(t, kept) : u[NewPosition(t, kept, p)] = t[p]
  BY PrunedNodes
<1>. HIDE DEF u
<1>2. ASSUME NEW q \in Leaves(u) PROVE u[q] \in LeavesIn(t) \intersect kept
  <2>1. PICK p \in Remaining(t, kept) : q = NewPosition(t, kept, p)
    BY <1>1 DEF Leaves
  <2>2. u[q] = t[p] /\ t[p].type # "split" /\ p \in DOMAIN t
    BY <1>1, <2>1 DEF Leaves, Remaining
  <2>3. t[p] \in kept
    BY <2>2 DEF Remaining
  <2>. QED BY <2>2, <2>3 DEF LeavesIn, Leaves
<1>. QED BY <1>2 DEF LeavesIn, u

-----------------------------------------------------------------------------
(* The reducer.                                                             *)

\* The index of I with a rank; where a subsequence's elements come from.
Source(I, k) == CHOOSE i \in I : Rank(I, i) = k

\* Each index of I is the source of one rank, and of no other.
LEMMA Sources ==
    ASSUME NEW n \in Nat, NEW I, I \subseteq 1..n
    PROVE  /\ Cardinality(I) \in Nat
           /\ \A k \in 1..Cardinality(I) : Source(I, k) \in I /\ Source(I, k) \in 1..n
           /\ \A k, l \in 1..Cardinality(I) : Source(I, k) = Source(I, l) => k = l
           /\ \A i \in I : \E k \in 1..Cardinality(I) : Source(I, k) = i
<1>1. /\ Cardinality(I) \in Nat
      /\ \A i \in I : Rank(I, i) \in 1..Cardinality(I)
      /\ \A i, j \in I : i < j => Rank(I, i) < Rank(I, j)
      /\ \A k \in 1..Cardinality(I) : \E i \in I : Rank(I, i) = k
  BY Ranks
<1>2. \A k \in 1..Cardinality(I) : Source(I, k) \in I /\ Rank(I, Source(I, k)) = k
  BY <1>1 DEF Source
<1>3. \A i, j \in I : Rank(I, i) = Rank(I, j) => i = j
  <2>1. \A i \in I : i \in Nat /\ Rank(I, i) \in Nat
    BY <1>1
  <2>. QED BY <1>1, <2>1
<1>4. \A i \in I : Source(I, Rank(I, i)) = i
  BY <1>1, <1>2, <1>3
<1>. QED BY <1>1, <1>2, <1>4

\* A subsequence, by its sources.
LEMMA SubsequenceSource ==
    ASSUME NEW S, NEW q \in Seq(S), NEW I, I \subseteq DOMAIN q
    PROVE  /\ Subsequence(q, I) \in Seq(S)
           /\ Subsequence(q, I) = [k \in 1..Cardinality(I) |-> q[Source(I, k)]]
           /\ Len(Subsequence(q, I)) = Cardinality(I)
<1>1. /\ Subsequence(q, I) \in Seq(S)
      /\ Len(Subsequence(q, I)) = Cardinality(I)
  BY SubsequenceElements
<1>2. Subsequence(q, I) = [k \in 1..Cardinality(I) |-> q[Source(I, k)]]
  BY Zenon DEF Subsequence, Source, Rank
<1>. QED BY <1>1, <1>2

\* A function on the indices of a sequence is a sequence.
LEMMA MappedSeq ==
    ASSUME NEW n \in Nat, NEW S, NEW f, f = [i \in 1..n |-> f[i]], \A i \in 1..n : f[i] \in S
    PROVE  f \in Seq(S) /\ Len(f) = n
<1>1. f \in [1..n -> S]
  OBVIOUS
<1>. QED BY <1>1

-----------------------------------------------------------------------------
(* The shapes of tabs and workspaces.                                       *)

\* Ids of terminals, tabs and workspaces, and what a tab and a workspace are.
Id == Nat \ {0}
Trees == {t \in UNION {[D -> Nodes] : D \in SUBSET Positions} : IsTree(t)}
Tabs == [id : Id, title : {"given", "renamed"}, root : Trees, activeTerminal : Id]
Workspaces == [id : Id, title : {"given", "renamed"}, tabs : Seq(Tabs), activeTab : Nat]

\* Every tree has positions for its domain.
LEMMA TreesAreTrees == \A t : t \in Trees <=> IsTree(t)
<1>1. ASSUME NEW t, IsTree(t) PROVE t \in [DOMAIN t -> Nodes] /\ DOMAIN t \in SUBSET Positions
  BY <1>1 DEF IsTree, Positions
<1>. QED BY <1>1 DEF Trees

\* A tab's terminal is in one pane, and the active one has a pane.
Focused(tab) == tab.activeTerminal \in TerminalsIn(tab.root)

\* A new tab.
LEMMA NewTab ==
    ASSUME NEW x \in Id
    PROVE  /\ TabFor(x) \in Tabs /\ TabFor(x).id = x /\ TerminalsIn(TabFor(x).root) = {x}
           /\ Once(TabFor(x).root) /\ Focused(TabFor(x))
<1>1. Leaf(Pane(x)) \in Trees /\ TerminalsIn(Leaf(Pane(x))) = {x} /\ Once(Leaf(Pane(x)))
  BY LeafTree, TreesAreTrees DEF Id
<1>2. /\ TabFor(x) = [id |-> x, title |-> "given", root |-> Leaf(Pane(x)), activeTerminal |-> x]
      /\ TabFor(x).id = x /\ TabFor(x).root = Leaf(Pane(x)) /\ TabFor(x).activeTerminal = x
  BY DEF TabFor
<1>. DEFINE leaf == Leaf(Pane(x))
<1>3. leaf \in Trees
  BY <1>1
<1>. HIDE DEF leaf
<1>4. [id |-> x, title |-> "given", root |-> leaf, activeTerminal |-> x] \in Tabs
  BY <1>3 DEF Tabs
<1>. QED BY <1>1, <1>2, <1>4 DEF Focused, leaf

\* The terminals of a tree are positive numbers.
LEMMA TerminalIds ==
    ASSUME NEW t \in Trees PROVE TerminalsIn(t) \subseteq Id
BY TreesAreTrees, TreeNodes DEF TerminalsIn, Id

\* A tab that keeps a terminal is pruned to one with its active terminal.
LEMMA TabPruned ==
    ASSUME NEW tab \in Tabs, NEW kept, TerminalsIn(Pruned(tab.root, kept)) # {}
    PROVE  /\ PrunedTab(tab, kept) \in Tabs /\ PrunedTab(tab, kept).id = tab.id
           /\ TerminalsIn(PrunedTab(tab, kept).root) = {x \in TerminalsIn(tab.root) : Pane(x) \in kept}
           /\ Once(tab.root) => Once(PrunedTab(tab, kept).root)
           /\ Focused(PrunedTab(tab, kept)) /\ TerminalsIn(PrunedTab(tab, kept).root) # {}
<1>. DEFINE root == Pruned(tab.root, kept)
            active == ActiveAmong(tab, root)
<1>1. tab.root \in Trees /\ IsTree(tab.root)
  BY TreesAreTrees DEF Tabs
<1>2. /\ IsTree(root) /\ root \in Trees
      /\ TerminalsIn(root) = {x \in TerminalsIn(tab.root) : Pane(x) \in kept}
      /\ Once(tab.root) => Once(root)
  BY <1>1, PrunedTree, TreesAreTrees
<1>3. active \in TerminalsIn(root)
  BY <1>2, FirstTerminalIn DEF ActiveAmong, ContainsTerminal
<1>4. active \in Id
  BY <1>2, <1>3, TerminalIds
<1>5. PrunedTab(tab, kept) = [tab EXCEPT !.root = root, !.activeTerminal = active]
  BY DEF PrunedTab
<1>. HIDE DEF root, active
<1>6. /\ PrunedTab(tab, kept) \in Tabs /\ PrunedTab(tab, kept).id = tab.id
      /\ PrunedTab(tab, kept).root = root /\ PrunedTab(tab, kept).activeTerminal = active
  BY <1>2, <1>4, <1>5 DEF Tabs
<1>. QED BY <1>2, <1>3, <1>6 DEF Focused

\* The tabs that keep a terminal stay, in their order.
Keeping(tabs, kept) == {i \in DOMAIN tabs : \E x \in TerminalsIn(tabs[i].root) : Pane(x) \in kept}

\* The tabs that stay have the terminals that are kept, each as often as
\* before, and one of them is active.
LEMMA TabsPruned ==
    ASSUME NEW tabs \in Seq(Tabs), NEW kept
    PROVE  LET u == PrunedTabs(tabs, kept)
               n == Cardinality(Keeping(tabs, kept))
           IN  /\ u \in Seq(Tabs) /\ n \in Nat /\ DOMAIN u = 1..n
               /\ \A k \in 1..n : LET old == tabs[Source(Keeping(tabs, kept), k)] IN
                    /\ u[k].id = old.id
                    /\ TerminalsIn(u[k].root) = {x \in TerminalsIn(old.root) : Pane(x) \in kept}
                    /\ TerminalsIn(u[k].root) # {}
                    /\ Once(old.root) => Once(u[k].root)
                    /\ Focused(u[k])
<1>. DEFINE I == Keeping(tabs, kept)
            n == Cardinality(I)
            u == PrunedTabs(tabs, kept)
            at(k) == Source(I, k)
<1>1. DOMAIN tabs = 1..Len(tabs) /\ Len(tabs) \in Nat
  OBVIOUS
<1>2. \A i \in DOMAIN tabs : tabs[i] \in Tabs /\ tabs[i].root \in Trees /\ IsTree(tabs[i].root)
  <2>. TAKE i \in DOMAIN tabs
  <2>1. tabs[i] \in Tabs
    OBVIOUS
  <2>. QED BY <2>1, TreesAreTrees DEF Tabs
<1>3. {i \in DOMAIN tabs : TerminalsIn(Pruned(tabs[i].root, kept)) # {}} = I
  <2>. SUFFICES ASSUME NEW i \in DOMAIN tabs
                PROVE  TerminalsIn(Pruned(tabs[i].root, kept)) # {}
                          <=> \E x \in TerminalsIn(tabs[i].root) : Pane(x) \in kept
    BY DEF Keeping
  <2>. QED BY <1>2, PrunedTree
<1>4. I \subseteq 1..Len(tabs)
  BY <1>1 DEF Keeping
<1>5. /\ n \in Nat
      /\ \A k \in 1..n : at(k) \in I /\ at(k) \in DOMAIN tabs
  BY <1>1, <1>4, Sources
<1>6. \A i \in I : TerminalsIn(Pruned(tabs[i].root, kept)) # {}
  BY <1>3
<1>. DEFINE left == Subsequence(tabs, I)
<1>7. u = [k \in DOMAIN left |-> PrunedTab(left[k], kept)]
  BY <1>3 DEF PrunedTabs
<1>8. left = [k \in 1..n |-> tabs[at(k)]]
  BY <1>1, <1>4, SubsequenceSource
<1>. HIDE DEF I, left, at
<1>9. u = [k \in 1..n |-> PrunedTab(tabs[at(k)], kept)]
  BY <1>7, <1>8
<1>. HIDE DEF u, n
<1>10. \A k \in 1..n : /\ u[k] \in Tabs /\ u[k].id = tabs[at(k)].id
                       /\ TerminalsIn(u[k].root) = {x \in TerminalsIn(tabs[at(k)].root) : Pane(x) \in kept}
                       /\ TerminalsIn(u[k].root) # {}
                       /\ (Once(tabs[at(k)].root) => Once(u[k].root))
                       /\ Focused(u[k])
  <2>. TAKE k \in 1..n
  <2>. DEFINE old == tabs[at(k)]
  <2>1. /\ old \in Tabs /\ TerminalsIn(Pruned(old.root, kept)) # {}
        /\ u[k] = PrunedTab(old, kept)
    BY <1>2, <1>5, <1>6, <1>9
  <2>. HIDE DEF old
  <2>2. /\ u[k] \in Tabs /\ u[k].id = old.id
        /\ TerminalsIn(u[k].root) = {x \in TerminalsIn(old.root) : Pane(x) \in kept}
        /\ TerminalsIn(u[k].root) # {}
        /\ (Once(old.root) => Once(u[k].root))
        /\ Focused(u[k])
    BY <2>1, TabPruned
  <2>. QED BY <2>2 DEF old
<1>11. u \in Seq(Tabs) /\ DOMAIN u = 1..n
  <2>1. u = [k \in 1..n |-> u[k]]
    BY <1>9
  <2>2. \A k \in 1..n : u[k] \in Tabs
    BY <1>10
  <2>3. u \in Seq(Tabs)
    BY <1>5, <2>1, <2>2, MappedSeq
  <2>. QED BY <2>1, <2>3
<1>. QED BY <1>5, <1>10, <1>11 DEF u, n, at, I

\* Tabs whose ids and whose terminals differ.
ApartTabs(tabs) ==
    /\ \A j \in DOMAIN tabs : Once(tabs[j].root)
    /\ \A j, k \in DOMAIN tabs : tabs[j].id = tabs[k].id => j = k
    /\ \A j, k \in DOMAIN tabs, x \in Id :
          x \in TerminalsIn(tabs[j].root) /\ x \in TerminalsIn(tabs[k].root) => j = k

\* Two tabs may have the same id once the state is tangled; the command that
\* focuses a pane focuses it in both.
SomeFocused(tabs) ==
    \A j \in DOMAIN tabs : \E k \in DOMAIN tabs : tabs[k].id = tabs[j].id /\ Focused(tabs[k])
\* A workspace as every step leaves it, tangled or not.
ActiveTabExists(w) == IF w.tabs = <<>> THEN w.activeTab = NoId ELSE w.activeTab \in Ids(w.tabs)
Proper(w) == w \in Workspaces /\ SomeFocused(w.tabs) /\ ActiveTabExists(w)

\* Workspaces with ids of their own; terminals that are shown once; the ids
\* that tabs have.
IdsDiffer(ws) == \A i, k \in DOMAIN ws : ws[i].id = ws[k].id => i = k
Apart(ws) ==
    /\ \A i \in DOMAIN ws : ApartTabs(ws[i].tabs)
    /\ \A i, k \in DOMAIN ws, x \in Id :
          x \in TerminalsOf(ws[i]) /\ x \in TerminalsOf(ws[k]) => i = k

TabIds(ws) == UNION {Ids(w.tabs) : w \in ToSet(ws)}

\* A workspace shows what its tabs show.
LEMMA TerminalsOfTabs ==
    ASSUME NEW w
    PROVE  \A x : x \in TerminalsOf(w) <=> \E j \in DOMAIN w.tabs : x \in TerminalsIn(w.tabs[j].root)
BY DEF TerminalsOf, ToSet

\* Several workspaces show what each shows.
LEMMA ShownInWorkspaces ==
    ASSUME NEW ws
    PROVE  /\ \A x : x \in ShownIn(ws) <=> \E i \in DOMAIN ws : x \in TerminalsOf(ws[i])
           /\ \A x : x \in TabIds(ws) <=> \E i \in DOMAIN ws : x \in Ids(ws[i].tabs)
BY DEF ShownIn, TabIds, ToSet

\* All terminals shown are ids.
LEMMA ShownIds ==
    ASSUME NEW w \in Workspaces
    PROVE  TerminalsOf(w) \subseteq Id /\ Ids(w.tabs) \subseteq Id
<1>1. w.tabs \in Seq(Tabs)
  BY DEF Workspaces
<1>2. \A j \in DOMAIN w.tabs : w.tabs[j] \in Tabs
  BY <1>1
<1>3. \A tab \in Tabs : tab.root \in Trees /\ tab.id \in Id
  BY DEF Tabs
<1>4. \A j \in DOMAIN w.tabs : TerminalsIn(w.tabs[j].root) \subseteq Id
  BY <1>2, <1>3, TerminalIds
<1>. QED BY <1>2, <1>3, <1>4, TerminalsOfTabs DEF Ids

\* NormalizeActiveTab finds an active tab.
LEMMA Normalized ==
    ASSUME NEW w \in Workspaces
    PROVE  LET v == NormalizeActiveTab(w)
           IN  /\ v \in Workspaces /\ v.id = w.id /\ v.tabs = w.tabs /\ ActiveTabExists(v)
<1>1. w.tabs \in Seq(Tabs) /\ w.activeTab \in Nat /\ w.id \in Id
  BY DEF Workspaces
<1>2. w.tabs # <<>> => w.tabs[1].id \in Id /\ w.tabs[1].id \in Ids(w.tabs)
  <2>. HAVE w.tabs # <<>>
  <2>1. 1 \in DOMAIN w.tabs /\ w.tabs[1] \in Tabs
    BY <1>1
  <2>. QED BY <2>1 DEF Tabs, Ids
<1>. DEFINE a == IF w.activeTab \in Ids(w.tabs) THEN w.activeTab
                 ELSE IF w.tabs = <<>> THEN NoId ELSE w.tabs[1].id
<1>3. NormalizeActiveTab(w) = [w EXCEPT !.activeTab = a]
  BY DEF NormalizeActiveTab
<1>4. a \in Nat /\ IF w.tabs = <<>> THEN a = NoId ELSE a \in Ids(w.tabs)
  BY <1>1, <1>2 DEF Id, Ids, NoId
<1>. HIDE DEF a
<1>. QED BY <1>3, <1>4 DEF ActiveTabExists, Workspaces

\* A workspace pruned to the leaves in kept.
LEMMA WorkspacePruned ==
    ASSUME NEW w \in Workspaces, NEW kept
    PROVE  LET v == PrunedWorkspace(w, kept)
           IN  /\ Proper(v) /\ v.id = w.id
               /\ \A x : x \in TerminalsOf(v) <=> x \in TerminalsOf(w) /\ Pane(x) \in kept
               /\ ApartTabs(w.tabs) => ApartTabs(v.tabs)
               /\ \A id \in Ids(v.tabs) : \E j \in DOMAIN w.tabs :
                     w.tabs[j].id = id /\ \E x \in TerminalsIn(w.tabs[j].root) : Pane(x) \in kept
<1>. DEFINE v == PrunedWorkspace(w, kept)
            u == PrunedTabs(w.tabs, kept)
            I == Keeping(w.tabs, kept)
            n == Cardinality(I)
            at(k) == Source(I, k)
<1>1. w.tabs \in Seq(Tabs) /\ DOMAIN w.tabs = 1..Len(w.tabs) /\ Len(w.tabs) \in Nat
  BY DEF Workspaces
<1>2. /\ u \in Seq(Tabs) /\ n \in Nat /\ DOMAIN u = 1..n
      /\ \A k \in 1..n : /\ u[k].id = w.tabs[at(k)].id
                         /\ TerminalsIn(u[k].root) = {x \in TerminalsIn(w.tabs[at(k)].root) : Pane(x) \in kept}
                         /\ TerminalsIn(u[k].root) # {}
                         /\ (Once(w.tabs[at(k)].root) => Once(u[k].root))
                         /\ Focused(u[k])
  BY <1>1, TabsPruned
<1>3. I \subseteq 1..Len(w.tabs)
  BY <1>1 DEF Keeping
<1>4. /\ \A k \in 1..n : at(k) \in I /\ at(k) \in DOMAIN w.tabs
      /\ \A k, l \in 1..n : at(k) = at(l) => k = l
      /\ \A i \in I : \E k \in 1..n : at(k) = i
  BY <1>1, <1>3, Sources
<1>5. \A i \in DOMAIN w.tabs : i \in I <=> \E x \in TerminalsIn(w.tabs[i].root) : Pane(x) \in kept
  BY DEF Keeping
<1>6. /\ v \in Workspaces /\ v.id = w.id /\ v.tabs = u /\ ActiveTabExists(v)
  <2>. DEFINE w1 == [w EXCEPT !.tabs = u]
  <2>. HIDE DEF u
  <2>1. w1 \in Workspaces /\ w1.id = w.id /\ w1.tabs = u
    BY <1>2 DEF Workspaces
  <2>2. v = NormalizeActiveTab(w1)
    BY DEF PrunedWorkspace, u
  <2>. HIDE DEF w1, v
  <2>. QED BY <2>1, <2>2, Normalized
<1>. HIDE DEF v, u, I, n, at
<1>7. SomeFocused(v.tabs)
  BY <1>2, <1>6 DEF SomeFocused
<1>8. \A x : x \in TerminalsOf(v) <=> x \in TerminalsOf(w) /\ Pane(x) \in kept
  <2>1. \A x : x \in TerminalsOf(v) <=> \E k \in 1..n : x \in TerminalsIn(u[k].root)
    BY <1>2, <1>6, TerminalsOfTabs
  <2>2. \A x : x \in TerminalsOf(w) <=> \E j \in DOMAIN w.tabs : x \in TerminalsIn(w.tabs[j].root)
    BY TerminalsOfTabs
  <2>. TAKE x
  <2>3. ASSUME x \in TerminalsOf(v) PROVE x \in TerminalsOf(w) /\ Pane(x) \in kept
    BY <1>2, <1>4, <2>1, <2>2, <2>3
  <2>4. ASSUME x \in TerminalsOf(w), Pane(x) \in kept PROVE x \in TerminalsOf(v)
    <3>1. PICK j \in DOMAIN w.tabs : x \in TerminalsIn(w.tabs[j].root)
      BY <2>2, <2>4
    <3>2. PICK k \in 1..n : at(k) = j
      BY <1>4, <1>5, <2>4, <3>1
    <3>. QED BY <1>2, <2>1, <2>4, <3>1, <3>2
  <2>. QED BY <2>3, <2>4
<1>9. ASSUME ApartTabs(w.tabs) PROVE ApartTabs(v.tabs)
  <2>1. \A k \in 1..n : Once(u[k].root)
    BY <1>2, <1>4, <1>9 DEF ApartTabs
  <2>2. \A k, l \in 1..n : u[k].id = u[l].id => k = l
    BY <1>2, <1>4, <1>9 DEF ApartTabs
  <2>3. ASSUME NEW k \in 1..n, NEW l \in 1..n, NEW x \in Id,
               x \in TerminalsIn(u[k].root), x \in TerminalsIn(u[l].root)
        PROVE  k = l
    <3>1. x \in TerminalsIn(w.tabs[at(k)].root) /\ x \in TerminalsIn(w.tabs[at(l)].root)
      BY <1>2, <2>3
    <3>2. at(k) = at(l)
      BY <1>4, <1>9, <3>1 DEF ApartTabs
    <3>. QED BY <1>4, <3>2
  <2>. QED BY <1>2, <1>6, <2>1, <2>2, <2>3 DEF ApartTabs
<1>10. \A id \in Ids(v.tabs) : \E j \in DOMAIN w.tabs :
          w.tabs[j].id = id /\ \E x \in TerminalsIn(w.tabs[j].root) : Pane(x) \in kept
  <2>. TAKE id \in Ids(v.tabs)
  <2>1. PICK k \in 1..n : u[k].id = id
    BY <1>2, <1>6 DEF Ids
  <2>. QED BY <1>2, <1>4, <1>5, <2>1
<1>. QED BY <1>6, <1>7, <1>8, <1>9, <1>10 DEF Proper, v

\* Several workspaces.
LEMMA WorkspacesPruned ==
    ASSUME NEW ws \in Seq(Workspaces), NEW kept
    PROVE  LET vs == PrunedWorkspaces(ws, kept)
           IN  /\ vs \in Seq(Workspaces) /\ DOMAIN vs = DOMAIN ws /\ Len(vs) = Len(ws)
               /\ \A i \in DOMAIN vs : vs[i] = PrunedWorkspace(ws[i], kept) /\ Proper(vs[i]) /\ vs[i].id = ws[i].id
               /\ Ids(vs) = Ids(ws) /\ (IdsDiffer(ws) => IdsDiffer(vs))
               /\ \A x : x \in ShownIn(vs) <=> x \in ShownIn(ws) /\ Pane(x) \in kept
               /\ Apart(ws) => Apart(vs)
               /\ TabIds(vs) \subseteq TabIds(ws)
<1>. DEFINE vs == PrunedWorkspaces(ws, kept)
<1>1. DOMAIN ws = 1..Len(ws) /\ Len(ws) \in Nat /\ \A i \in DOMAIN ws : ws[i] \in Workspaces
  OBVIOUS
<1>2. vs = [i \in 1..Len(ws) |-> PrunedWorkspace(ws[i], kept)]
  BY <1>1 DEF PrunedWorkspaces
<1>. HIDE DEF vs
<1>3. \A i \in DOMAIN ws :
         /\ vs[i] = PrunedWorkspace(ws[i], kept)
         /\ Proper(vs[i]) /\ vs[i].id = ws[i].id
         /\ \A x : x \in TerminalsOf(vs[i]) <=> x \in TerminalsOf(ws[i]) /\ Pane(x) \in kept
         /\ (ApartTabs(ws[i].tabs) => ApartTabs(vs[i].tabs))
         /\ Ids(vs[i].tabs) \subseteq Ids(ws[i].tabs)
  <2>. TAKE i \in DOMAIN ws
  <2>1. ws[i] \in Workspaces /\ vs[i] = PrunedWorkspace(ws[i], kept)
    BY <1>1, <1>2
  <2>2. /\ Proper(vs[i]) /\ vs[i].id = ws[i].id
        /\ \A x : x \in TerminalsOf(vs[i]) <=> x \in TerminalsOf(ws[i]) /\ Pane(x) \in kept
        /\ (ApartTabs(ws[i].tabs) => ApartTabs(vs[i].tabs))
        /\ \A id \in Ids(vs[i].tabs) : \E j \in DOMAIN ws[i].tabs : ws[i].tabs[j].id = id
    BY <2>1, WorkspacePruned
  <2>. QED BY <2>1, <2>2 DEF Ids
<1>4. vs \in Seq(Workspaces) /\ DOMAIN vs = DOMAIN ws /\ Len(vs) = Len(ws)
  <2>1. \A i \in 1..Len(ws) : vs[i] \in Workspaces
    BY <1>1, <1>3 DEF Proper
  <2>2. vs = [i \in 1..Len(ws) |-> vs[i]]
    BY <1>2
  <2>3. vs \in Seq(Workspaces) /\ Len(vs) = Len(ws)
    BY <1>1, <2>1, <2>2, MappedSeq
  <2>. QED BY <1>1, <2>2, <2>3
<1>5. Ids(vs) = Ids(ws) /\ (IdsDiffer(ws) => IdsDiffer(vs))
  BY <1>3, <1>4 DEF Ids, IdsDiffer
<1>6. \A x : x \in ShownIn(vs) <=> x \in ShownIn(ws) /\ Pane(x) \in kept
  BY <1>3, <1>4, ShownInWorkspaces
<1>7. Apart(ws) => Apart(vs)
  BY <1>3, <1>4 DEF Apart
<1>8. TabIds(vs) \subseteq TabIds(ws)
  BY <1>3, <1>4, ShownInWorkspaces
<1>. QED BY <1>3, <1>4, <1>5, <1>6, <1>7, <1>8 DEF vs

-----------------------------------------------------------------------------
(* The order of the tabs that were restored for terminals that the stored   *)
(* layout lacks.                                                            *)

\* In q, x comes before y.
Precedes(q, x, y) == \E k, l \in DOMAIN q : k < l /\ q[k] = x /\ q[l] = y

\* The elements of r follow each other in q as in r; so do tabs with their ids.
Sorted(q, r) == \A k, l \in DOMAIN r : k < l => Precedes(q, r[k], r[l])
TabsSorted(tabs, r) ==
    \A k, l \in DOMAIN r : k < l =>
        \E i, j \in DOMAIN tabs : i < j /\ tabs[i].id = r[k] /\ tabs[j].id = r[l]

\* The tabs with an id of S show this terminal, and follow each other as the
\* terminals do in q.
InOrder(tabs, q, S) ==
    /\ \A j \in DOMAIN tabs : tabs[j].id \in S => tabs[j].id \in TerminalsIn(tabs[j].root)
    /\ \A j, k \in DOMAIN tabs :
          j < k /\ tabs[j].id \in S /\ tabs[k].id \in S => Precedes(q, tabs[j].id, tabs[k].id)
OwnTabs(ws, q, S) == \A i \in DOMAIN ws : InOrder(ws[i].tabs, q, S)

\* A subsequence keeps the order.
LEMMA SourcesInOrder ==
    ASSUME NEW n \in Nat, NEW I, I \subseteq 1..n
    PROVE  \A k, l \in 1..Cardinality(I) : k < l => Source(I, k) < Source(I, l)
<1>. TAKE k, l \in 1..Cardinality(I)
<1>. HAVE k < l
<1>1. /\ Cardinality(I) \in Nat
      /\ \A i \in I : Rank(I, i) \in 1..Cardinality(I)
      /\ \A i, j \in I : i < j => Rank(I, i) < Rank(I, j)
      /\ \A m \in 1..Cardinality(I) : \E i \in I : Rank(I, i) = m
  BY Ranks
<1>2. \A m \in 1..Cardinality(I) : Source(I, m) \in I /\ Rank(I, Source(I, m)) = m
  BY <1>1 DEF Source
<1>. DEFINE x == Source(I, k)
            y == Source(I, l)
<1>3. x \in I /\ y \in I /\ Rank(I, x) = k /\ Rank(I, y) = l /\ x \in 1..n /\ y \in 1..n
  BY <1>2
<1>. HIDE DEF x, y
<1>4. ~(y < x) /\ y # x
  BY <1>1, <1>3
<1>5. x < y
  BY <1>3, <1>4
<1>. QED BY <1>5 DEF x, y

\* Pruning keeps the order, and the tabs' own terminals when they are kept.
LEMMA TabsStayInOrder ==
    ASSUME NEW tabs \in Seq(Tabs), NEW q, NEW S, NEW kept, InOrder(tabs, q, S),
           \A j \in DOMAIN tabs : \A x \in TerminalsIn(tabs[j].root) : x \in S => Pane(x) \in kept
    PROVE  InOrder(PrunedTabs(tabs, kept), q, S)
<1>. DEFINE I == Keeping(tabs, kept)
            n == Cardinality(I)
            u == PrunedTabs(tabs, kept)
<1>1. /\ n \in Nat /\ DOMAIN u = 1..n
      /\ \A k \in 1..n : LET old == tabs[Source(I, k)] IN
           /\ u[k].id = old.id
           /\ TerminalsIn(u[k].root) = {x \in TerminalsIn(old.root) : Pane(x) \in kept}
  BY TabsPruned
<1>2. Len(tabs) \in Nat /\ DOMAIN tabs = 1..Len(tabs) /\ I \subseteq 1..Len(tabs)
  BY DEF Keeping
<1>. HIDE DEF I, u
<1>3. \A k \in 1..n : Source(I, k) \in DOMAIN tabs
  BY <1>2, Sources
<1>4. \A k, l \in 1..n : k < l => Source(I, k) < Source(I, l)
  BY <1>2, SourcesInOrder
<1>. HIDE DEF n
<1>5. ASSUME NEW k \in 1..n, u[k].id \in S PROVE u[k].id \in TerminalsIn(u[k].root)
  BY <1>1, <1>3, <1>5 DEF InOrder
<1>6. ASSUME NEW k \in 1..n, NEW l \in 1..n, k < l, u[k].id \in S, u[l].id \in S
      PROVE  Precedes(q, u[k].id, u[l].id)
  BY <1>1, <1>3, <1>4, <1>6 DEF InOrder
<1>7. InOrder(u, q, S)
  BY <1>1, <1>5, <1>6 DEF InOrder
<1>. QED BY <1>7 DEF u

\* So it is in each workspace.
LEMMA OwnTabsPruned ==
    ASSUME NEW ws \in Seq(Workspaces), NEW q, NEW S, NEW kept, OwnTabs(ws, q, S),
           \A x \in ShownIn(ws) : x \in S => Pane(x) \in kept
    PROVE  OwnTabs(PrunedWorkspaces(ws, kept), q, S)
<1>. DEFINE vs == PrunedWorkspaces(ws, kept)
<1>1. DOMAIN vs = DOMAIN ws /\ \A i \in DOMAIN vs : vs[i] = PrunedWorkspace(ws[i], kept)
  BY WorkspacesPruned
<1>. HIDE DEF vs
<1>2. ASSUME NEW i \in DOMAIN ws PROVE InOrder(vs[i].tabs, q, S)
  <2>. DEFINE w == ws[i]
              v == [w EXCEPT !.tabs = PrunedTabs(w.tabs, kept)]
  <2>0. w \in Workspaces
    OBVIOUS
  <2>1. w.tabs \in Seq(Tabs)
    BY <2>0 DEF Workspaces
  <2>2. PrunedTabs(w.tabs, kept) \in Seq(Tabs)
    BY <2>1, TabsPruned
  <2>3. v \in Workspaces /\ v.tabs = PrunedTabs(w.tabs, kept)
    BY <2>0, <2>1, <2>2 DEF Workspaces
  <2>4. vs[i] = NormalizeActiveTab(v)
    BY <1>1 DEF PrunedWorkspace
  <2>. HIDE DEF w, v
  <2>5. vs[i].tabs = PrunedTabs(w.tabs, kept)
    BY <2>3, <2>4, Normalized
  <2>6. \A j \in DOMAIN w.tabs : \A x \in TerminalsIn(w.tabs[j].root) : x \in ShownIn(ws)
    BY TerminalsOfTabs, ShownInWorkspaces DEF w
  <2>7. InOrder(w.tabs, q, S)
    BY DEF OwnTabs, w
  <2>. QED BY <2>1, <2>5, <2>6, <2>7, TabsStayInOrder
<1>3. OwnTabs(vs, q, S)
  BY <1>1, <1>2 DEF OwnTabs
<1>. QED BY <1>3 DEF vs

\* Terminals that go leave the others in order.
LEMMA OthersInOrder ==
    ASSUME NEW q \in Seq(Id), NEW ids, NEW x, NEW y, Precedes(q, x, y), x \notin ids, y \notin ids
    PROVE  Precedes(Without(q, ids), x, y)
<1>. DEFINE I == {i \in DOMAIN q : q[i] \notin ids}
            u == Subsequence(q, I)
<1>1. Without(q, ids) = u
  BY DEF Without
<1>2. PICK k, l \in DOMAIN q : k < l /\ q[k] = x /\ q[l] = y
  BY DEF Precedes
<1>3. k \in I /\ l \in I /\ I \subseteq DOMAIN q /\ I \subseteq 1..Len(q) /\ Len(q) \in Nat
  BY <1>2
<1>. HIDE DEF I
<1>4. \A i \in I : Rank(I, i) \in DOMAIN u /\ u[Rank(I, i)] = q[i]
  BY <1>3, SubsequenceElements
<1>5. Rank(I, k) < Rank(I, l)
  BY <1>2, <1>3, Ranks
<1>. HIDE DEF u
<1>6. Precedes(u, x, y)
  BY <1>2, <1>3, <1>4, <1>5 DEF Precedes
<1>. QED BY <1>1, <1>6

\* Terminals that no tab of S shows may go.
LEMMA OwnTabsLeft ==
    ASSUME NEW ws, NEW q \in Seq(Id), NEW S, NEW ids, OwnTabs(ws, q, S),
           \A x \in ShownIn(ws) : x \in S => x \notin ids
    PROVE  OwnTabs(ws, Without(q, ids), S)
<1>. SUFFICES ASSUME NEW i \in DOMAIN ws PROVE InOrder(ws[i].tabs, Without(q, ids), S)
  BY DEF OwnTabs
<1>. DEFINE tabs == ws[i].tabs
<1>1. InOrder(tabs, q, S)
  BY DEF OwnTabs
<1>2. \A j \in DOMAIN tabs : \A x \in TerminalsIn(tabs[j].root) : x \in ShownIn(ws)
  BY TerminalsOfTabs, ShownInWorkspaces
<1>. HIDE DEF tabs
<1>3. \A j \in DOMAIN tabs : tabs[j].id \in S => tabs[j].id \notin ids
  BY <1>1, <1>2 DEF InOrder
<1>4. InOrder(tabs, Without(q, ids), S)
  BY <1>1, <1>3, OthersInOrder DEF InOrder
<1>. QED BY <1>4 DEF tabs

\* The order stays where the tabs keep their ids and terminals and more
\* terminals follow.
LEMMA OwnTabsAlike ==
    ASSUME NEW ws, NEW vs, NEW q, NEW r, NEW S, OwnTabs(ws, q, S), DOMAIN vs = DOMAIN ws,
           \A x, y : Precedes(q, x, y) => Precedes(r, x, y),
           \A i \in DOMAIN ws :
              /\ DOMAIN vs[i].tabs = DOMAIN ws[i].tabs
              /\ \A j \in DOMAIN ws[i].tabs :
                    /\ vs[i].tabs[j].id = ws[i].tabs[j].id
                    /\ TerminalsIn(ws[i].tabs[j].root) \subseteq TerminalsIn(vs[i].tabs[j].root)
    PROVE  OwnTabs(vs, r, S)
<1>. SUFFICES ASSUME NEW i \in DOMAIN ws PROVE InOrder(vs[i].tabs, r, S)
  BY DEF OwnTabs
<1>1. InOrder(ws[i].tabs, q, S)
  BY DEF OwnTabs
<1>. QED BY <1>1 DEF InOrder

\* No tabs are in any order.
LEMMA NoTabsInOrder ==
    ASSUME NEW tabs, Ids(tabs) = {}, NEW q, NEW S
    PROVE  InOrder(tabs, q, S)
<1>1. \A j \in DOMAIN tabs : tabs[j].id \in Ids(tabs)
  BY DEF Ids
<1>2. DOMAIN tabs = {}
  BY <1>1
<1>. QED BY <1>2 DEF InOrder

\* A terminal that is added follows those that were known.
LEMMA KnownFollows ==
    ASSUME NEW s, s.terminals \in Seq(Id), NEW t \in Id
    PROVE  /\ \A x, y : Precedes(s.terminals, x, y) => Precedes(Known(s, t), x, y)
           /\ t \notin ToSet(s.terminals) =>
                 \A x \in ToSet(s.terminals) : Precedes(Known(s, t), x, t)
<1>. DEFINE q == s.terminals
            u == Append(q, t)
<1>1. /\ DOMAIN q = 1..Len(q) /\ Len(q) \in Nat
      /\ DOMAIN u = 1..Len(q)+1 /\ u[Len(q)+1] = t /\ \A i \in DOMAIN q : u[i] = q[i]
  OBVIOUS
<1>. HIDE DEF u
<1>2. \A x, y : Precedes(q, x, y) => Precedes(u, x, y)
  BY <1>1 DEF Precedes
<1>3. ASSUME NEW x \in ToSet(q) PROVE Precedes(u, x, t)
  <2>1. PICK k \in DOMAIN q : q[k] = x
    BY DEF ToSet
  <2>2. k \in DOMAIN u /\ Len(q)+1 \in DOMAIN u /\ k < Len(q)+1
    BY <1>1
  <2>. QED BY <1>1, <2>1, <2>2 DEF Precedes
<1>. QED BY <1>2, <1>3 DEF Known, u

\* A tab for a terminal that is new.
LEMMA NewTabFollows ==
    ASSUME NEW tabs \in Seq(Tabs), NEW q, NEW r, NEW S, NEW t \in Id, InOrder(tabs, q, S),
           \A x, y : Precedes(q, x, y) => Precedes(r, x, y),
           \A j \in DOMAIN tabs : \A x \in TerminalsIn(tabs[j].root) : Precedes(r, x, t)
    PROVE  InOrder(Append(tabs, TabFor(t)), r, S)
<1>. DEFINE n == Len(tabs)
            d == TabFor(t)
            u == Append(tabs, d)
<1>1. d \in Tabs /\ d.id = t /\ TerminalsIn(d.root) = {t}
  BY NewTab
<1>. HIDE DEF d
<1>2. /\ n \in Nat /\ DOMAIN tabs = 1..n /\ DOMAIN u = 1..n+1
      /\ u[n+1] = d /\ \A j \in 1..n : u[j] = tabs[j]
  BY <1>1
<1>. HIDE DEF n, u
<1>3. \A j \in DOMAIN u : u[j].id \in S => u[j].id \in TerminalsIn(u[j].root)
  BY <1>1, <1>2 DEF InOrder
<1>4. ASSUME NEW j \in DOMAIN u, NEW k \in DOMAIN u, j < k, u[j].id \in S, u[k].id \in S
      PROVE  Precedes(r, u[j].id, u[k].id)
  <2>1. j \in 1..n
    BY <1>2, <1>4
  <2>2. CASE k \in 1..n
    BY <1>2, <1>4, <2>1, <2>2 DEF InOrder
  <2>3. CASE k = n+1
    BY <1>1, <1>2, <1>4, <2>1, <2>3 DEF InOrder
  <2>. QED BY <1>2, <2>2, <2>3
<1>5. InOrder(u, r, S)
  BY <1>3, <1>4 DEF InOrder
<1>. QED BY <1>5 DEF u, d

\* The terminals that are left keep their order.
LEMMA WithoutInOrder ==
    ASSUME NEW q \in Seq(Id), NEW ids
    PROVE  Sorted(q, Without(q, ids))
<1>. DEFINE I == {i \in DOMAIN q : q[i] \notin ids}
            u == Subsequence(q, I)
<1>1. Without(q, ids) = u
  BY DEF Without
<1>2. I \subseteq DOMAIN q /\ I \subseteq 1..Len(q) /\ Len(q) \in Nat /\ DOMAIN q = 1..Len(q)
  OBVIOUS
<1>. HIDE DEF I
<1>3. u = [k \in 1..Cardinality(I) |-> q[Source(I, k)]]
  BY <1>2, SubsequenceSource
<1>. HIDE DEF u
<1>4. ASSUME NEW k \in DOMAIN u, NEW l \in DOMAIN u, k < l PROVE Precedes(q, u[k], u[l])
  <2>1. k \in 1..Cardinality(I) /\ l \in 1..Cardinality(I)
    BY <1>3
  <2>2. Source(I, k) < Source(I, l) /\ Source(I, k) \in DOMAIN q /\ Source(I, l) \in DOMAIN q
    BY <1>2, <1>4, <2>1, Sources, SourcesInOrder
  <2>. QED BY <1>3, <2>1, <2>2 DEF Precedes
<1>. QED BY <1>1, <1>4 DEF Sorted

\* What states and layouts are.
States == [workspaces : Seq(Workspaces), active : Nat, terminals : Seq(Id)]
Layouts == [workspaces : Seq(Workspaces), active : Nat]

\* A state as every step leaves it: its workspaces differ and the active one
\* exists, and so do the panes of all terminals.
ProperWorkspaces(ws) == (\A i \in DOMAIN ws : Proper(ws[i])) /\ IdsDiffer(ws)
ProperState(s) ==
    /\ s \in States /\ ProperWorkspaces(s.workspaces)
    /\ s.workspaces # <<>> => s.active \in Ids(s.workspaces)
    /\ ToSet(s.terminals) \subseteq Shown(s)
\* A layout as every step leaves it.  What it calls active may be gone.
ProperLayout(l) == l \in Layouts /\ IdsDiffer(l.workspaces)

\* No element occurs twice.
Injective(q) == \A k, l \in DOMAIN q : q[k] = q[l] => k = l
\* What holds until two tabs get the same id: each terminal has one pane, and
\* what has a pane is known.
SoundState(s) ==
    /\ Apart(s.workspaces)
    /\ Shown(s) \subseteq ToSet(s.terminals)
    /\ Injective(s.terminals)

\* No workspace is lost, and no tab's order.
KeepsOrder(s, v) ==
    /\ s.workspaces # <<>> => v.workspaces # <<>>
    /\ \A S : OwnTabs(s.workspaces, s.terminals, S) => OwnTabs(v.workspaces, v.terminals, S)
\* Ids and terminals are among the first n.
Below(ws, n) == TabIds(ws) \union ShownIn(ws) \subseteq 1..n

\* The panes of the terminals that are shown are among the leaves shown.
LEMMA ShownLeaves ==
    ASSUME NEW s, s.workspaces \in Seq(Workspaces)
    PROVE  \A x \in Shown(s) : x \in Id /\ Pane(x) \in LeavesShown(s)
<1>. SUFFICES ASSUME NEW x \in Shown(s) PROVE x \in Id /\ Pane(x) \in LeavesShown(s)
  OBVIOUS
<1>1. s.workspaces \in Seq(Workspaces)
  OBVIOUS
<1>2. PICK i \in DOMAIN s.workspaces : x \in TerminalsOf(s.workspaces[i])
  BY ShownInWorkspaces DEF Shown
<1>3. s.workspaces[i] \in Workspaces
  BY <1>1
<1>. DEFINE w == s.workspaces[i]
<1>4. w.tabs \in Seq(Tabs)
  BY <1>3 DEF Workspaces
<1>5. PICK j \in DOMAIN w.tabs : x \in TerminalsIn(w.tabs[j].root)
  BY <1>2, TerminalsOfTabs
<1>6. w.tabs[j] \in Tabs
  BY <1>4
<1>7. w.tabs[j] \in AllTabs(s)
  BY DEF AllTabs, ToSet
<1>. DEFINE root == w.tabs[j].root
<1>8. IsTree(root)
  BY <1>6, TreesAreTrees DEF Tabs
<1>9. PICK p \in Panes(root) : root[p].id = x
  BY <1>5 DEF TerminalsIn
<1>10. root[p] = Pane(x) /\ p \in Leaves(root) /\ x \in Id
  BY <1>8, <1>9, TreeNodes DEF Id
<1>11. Pane(x) \in LeavesIn(root)
  BY <1>10 DEF LeavesIn
<1>. QED BY <1>7, <1>10, <1>11 DEF LeavesShown

\* A state pruned to leaves that include its terminals' panes.
LEMMA StatePruned ==
    ASSUME NEW s, ProperState(s), NEW kept
    PROVE  LET v == PrunedTo(s, kept)
           IN  /\ v \in States /\ v.workspaces = PrunedWorkspaces(s.workspaces, kept)
               /\ v.terminals = s.terminals
               /\ Ids(v.workspaces) = Ids(s.workspaces) /\ ProperWorkspaces(v.workspaces)
               /\ v.workspaces # <<>> => v.active \in Ids(v.workspaces)
               /\ \A x : x \in Shown(v) <=> x \in Shown(s) /\ Pane(x) \in kept
               /\ Apart(s.workspaces) => Apart(v.workspaces)
               /\ TabIds(v.workspaces) \subseteq TabIds(s.workspaces)
<1>. DEFINE v == PrunedTo(s, kept)
            ws == s.workspaces
            vs == PrunedWorkspaces(ws, kept)
            a == IF s.active \in Ids(ws) THEN s.active ELSE IF ws = <<>> THEN NoId ELSE ws[1].id
<1>1. /\ ws \in Seq(Workspaces) /\ s.active \in Nat /\ s.terminals \in Seq(Id) /\ IdsDiffer(ws)
      /\ s \in States /\ (ws # <<>> => s.active \in Ids(ws))
  BY DEF ProperState, States, ProperWorkspaces
<1>2. v = [s EXCEPT !.workspaces = vs, !.active = a]
  BY DEF PrunedTo
<1>3. a \in Nat /\ (ws # <<>> => a \in Ids(ws))
  BY <1>1 DEF NoId
<1>4. /\ vs \in Seq(Workspaces) /\ DOMAIN vs = DOMAIN ws /\ Len(vs) = Len(ws)
      /\ \A i \in DOMAIN vs : Proper(vs[i])
      /\ Ids(vs) = Ids(ws) /\ (IdsDiffer(ws) => IdsDiffer(vs))
      /\ \A x : x \in ShownIn(vs) <=> x \in ShownIn(ws) /\ Pane(x) \in kept
      /\ Apart(ws) => Apart(vs)
      /\ TabIds(vs) \subseteq TabIds(ws)
  BY <1>1, WorkspacesPruned
<1>. HIDE DEF a, v, vs
<1>5. v \in States /\ v.workspaces = vs /\ v.terminals = s.terminals /\ v.active = a
  BY <1>1, <1>2, <1>3, <1>4 DEF States
<1>6. vs # <<>> => ws # <<>>
  BY <1>1, <1>4
<1>. QED BY <1>1, <1>3, <1>4, <1>5, <1>6 DEF v, vs, Shown, ProperWorkspaces

\* The terminals that stay known.
LEMMA TerminalsLeft ==
    ASSUME NEW q \in Seq(Id), NEW ids
    PROVE  /\ Without(q, ids) \in Seq(Id) /\ ToSet(Without(q, ids)) = ToSet(q) \ ids
           /\ Injective(q) => Injective(Without(q, ids))
<1>. DEFINE I == {i \in DOMAIN q : q[i] \notin ids}
            left == Without(q, ids)
<1>1. I \subseteq DOMAIN q
  OBVIOUS
<1>2. left = Subsequence(q, I)
  BY DEF Without
<1>3. left \in Seq(Id)
  BY <1>1, <1>2, SubsequenceSource
<1>4. ToSet(left) = {q[i] : i \in I}
  BY <1>1, <1>2, WithoutElements
<1>5. Injective(q) => Injective(left)
  <2>. HAVE Injective(q)
  <2>1. \A i, j \in I : q[i] = q[j] => i = j
    BY DEF Injective
  <2>2. \A k, l \in DOMAIN left : left[k] = left[l] => k = l
    BY <1>1, <1>2, <2>1, WithoutElements
  <2>. QED BY <2>2 DEF Injective
<1>6. {q[i] : i \in I} = ToSet(q) \ ids
  BY DEF ToSet
<1>. QED BY <1>3, <1>4, <1>5, <1>6

\* Closing the panes of terminals.
THEOREM TerminalsRemoved ==
    ASSUME NEW s, ProperState(s), NEW ids
    PROVE  LET v == RemoveTerminals(s, ids)
           IN  /\ ProperState(v)
               /\ ToSet(v.terminals) = ToSet(s.terminals) \ ids
               /\ SoundState(s) => SoundState(v)
               /\ \A n \in Nat : Below(s.workspaces, n) => Below(v.workspaces, n)
               /\ s.workspaces # <<>> => v.workspaces # <<>>
               /\ \A S : ids \intersect S = {} /\ OwnTabs(s.workspaces, s.terminals, S)
                             => OwnTabs(v.workspaces, v.terminals, S)
<1>. DEFINE v == RemoveTerminals(s, ids)
            kept == LeavesShown(s) \ {Pane(t) : t \in ids}
            u == PrunedTo(s, kept)
            q == s.terminals
            left == Without(q, ids)
<1>1. s \in States /\ q \in Seq(Id) /\ ToSet(q) \subseteq Shown(s)
  BY DEF ProperState, States
<1>2. \A x \in Shown(s) : Pane(x) \in kept <=> x \notin ids
  <2>1. \A x, y : Pane(x) = Pane(y) => x = y
    BY DEF Pane
  <2>. QED BY <1>1, <2>1, ShownLeaves DEF States
<1>3. v = [u EXCEPT !.terminals = Without(@, ids)]
  BY DEF RemoveTerminals
<1>. HIDE DEF kept
<1>4. /\ u \in States /\ u.terminals = q /\ u.workspaces = PrunedWorkspaces(s.workspaces, kept)
      /\ ProperWorkspaces(u.workspaces)
      /\ (u.workspaces # <<>> => u.active \in Ids(u.workspaces))
      /\ \A x : x \in Shown(u) <=> x \in Shown(s) /\ Pane(x) \in kept
      /\ (Apart(s.workspaces) => Apart(u.workspaces))
      /\ TabIds(u.workspaces) \subseteq TabIds(s.workspaces)
  BY StatePruned
<1>5. /\ left \in Seq(Id) /\ ToSet(left) = ToSet(q) \ ids
      /\ Injective(q) => Injective(left)
  BY <1>1, TerminalsLeft
<1>. HIDE DEF u, v, left
<1>6. /\ v \in States /\ v.workspaces = u.workspaces /\ v.active = u.active /\ v.terminals = left
  BY <1>3, <1>4, <1>5 DEF States, left
<1>7. \A x : x \in Shown(v) <=> x \in Shown(s) /\ x \notin ids
  <2>1. Shown(v) = Shown(u)
    BY <1>6 DEF Shown
  <2>. QED BY <1>2, <1>4, <2>1
<1>8. ProperState(v)
  BY <1>1, <1>4, <1>5, <1>6, <1>7 DEF ProperState
<1>9. SoundState(s) => SoundState(v)
  BY <1>4, <1>5, <1>6, <1>7 DEF SoundState
<1>10. \A n \in Nat : Below(s.workspaces, n) => Below(v.workspaces, n)
  BY <1>4, <1>6, <1>7 DEF Below, Shown
<1>11. ASSUME NEW S, ids \intersect S = {}, OwnTabs(s.workspaces, q, S)
       PROVE  OwnTabs(v.workspaces, v.terminals, S)
  <2>1. OwnTabs(u.workspaces, q, S)
    BY <1>1, <1>2, <1>4, <1>11, OwnTabsPruned DEF States, Shown
  <2>2. \A x \in ShownIn(u.workspaces) : x \in S => x \notin ids
    BY <1>11
  <2>. QED BY <1>1, <1>6, <2>1, <2>2, OwnTabsLeft DEF left
<1>12. s.workspaces # <<>> => v.workspaces # <<>>
  <2>1. s.workspaces \in Seq(Workspaces)
    BY <1>1 DEF States
  <2>2. Len(u.workspaces) = Len(s.workspaces)
    BY <1>4, <2>1, WorkspacesPruned
  <2>. QED BY <1>6, <2>1, <2>2
<1>. QED BY <1>5, <1>6, <1>8, <1>9, <1>10, <1>11, <1>12 DEF v

\* Closing an editor.
LEMMA EditorRemoved ==
    ASSUME NEW s, ProperState(s), NEW e
    PROVE  LET v == RemoveEditor(s, e)
           IN  /\ ProperState(v) /\ v.terminals = s.terminals
               /\ SoundState(s) => SoundState(v)
               /\ \A n \in Nat : Below(s.workspaces, n) => Below(v.workspaces, n)
               /\ KeepsOrder(s, v)
<1>. DEFINE v == RemoveEditor(s, e)
            kept == LeavesShown(s) \ {Editor(e)}
<1>1. s \in States
  BY DEF ProperState
<1>2. \A x \in Shown(s) : Pane(x) \in kept
  <2>1. \A x : Pane(x) # Editor(e)
    BY DEF Pane, Editor
  <2>. QED BY <1>1, <2>1, ShownLeaves DEF States
<1>3. v = PrunedTo(s, kept)
  BY DEF RemoveEditor
<1>. HIDE DEF kept, v
<1>4. /\ v \in States /\ v.terminals = s.terminals
      /\ v.workspaces = PrunedWorkspaces(s.workspaces, kept)
      /\ ProperWorkspaces(v.workspaces)
      /\ (v.workspaces # <<>> => v.active \in Ids(v.workspaces))
      /\ \A x : x \in Shown(v) <=> x \in Shown(s) /\ Pane(x) \in kept
      /\ (Apart(s.workspaces) => Apart(v.workspaces))
      /\ TabIds(v.workspaces) \subseteq TabIds(s.workspaces)
  BY <1>3, StatePruned
<1>5. Shown(v) = Shown(s)
  BY <1>2, <1>4
<1>6. ProperState(v)
  BY <1>4, <1>5 DEF ProperState
<1>7. SoundState(s) => SoundState(v)
  BY <1>4, <1>5 DEF SoundState
<1>8. \A n \in Nat : Below(s.workspaces, n) => Below(v.workspaces, n)
  BY <1>4, <1>5 DEF Below, Shown
<1>9. KeepsOrder(s, v)
  <2>1. s.workspaces \in Seq(Workspaces)
    BY <1>1 DEF States
  <2>2. Len(v.workspaces) = Len(s.workspaces)
    BY <1>4, <2>1, WorkspacesPruned
  <2>3. ASSUME NEW S, OwnTabs(s.workspaces, s.terminals, S)
        PROVE  OwnTabs(v.workspaces, v.terminals, S)
    BY <1>2, <1>4, <2>1, <2>3, OwnTabsPruned DEF Shown
  <2>4. s.workspaces # <<>> => v.workspaces # <<>>
    BY <2>1, <2>2
  <2>. QED BY <2>3, <2>4 DEF KeepsOrder
<1>. QED BY <1>4, <1>6, <1>7, <1>8, <1>9 DEF v

\* What is saved of a state.
THEOREM Serialized ==
    ASSUME NEW s, ProperState(s)
    PROVE  LET l == Serialize(s)
           IN  /\ ProperLayout(l)
               /\ SoundState(s) => Apart(l.workspaces)
               /\ \A n \in Nat : Below(s.workspaces, n) => Below(l.workspaces, n)
<1>. DEFINE kept == {leaf \in LeavesShown(s) : leaf.type = "pane"}
            p == PrunedTo(s, kept)
            l == Serialize(s)
<1>1. l = [workspaces |-> p.workspaces, active |-> p.active]
  BY DEF Serialize
<1>. HIDE DEF kept
<1>2. /\ p \in States /\ ProperWorkspaces(p.workspaces)
      /\ \A x : x \in Shown(p) <=> x \in Shown(s) /\ Pane(x) \in kept
      /\ (Apart(s.workspaces) => Apart(p.workspaces))
      /\ TabIds(p.workspaces) \subseteq TabIds(s.workspaces)
  BY StatePruned
<1>. HIDE DEF p, l
<1>3. l \in Layouts /\ l.workspaces = p.workspaces
  BY <1>1, <1>2 DEF States, Layouts
<1>4. ProperLayout(l) /\ (SoundState(s) => Apart(l.workspaces))
  BY <1>2, <1>3 DEF ProperLayout, ProperWorkspaces, SoundState
<1>5. \A n \in Nat : Below(s.workspaces, n) => Below(l.workspaces, n)
  BY <1>2, <1>3 DEF Below, Shown
<1>. QED BY <1>4, <1>5 DEF l

\* Tabs and workspaces that still show the same terminals.
ReshapedTab(tab, u) ==
    /\ u \in Tabs /\ u.id = tab.id /\ TerminalsIn(u.root) = TerminalsIn(tab.root)
    /\ Once(tab.root) => Once(u.root)
\* A workspace that differs in titles, sizes, editors and focus only.
Reshaped(w, v) ==
    /\ v \in Workspaces /\ v.id = w.id /\ DOMAIN v.tabs = DOMAIN w.tabs
    /\ \A j \in DOMAIN w.tabs : ReshapedTab(w.tabs[j], v.tabs[j])
    /\ SomeFocused(v.tabs)
    /\ v.activeTab = w.activeTab \/ v.activeTab \in Ids(w.tabs)

\* What is left alone keeps its shape.
LEMMA SameShape ==
    ASSUME NEW w, Proper(w) PROVE Reshaped(w, w)
<1>1. w \in Workspaces /\ w.tabs \in Seq(Tabs)
  BY DEF Proper, Workspaces
<1>2. \A j \in DOMAIN w.tabs : w.tabs[j] \in Tabs
  BY <1>1
<1>. QED BY <1>1, <1>2 DEF Proper, Reshaped, ReshapedTab

\* A workspace stays proper, and its tabs apart.
LEMMA WorkspaceReshaped ==
    ASSUME NEW w, Proper(w), NEW v, Reshaped(w, v)
    PROVE  /\ Proper(v) /\ Ids(v.tabs) = Ids(w.tabs)
           /\ \A x : x \in TerminalsOf(v) <=> x \in TerminalsOf(w)
           /\ ApartTabs(w.tabs) => ApartTabs(v.tabs)
<1>1. /\ DOMAIN v.tabs = DOMAIN w.tabs /\ SomeFocused(v.tabs) /\ v \in Workspaces
      /\ \A j \in DOMAIN w.tabs : /\ v.tabs[j].id = w.tabs[j].id
                                  /\ TerminalsIn(v.tabs[j].root) = TerminalsIn(w.tabs[j].root)
                                  /\ (Once(w.tabs[j].root) => Once(v.tabs[j].root))
      /\ (v.activeTab = w.activeTab \/ v.activeTab \in Ids(w.tabs))
  BY DEF Reshaped, ReshapedTab
<1>2. Ids(v.tabs) = Ids(w.tabs)
  BY <1>1 DEF Ids
<1>3. \A x : x \in TerminalsOf(v) <=> x \in TerminalsOf(w)
  BY <1>1, TerminalsOfTabs
<1>4. ApartTabs(w.tabs) => ApartTabs(v.tabs)
  BY <1>1 DEF ApartTabs
<1>5. v.tabs = <<>> <=> w.tabs = <<>>
  <2>1. v.tabs \in Seq(Tabs) /\ w.tabs \in Seq(Tabs)
    BY <1>1 DEF Proper, Workspaces
  <2>. QED BY <1>1, <2>1
<1>6. Ids(w.tabs) # {} => w.tabs # <<>>
  BY DEF Ids
<1>7. ActiveTabExists(v)
  BY <1>1, <1>2, <1>5, <1>6 DEF Proper, ActiveTabExists
<1>. QED BY <1>1, <1>2, <1>3, <1>4, <1>7 DEF Proper

\* A change of tabs that leaves the focused ones focused.
LEMMA TabsReshaped ==
    ASSUME NEW w, Proper(w), NEW u \in [DOMAIN w.tabs -> Tabs],
           \A j \in DOMAIN w.tabs : ReshapedTab(w.tabs[j], u[j]) /\ (Focused(w.tabs[j]) => Focused(u[j]))
    PROVE  Reshaped(w, [w EXCEPT !.tabs = u])
<1>1. w \in Workspaces /\ w.tabs \in Seq(Tabs) /\ DOMAIN w.tabs = 1..Len(w.tabs) /\ Len(w.tabs) \in Nat
  BY DEF Proper, Workspaces
<1>3. u \in Seq(Tabs) /\ Len(u) = Len(w.tabs) /\ DOMAIN u = DOMAIN w.tabs
  BY <1>1
<1>. DEFINE v == [w EXCEPT !.tabs = u]
<1>4. v \in Workspaces /\ v.id = w.id /\ v.tabs = u /\ v.activeTab = w.activeTab
  BY <1>1, <1>3 DEF Workspaces
<1>5. SomeFocused(u)
  <2>1. \A j \in DOMAIN w.tabs : u[j].id = w.tabs[j].id
    BY DEF ReshapedTab
  <2>2. SomeFocused(w.tabs)
    BY DEF Proper
  <2>. SUFFICES ASSUME NEW j \in DOMAIN w.tabs
                PROVE  \E k \in DOMAIN w.tabs : u[k].id = u[j].id /\ Focused(u[k])
    BY <1>3 DEF SomeFocused
  <2>3. PICK k \in DOMAIN w.tabs : w.tabs[k].id = w.tabs[j].id /\ Focused(w.tabs[k])
    BY <2>2 DEF SomeFocused
  <2>4. u[k].id = u[j].id /\ Focused(u[k])
    BY <2>1, <2>3
  <2>. QED BY <2>4
<1>. HIDE DEF v
<1>7. Reshaped(w, v)
  BY <1>3, <1>4, <1>5 DEF Reshaped
<1>. QED BY <1>7 DEF v

\* A state whose workspaces are reshaped.
LEMMA StateReshaped ==
    ASSUME NEW s, ProperState(s), NEW vs \in [DOMAIN s.workspaces -> Workspaces], NEW a,
           \A i \in DOMAIN s.workspaces : Reshaped(s.workspaces[i], vs[i]),
           a = s.active \/ a \in Ids(s.workspaces)
    PROVE  LET v == [s EXCEPT !.workspaces = vs, !.active = a]
           IN  /\ ProperState(v) /\ v.terminals = s.terminals
               /\ SoundState(s) => SoundState(v)
               /\ \A n \in Nat : Below(s.workspaces, n) => Below(v.workspaces, n)
               /\ KeepsOrder(s, v)
<1>. DEFINE ws == s.workspaces
            v == [s EXCEPT !.workspaces = vs, !.active = a]
<1>1. /\ s \in States /\ ws \in Seq(Workspaces) /\ DOMAIN ws = 1..Len(ws) /\ Len(ws) \in Nat
      /\ s.active \in Nat /\ s.terminals \in Seq(Id) /\ IdsDiffer(ws)
      /\ (ws # <<>> => s.active \in Ids(ws))
      /\ ToSet(s.terminals) \subseteq Shown(s)
      /\ \A i \in DOMAIN ws : Proper(ws[i]) /\ ws[i] \in Workspaces
  BY DEF ProperState, States, ProperWorkspaces, Proper
<1>2. \A i \in DOMAIN ws :
         /\ Proper(vs[i]) /\ vs[i] \in Workspaces /\ vs[i].id = ws[i].id
         /\ Ids(vs[i].tabs) = Ids(ws[i].tabs)
         /\ \A x : x \in TerminalsOf(vs[i]) <=> x \in TerminalsOf(ws[i])
         /\ (ApartTabs(ws[i].tabs) => ApartTabs(vs[i].tabs))
  <2>. TAKE i \in DOMAIN ws
  <2>1. Proper(ws[i]) /\ Reshaped(ws[i], vs[i])
    BY <1>1
  <2>2. vs[i].id = ws[i].id /\ vs[i] \in Workspaces
    BY <2>1 DEF Reshaped
  <2>. QED BY <2>1, <2>2, WorkspaceReshaped
<1>3. vs \in Seq(Workspaces) /\ DOMAIN vs = DOMAIN ws /\ Len(vs) = Len(ws)
  BY <1>1
<1>4. \A i \in DOMAIN ws : ws[i].id \in Nat
  BY <1>1 DEF Workspaces, Id
<1>5. a \in Nat /\ Ids(vs) = Ids(ws) /\ (ws # <<>> => a \in Ids(vs))
  BY <1>1, <1>2, <1>3, <1>4 DEF Ids
<1>6. v \in States /\ v.workspaces = vs /\ v.active = a /\ v.terminals = s.terminals
  BY <1>1, <1>3, <1>5 DEF States
<1>7. \A x : x \in ShownIn(vs) <=> x \in ShownIn(ws)
  BY <1>2, <1>3, ShownInWorkspaces
<1>8. \A x : x \in TabIds(vs) <=> x \in TabIds(ws)
  BY <1>2, <1>3, ShownInWorkspaces
<1>9. Apart(ws) => Apart(vs)
  <2>. HAVE Apart(ws)
  <2>1. \A i \in DOMAIN vs : ApartTabs(vs[i].tabs)
    BY <1>2, <1>3 DEF Apart
  <2>2. \A i, k \in DOMAIN vs, x \in Id : x \in TerminalsOf(vs[i]) /\ x \in TerminalsOf(vs[k]) => i = k
    BY <1>2, <1>3 DEF Apart
  <2>. QED BY <2>1, <2>2 DEF Apart
<1>10. vs # <<>> => ws # <<>>
  BY <1>1, <1>3
<1>11. IdsDiffer(vs) /\ \A i \in DOMAIN vs : Proper(vs[i])
  BY <1>1, <1>2, <1>3 DEF IdsDiffer
<1>. HIDE DEF v
<1>12. ProperState(v)
  BY <1>1, <1>5, <1>6, <1>7, <1>10, <1>11 DEF ProperState, ProperWorkspaces, Shown
<1>13. SoundState(s) => SoundState(v)
  BY <1>6, <1>7, <1>9 DEF SoundState, Shown
<1>14. \A n \in Nat : Below(ws, n) => Below(v.workspaces, n)
  BY <1>6, <1>7, <1>8 DEF Below
<1>15. KeepsOrder(s, v)
  <2>1. \A i \in DOMAIN ws :
           /\ DOMAIN vs[i].tabs = DOMAIN ws[i].tabs
           /\ \A j \in DOMAIN ws[i].tabs :
                 /\ vs[i].tabs[j].id = ws[i].tabs[j].id
                 /\ TerminalsIn(ws[i].tabs[j].root) \subseteq TerminalsIn(vs[i].tabs[j].root)
    BY DEF Reshaped, ReshapedTab
  <2>2. \A S : OwnTabs(ws, s.terminals, S) => OwnTabs(vs, s.terminals, S)
    BY <1>3, <2>1, OwnTabsAlike
  <2>3. ws # <<>> => vs # <<>>
    BY <1>1, <1>3
  <2>. QED BY <1>6, <2>2, <2>3 DEF KeepsOrder
<1>. QED BY <1>6, <1>12, <1>13, <1>14, <1>15 DEF v

\* A command that shows the same terminals.
Keeps(s, v) ==
    /\ ProperState(v) /\ v.terminals = s.terminals
    /\ SoundState(s) => SoundState(v)
    /\ \A n \in Nat : Below(s.workspaces, n) => Below(v.workspaces, n)
    /\ KeepsOrder(s, v)

\* What changes nothing.
LEMMA SameState ==
    ASSUME NEW s, ProperState(s) PROVE Keeps(s, s)
  BY DEF Keeps, KeepsOrder

\* Selecting a workspace.
LEMMA WorkspaceSelected ==
    ASSUME NEW s, ProperState(s), NEW id
    PROVE  Keeps(s, SelectWorkspace(s, id))
<1>. DEFINE v == [s EXCEPT !.active = id]
<1>1. CASE id \in Ids(s.workspaces)
  <2>1. id \in Nat
    <3>1. PICK i \in DOMAIN s.workspaces : s.workspaces[i].id = id
      BY <1>1 DEF Ids
    <3>2. s.workspaces[i] \in Workspaces
      BY DEF ProperState, ProperWorkspaces, Proper
    <3>. QED BY <3>1, <3>2 DEF Workspaces, Id
  <2>2. v \in States /\ v.workspaces = s.workspaces /\ v.terminals = s.terminals /\ v.active = id
    BY <2>1 DEF ProperState, States
  <2>3. Shown(v) = Shown(s)
    BY <2>2 DEF Shown
  <2>. HIDE DEF v
  <2>4. ProperState(v)
    BY <1>1, <2>2, <2>3 DEF ProperState
  <2>5. SoundState(s) => SoundState(v)
    BY <2>2, <2>3 DEF SoundState
  <2>6. Keeps(s, v)
    <3>1. KeepsOrder(s, v)
      BY <2>2 DEF KeepsOrder
    <3>. QED BY <2>2, <2>4, <2>5, <3>1 DEF Keeps
  <2>. QED BY <1>1, <2>6 DEF SelectWorkspace, v
<1>. QED BY <1>1, SameState DEF SelectWorkspace

\* Renaming a workspace.
LEMMA WorkspaceRenamed ==
    ASSUME NEW s, ProperState(s), NEW id, NEW title \in {"given", "renamed"}
    PROVE  Keeps(s, RenameWorkspace(s, id, title))
<1>. DEFINE ws == s.workspaces
            vs == [i \in DOMAIN ws |-> IF ws[i].id = id THEN [ws[i] EXCEPT !.title = title] ELSE ws[i]]
            v == [s EXCEPT !.workspaces = vs, !.active = s.active]
<1>1. RenameWorkspace(s, id, title) = [s EXCEPT !.workspaces = vs]
  BY DEF RenameWorkspace, EditWorkspace, Edited
<1>2. v = [s EXCEPT !.workspaces = vs]
  BY DEF ProperState, States
<1>3. \A i \in DOMAIN ws : Reshaped(ws[i], vs[i])
  <2>. TAKE i \in DOMAIN ws
  <2>. DEFINE w == ws[i]
              u == [w EXCEPT !.title = title]
  <2>1. Proper(w) /\ w \in Workspaces
    BY DEF ProperState, ProperWorkspaces, Proper
  <2>2. Reshaped(w, w)
    BY <2>1, SameShape
  <2>3. u \in Workspaces /\ u.id = w.id /\ u.tabs = w.tabs /\ u.activeTab = w.activeTab
    BY <2>1 DEF Workspaces
  <2>4. vs[i] = IF w.id = id THEN u ELSE w
    OBVIOUS
  <2>. HIDE DEF w, u, vs
  <2>5. Reshaped(w, u)
    BY <2>2, <2>3 DEF Reshaped
  <2>. QED BY <2>2, <2>4, <2>5 DEF w
<1>4. vs \in [DOMAIN ws -> Workspaces]
  BY <1>3 DEF Reshaped
<1>. HIDE DEF vs
<1>5. Keeps(s, v)
  BY <1>3, <1>4, StateReshaped DEF Keeps
<1>. QED BY <1>1, <1>2, <1>5

\* Selecting a tab of the active workspace.
LEMMA TabSelected ==
    ASSUME NEW s, ProperState(s), NEW id
    PROVE  Keeps(s, SelectTab(s, id))
<1>. DEFINE ws == s.workspaces
            wid == ActiveWorkspace(s).id
            vs == [i \in DOMAIN ws |-> IF ws[i].id = wid THEN [ws[i] EXCEPT !.activeTab = id] ELSE ws[i]]
            v == [s EXCEPT !.workspaces = vs, !.active = s.active]
<1>1. CASE ws = <<>> \/ id \notin Ids(ActiveWorkspace(s).tabs)
  <2>1. SelectTab(s, id) = s
    BY <1>1 DEF SelectTab
  <2>. QED BY <2>1, SameState
<1>2. CASE ~(ws = <<>> \/ id \notin Ids(ActiveWorkspace(s).tabs))
  <2>1. SelectTab(s, id) = [s EXCEPT !.workspaces = vs]
    BY <1>2 DEF SelectTab, EditWorkspace, Edited
  <2>2. v = [s EXCEPT !.workspaces = vs]
    BY DEF ProperState, States
  <2>3. /\ ws \in Seq(Workspaces) /\ ws # <<>>
        /\ \A i \in DOMAIN ws : Proper(ws[i]) /\ ws[i] \in Workspaces
        /\ \A i, k \in DOMAIN ws : ws[i].id = ws[k].id => i = k
    BY <1>2 DEF ProperState, ProperWorkspaces, Proper, States, IdsDiffer
  <2>4. PICK i0 \in DOMAIN ws : ActiveWorkspace(s) = ws[i0]
    <3>. DEFINE at == {i \in DOMAIN ws : ws[i].id = s.active}
    <3>1. at # {} => Min(at) \in at
      <4>1. at \subseteq Nat
        BY <2>3
      <4>. QED BY <4>1, MinIsLeast
    <3>2. 1 \in DOMAIN ws
      BY <2>3
    <3>3. ActiveWorkspace(s) = ws[IF at = {} THEN 1 ELSE Min(at)]
      BY DEF ActiveWorkspace, Current
    <3>4. at \subseteq DOMAIN ws
      OBVIOUS
    <3>. QED BY <3>1, <3>2, <3>3, <3>4
  <2>5. id \in Ids(ws[i0].tabs) /\ wid = ws[i0].id
    BY <1>2, <2>4
  <2>6. \A i \in DOMAIN ws : Reshaped(ws[i], vs[i])
    <3>. TAKE i \in DOMAIN ws
    <3>. DEFINE w == ws[i]
                u == [w EXCEPT !.activeTab = id]
    <3>1. Proper(w) /\ w \in Workspaces
      BY <2>3
    <3>2. Reshaped(w, w)
      BY <3>1, SameShape
    <3>3. vs[i] = IF w.id = wid THEN u ELSE w
      OBVIOUS
    <3>4. CASE i = i0
      <4>1. id \in Ids(w.tabs) /\ id \in Id
        BY <2>5, <3>1, <3>4, ShownIds
      <4>2. u \in Workspaces /\ u.id = w.id /\ u.tabs = w.tabs /\ u.activeTab = id
        BY <3>1, <4>1 DEF Workspaces, Id
      <4>. HIDE DEF w, u, vs
      <4>3. Reshaped(w, u)
        BY <3>2, <4>1, <4>2 DEF Reshaped
      <4>. QED BY <3>2, <3>3, <4>3 DEF w
    <3>5. CASE i # i0
      <4>1. w.id # wid
        BY <2>3, <2>5, <3>5
      <4>. QED BY <3>2, <3>3, <4>1
    <3>. QED BY <3>4, <3>5
  <2>7. vs \in [DOMAIN ws -> Workspaces]
    BY <2>6 DEF Reshaped
  <2>. HIDE DEF vs
  <2>8. Keeps(s, v)
    BY <2>6, <2>7, StateReshaped DEF Keeps
  <2>. QED BY <2>1, <2>2, <2>8
<1>. QED BY <1>1, <1>2

\* Changes of one tab.
LEMMA RenamedTab ==
    ASSUME NEW tab \in Tabs, NEW title \in {"given", "renamed"}
    PROVE  LET u == [tab EXCEPT !.title = title] IN ReshapedTab(tab, u) /\ (Focused(tab) => Focused(u))
<1>. DEFINE u == [tab EXCEPT !.title = title]
<1>1. u \in Tabs /\ u.id = tab.id /\ u.root = tab.root /\ u.activeTerminal = tab.activeTerminal
  BY DEF Tabs
<1>. HIDE DEF u
<1>2. ReshapedTab(tab, u) /\ (Focused(tab) => Focused(u))
  BY <1>1 DEF ReshapedTab, Focused
<1>. QED BY <1>2 DEF u

\* So is one whose divider was dragged,
LEMMA ResizedTab ==
    ASSUME NEW tab \in Tabs, NEW path, NEW ratio \in Int
    PROVE  LET u == [tab EXCEPT !.root = RatioSet(@, path, ClampRatio(ratio))]
           IN  ReshapedTab(tab, u) /\ (Focused(tab) => Focused(u))
<1>. DEFINE root == RatioSet(tab.root, path, ClampRatio(ratio))
            u == [tab EXCEPT !.root = root]
<1>1. IsTree(tab.root)
  BY TreesAreTrees DEF Tabs
<1>2. ClampRatio(ratio) \in 1..9
  BY DEF ClampRatio
<1>3. /\ IsTree(root) /\ TerminalsIn(root) = TerminalsIn(tab.root)
      /\ (Once(tab.root) => Once(root))
  BY <1>1, <1>2, RatioTree
<1>. HIDE DEF root
<1>4. u \in Tabs /\ u.id = tab.id /\ u.root = root /\ u.activeTerminal = tab.activeTerminal
  BY <1>3, TreesAreTrees DEF Tabs
<1>. HIDE DEF u
<1>5. ReshapedTab(tab, u) /\ (Focused(tab) => Focused(u))
  BY <1>3, <1>4 DEF ReshapedTab, Focused
<1>. QED BY <1>5 DEF u, root

\* and one with one more editor.
LEMMA EditorSplit ==
    ASSUME NEW tab \in Tabs, NEW e \in Id, NEW direction \in Directions
    PROVE  LET u == SplitTab(tab, Editor(e), direction)
           IN  ReshapedTab(tab, u) /\ (Focused(tab) => Focused(u))
<1>. DEFINE root == PaneSplit(tab.root, tab.activeTerminal, direction, Editor(e))
            u == [tab EXCEPT !.root = root]
<1>1. IsTree(tab.root) /\ tab.activeTerminal \in Nat \ {0}
  BY TreesAreTrees DEF Tabs, Id
<1>2. Editor(e) \in Nodes /\ Editor(e).type # "split" /\ Editor(e).type # "pane"
  BY DEF Editor, Nodes, Id
<1>3. /\ IsTree(root) /\ TerminalsIn(root) = TerminalsIn(tab.root)
      /\ (Once(tab.root) => Once(root))
  BY <1>1, <1>2, SplitTree
<1>. HIDE DEF root
<1>4. u \in Tabs /\ u.id = tab.id /\ u.root = root /\ u.activeTerminal = tab.activeTerminal
  BY <1>3, TreesAreTrees DEF Tabs
<1>5. SplitTab(tab, Editor(e), direction) = u
  BY DEF SplitTab, root
<1>. HIDE DEF u
<1>6. ReshapedTab(tab, u) /\ (Focused(tab) => Focused(u))
  BY <1>3, <1>4 DEF ReshapedTab, Focused
<1>. QED BY <1>5, <1>6

\* Dragging a divider.
LEMMA PaneResized ==
    ASSUME NEW s, ProperState(s), NEW path, NEW ratio \in Int
    PROVE  Keeps(s, ResizePane(s, path, ratio))
<1>. DEFINE ws == s.workspaces
            wid == ActiveWorkspace(s).id
            tid == ActiveTab(s).id
            Change(tab) == [tab EXCEPT !.root = RatioSet(@, path, ClampRatio(ratio))]
            u(i) == [j \in DOMAIN ws[i].tabs |->
                        IF ws[i].tabs[j].id = tid THEN Change(ws[i].tabs[j]) ELSE ws[i].tabs[j]]
            vs == [i \in DOMAIN ws |-> IF ws[i].id = wid THEN [ws[i] EXCEPT !.tabs = u(i)] ELSE ws[i]]
            v == [s EXCEPT !.workspaces = vs, !.active = s.active]
<1>1. ResizePane(s, path, ratio) = IF HasTab(s) THEN [s EXCEPT !.workspaces = vs] ELSE s
  BY DEF ResizePane, EditActiveTab, EditTab, EditWorkspace, Edited
<1>2. v = [s EXCEPT !.workspaces = vs]
  BY DEF ProperState, States
<1>3. \A tab \in Tabs : ReshapedTab(tab, Change(tab)) /\ (Focused(tab) => Focused(Change(tab)))
  BY ResizedTab
<1>. HIDE DEF Change, wid, tid
<1>4. \A i \in DOMAIN ws : Reshaped(ws[i], vs[i])
  <2>. TAKE i \in DOMAIN ws
  <2>. DEFINE w == ws[i]
              ui == u(i)
  <2>1. Proper(w) /\ w.tabs \in Seq(Tabs)
    BY DEF ProperState, ProperWorkspaces, Proper, Workspaces
  <2>2. \A j \in DOMAIN w.tabs : w.tabs[j] \in Tabs
    BY <2>1
  <2>3. ui \in [DOMAIN w.tabs -> Tabs]
    BY <1>3, <2>2 DEF ReshapedTab
  <2>4. \A j \in DOMAIN w.tabs : ReshapedTab(w.tabs[j], ui[j]) /\ (Focused(w.tabs[j]) => Focused(ui[j]))
    BY <1>3, <2>2 DEF ReshapedTab
  <2>5. vs[i] = IF w.id = wid THEN [w EXCEPT !.tabs = ui] ELSE w
    OBVIOUS
  <2>. HIDE DEF w, ui, vs
  <2>6. Reshaped(w, [w EXCEPT !.tabs = ui]) /\ Reshaped(w, w)
    BY <2>1, <2>3, <2>4, TabsReshaped, SameShape
  <2>. QED BY <2>5, <2>6 DEF w
<1>5. vs \in [DOMAIN ws -> Workspaces]
  BY <1>4 DEF Reshaped
<1>. HIDE DEF vs
<1>6. Keeps(s, v) /\ Keeps(s, s)
  BY <1>4, <1>5, StateReshaped, SameState DEF Keeps
<1>. QED BY <1>1, <1>2, <1>6

\* Opening an editor beside the active pane.
LEMMA EditorOpened ==
    ASSUME NEW s, ProperState(s), NEW e \in Id, NEW direction \in Directions
    PROVE  Keeps(s, SplitEditor(s, e, direction))
<1>. DEFINE ws == s.workspaces
            wid == ActiveWorkspace(s).id
            tid == ActiveTab(s).id
            Change(tab) == SplitTab(tab, Editor(e), direction)
            u(i) == [j \in DOMAIN ws[i].tabs |->
                        IF ws[i].tabs[j].id = tid THEN Change(ws[i].tabs[j]) ELSE ws[i].tabs[j]]
            vs == [i \in DOMAIN ws |-> IF ws[i].id = wid THEN [ws[i] EXCEPT !.tabs = u(i)] ELSE ws[i]]
            v == [s EXCEPT !.workspaces = vs, !.active = s.active]
<1>1. SplitEditor(s, e, direction) = IF HasTab(s) THEN [s EXCEPT !.workspaces = vs] ELSE s
  BY DEF SplitEditor, EditActiveTab, EditTab, EditWorkspace, Edited
<1>2. v = [s EXCEPT !.workspaces = vs]
  BY DEF ProperState, States
<1>3. \A tab \in Tabs : ReshapedTab(tab, Change(tab)) /\ (Focused(tab) => Focused(Change(tab)))
  BY EditorSplit
<1>. HIDE DEF Change, wid, tid
<1>4. \A i \in DOMAIN ws : Reshaped(ws[i], vs[i])
  <2>. TAKE i \in DOMAIN ws
  <2>. DEFINE w == ws[i]
              ui == u(i)
  <2>1. Proper(w) /\ w.tabs \in Seq(Tabs)
    BY DEF ProperState, ProperWorkspaces, Proper, Workspaces
  <2>2. \A j \in DOMAIN w.tabs : w.tabs[j] \in Tabs
    BY <2>1
  <2>3. ui \in [DOMAIN w.tabs -> Tabs]
    BY <1>3, <2>2 DEF ReshapedTab
  <2>4. \A j \in DOMAIN w.tabs : ReshapedTab(w.tabs[j], ui[j]) /\ (Focused(w.tabs[j]) => Focused(ui[j]))
    BY <1>3, <2>2 DEF ReshapedTab
  <2>5. vs[i] = IF w.id = wid THEN [w EXCEPT !.tabs = ui] ELSE w
    OBVIOUS
  <2>. HIDE DEF w, ui, vs
  <2>6. Reshaped(w, [w EXCEPT !.tabs = ui]) /\ Reshaped(w, w)
    BY <2>1, <2>3, <2>4, TabsReshaped, SameShape
  <2>. QED BY <2>5, <2>6 DEF w
<1>5. vs \in [DOMAIN ws -> Workspaces]
  BY <1>4 DEF Reshaped
<1>. HIDE DEF vs
<1>6. Keeps(s, v) /\ Keeps(s, s)
  BY <1>4, <1>5, StateReshaped, SameState DEF Keeps
<1>. QED BY <1>1, <1>2, <1>6

\* Renaming a tab, in whatever workspaces have one of this id.
LEMMA TabRenamed ==
    ASSUME NEW s, ProperState(s), NEW id, NEW title \in {"given", "renamed"}
    PROVE  Keeps(s, RenameTab(s, id, title))
<1>. DEFINE ws == s.workspaces
            Change(tab) == [tab EXCEPT !.title = title]
            u(i) == [j \in DOMAIN ws[i].tabs |->
                        IF ws[i].tabs[j].id = id THEN Change(ws[i].tabs[j]) ELSE ws[i].tabs[j]]
            vs == [i \in DOMAIN ws |-> [ws[i] EXCEPT !.tabs = u(i)]]
            v == [s EXCEPT !.workspaces = vs, !.active = s.active]
<1>1. RenameTab(s, id, title) = [s EXCEPT !.workspaces = vs]
  BY DEF RenameTab, RenamedTabs, Edited
<1>2. v = [s EXCEPT !.workspaces = vs]
  BY DEF ProperState, States
<1>3. \A tab \in Tabs : ReshapedTab(tab, Change(tab)) /\ (Focused(tab) => Focused(Change(tab)))
  BY RenamedTab
<1>. HIDE DEF Change
<1>4. \A i \in DOMAIN ws : Reshaped(ws[i], vs[i])
  <2>. TAKE i \in DOMAIN ws
  <2>. DEFINE w == ws[i]
              ui == u(i)
  <2>1. Proper(w) /\ w.tabs \in Seq(Tabs)
    BY DEF ProperState, ProperWorkspaces, Proper, Workspaces
  <2>2. \A j \in DOMAIN w.tabs : w.tabs[j] \in Tabs
    BY <2>1
  <2>3. ui \in [DOMAIN w.tabs -> Tabs]
    BY <1>3, <2>2 DEF ReshapedTab
  <2>4. \A j \in DOMAIN w.tabs : ReshapedTab(w.tabs[j], ui[j]) /\ (Focused(w.tabs[j]) => Focused(ui[j]))
    BY <1>3, <2>2 DEF ReshapedTab
  <2>5. vs[i] = [w EXCEPT !.tabs = ui]
    OBVIOUS
  <2>. HIDE DEF w, ui, vs
  <2>6. Reshaped(w, [w EXCEPT !.tabs = ui])
    BY <2>1, <2>3, <2>4, TabsReshaped
  <2>. QED BY <2>5, <2>6 DEF w
<1>5. vs \in [DOMAIN ws -> Workspaces]
  BY <1>4 DEF Reshaped
<1>. HIDE DEF vs
<1>6. Keeps(s, v)
  BY <1>4, <1>5, StateReshaped DEF Keeps
<1>. QED BY <1>1, <1>2, <1>6

\* A tab whose active terminal is another of its terminals.
LEMMA PaneFocused ==
    ASSUME NEW tab \in Tabs, NEW t \in Id
    PROVE  LET u == [tab EXCEPT !.activeTerminal = t]
           IN  ReshapedTab(tab, u) /\ (t \in TerminalsIn(tab.root) => Focused(u))
<1>. DEFINE u == [tab EXCEPT !.activeTerminal = t]
<1>1. u \in Tabs /\ u.id = tab.id /\ u.root = tab.root /\ u.activeTerminal = t
  BY DEF Tabs
<1>. HIDE DEF u
<1>2. ReshapedTab(tab, u) /\ (t \in TerminalsIn(tab.root) => Focused(u))
  BY <1>1 DEF ReshapedTab, Focused
<1>. QED BY <1>2 DEF u

\* Focusing a pane, with its tab and workspace; a terminal without a pane
\* changes nothing.
THEOREM PaneSelected ==
    ASSUME NEW s, ProperState(s), NEW t
    PROVE  Keeps(s, SelectPane(s, t))
<1>. DEFINE ws == s.workspaces
            owners == {i \in DOMAIN ws : t \in TerminalsOf(ws[i])}
            i0 == Min(owners)
            tabs0 == ws[i0].tabs
            panes == {j \in DOMAIN tabs0 : ContainsTerminal(tabs0[j].root, t)}
            j0 == Min(panes)
            wid == ws[i0].id
            tid == tabs0[j0].id
<1>1. CASE owners = {}
  BY <1>1, SameState DEF SelectPane
<1>2. CASE owners # {}
  <2>. DEFINE Change(tab) == [tab EXCEPT !.activeTerminal = t]
              u(i) == [j \in DOMAIN ws[i].tabs |->
                          IF ws[i].tabs[j].id = tid THEN Change(ws[i].tabs[j]) ELSE ws[i].tabs[j]]
              e == [i \in DOMAIN ws |-> IF ws[i].id = wid THEN [ws[i] EXCEPT !.tabs = u(i)] ELSE ws[i]]
              s1 == [s EXCEPT !.workspaces = e]
              vs == [i \in DOMAIN s1.workspaces |->
                        IF s1.workspaces[i].id = wid THEN [s1.workspaces[i] EXCEPT !.activeTab = tid]
                        ELSE s1.workspaces[i]]
              v == [s EXCEPT !.workspaces = vs, !.active = wid]
  <2>1. /\ ws \in Seq(Workspaces) /\ s \in States
        /\ \A i \in DOMAIN ws : Proper(ws[i]) /\ ws[i] \in Workspaces /\ ws[i].tabs \in Seq(Tabs) /\ ws[i].id \in Id
        /\ \A i, k \in DOMAIN ws : ws[i].id = ws[k].id => i = k
    BY DEF ProperState, ProperWorkspaces, States, Proper, Workspaces, IdsDiffer
  <2>2. i0 \in DOMAIN ws /\ t \in TerminalsOf(ws[i0])
    <3>1. owners \subseteq Nat
      BY <2>1
    <3>. HIDE DEF owners
    <3>2. i0 \in owners
      BY <1>2, <3>1, MinIsLeast
    <3>. QED BY <3>2 DEF owners
  <2>3. j0 \in DOMAIN tabs0 /\ t \in TerminalsIn(tabs0[j0].root)
    <3>. HIDE DEF i0
    <3>0. tabs0 \in Seq(Tabs)
      BY <2>1, <2>2
    <3>1. panes \subseteq DOMAIN tabs0 /\ DOMAIN tabs0 \subseteq Nat
      BY <3>0
    <3>2. panes # {}
      BY <2>2, TerminalsOfTabs DEF ContainsTerminal
    <3>. HIDE DEF panes
    <3>3. j0 \in panes
      BY <3>1, <3>2, MinIsLeast
    <3>. QED BY <3>3 DEF panes, ContainsTerminal
  <2>4. t \in Id
    BY <2>1, <2>2, ShownIds
  <2>5. SelectPane(s, t) = [[s1 EXCEPT !.workspaces = vs] EXCEPT !.active = wid]
    BY <1>2 DEF SelectPane, EditTab, EditWorkspace, Edited
  <2>6. s1.workspaces = e
    BY <2>1 DEF States
  <2>7. [[s1 EXCEPT !.workspaces = vs] EXCEPT !.active = wid] = v
    <3>. HIDE DEF vs, wid
    <3>. QED BY <2>1 DEF States
  <2>. HIDE DEF s1, owners, i0, j0, wid, tid
  <2>15. DOMAIN e = DOMAIN ws
    OBVIOUS
  <2>8. vs = [i \in DOMAIN ws |-> IF e[i].id = wid THEN [e[i] EXCEPT !.activeTab = tid] ELSE e[i]]
    <3>. HIDE DEF e
    <3>. QED BY <2>6, <2>15
  <2>. HIDE DEF vs
  <2>9. wid = ws[i0].id /\ tid = ws[i0].tabs[j0].id /\ tid \in Id
    <3>1. wid = ws[i0].id /\ tid = ws[i0].tabs[j0].id
      BY DEF wid, tid
    <3>2. ws[i0].tabs[j0] \in Tabs
      BY <2>1, <2>2, <2>3
    <3>. QED BY <3>1, <3>2 DEF Tabs
  <2>10. \A tab \in Tabs : ReshapedTab(tab, Change(tab)) /\ (t \in TerminalsIn(tab.root) => Focused(Change(tab)))
    BY <2>4, PaneFocused
  <2>. HIDE DEF Change
  <2>11. \A i \in DOMAIN ws : Reshaped(ws[i], vs[i])
    <3>. TAKE i \in DOMAIN ws
    <3>. DEFINE w == ws[i]
                ui == u(i)
                w1 == [w EXCEPT !.tabs = ui]
    <3>1. CASE i = i0
      <4>1. w.id = wid /\ w \in Workspaces
        BY <2>1, <2>9, <3>1
      <4>2. \A j \in DOMAIN w.tabs : w.tabs[j] \in Tabs
        BY <2>1
      <4>3. ui \in [DOMAIN w.tabs -> Tabs]
        BY <2>10, <4>2 DEF ReshapedTab
      <4>4. ui \in Seq(Tabs) /\ DOMAIN ui = DOMAIN w.tabs
        BY <2>1, <4>3
      <4>5. w1 \in Workspaces /\ w1.id = w.id /\ w1.tabs = ui
        BY <4>1, <4>4 DEF Workspaces
      <4>6. e[i] = w1
        BY <4>1
      <4>7. vs[i] = [w1 EXCEPT !.activeTab = tid]
        BY <2>8, <4>1, <4>5, <4>6
      <4>8. \A j \in DOMAIN w.tabs : ReshapedTab(w.tabs[j], w.tabs[j])
        BY <4>2 DEF ReshapedTab
      <4>9. \A j \in DOMAIN w.tabs : ui[j] = IF w.tabs[j].id = tid THEN Change(w.tabs[j]) ELSE w.tabs[j]
        OBVIOUS
      <4>. HIDE DEF ui, w1, e
      <4>10. vs[i] \in Workspaces /\ vs[i].id = w.id /\ vs[i].tabs = ui /\ vs[i].activeTab = tid
        BY <2>9, <4>5, <4>7 DEF Workspaces, Id
      <4>11. tid \in Ids(w.tabs)
        BY <2>3, <2>9, <3>1 DEF Ids
      <4>12. \A j \in DOMAIN w.tabs : ReshapedTab(w.tabs[j], ui[j]) /\ ui[j].id = w.tabs[j].id
        <5>. TAKE j \in DOMAIN w.tabs
        <5>1. ReshapedTab(w.tabs[j], ui[j])
          BY <2>10, <4>2, <4>8, <4>9
        <5>. QED BY <5>1 DEF ReshapedTab
      <4>13. Focused(ui[j0]) /\ ui[j0].id = tid /\ j0 \in DOMAIN w.tabs
        BY <2>3, <2>9, <2>10, <3>1, <4>2, <4>9, <4>12
      <4>14. SomeFocused(ui)
        <5>. SUFFICES ASSUME NEW j \in DOMAIN w.tabs
                      PROVE  \E k \in DOMAIN w.tabs : ui[k].id = ui[j].id /\ Focused(ui[k])
          BY <4>4 DEF SomeFocused
        <5>1. CASE w.tabs[j].id = tid
          BY <4>12, <4>13, <5>1
        <5>2. CASE w.tabs[j].id # tid
          <6>1. PICK k \in DOMAIN w.tabs : w.tabs[k].id = w.tabs[j].id /\ Focused(w.tabs[k])
            BY <2>1 DEF Proper, SomeFocused
          <6>2. ui[k] = w.tabs[k] /\ ui[j] = w.tabs[j]
            BY <4>9, <5>2, <6>1
          <6>. QED BY <6>1, <6>2
        <5>. QED BY <5>1, <5>2
      <4>. QED BY <4>4, <4>10, <4>11, <4>12, <4>14 DEF Reshaped
    <3>2. CASE i # i0
      <4>1. w.id # wid
        BY <2>1, <2>2, <2>9, <3>2
      <4>2. e[i] = w
        BY <4>1
      <4>3. vs[i] = w
        BY <2>8, <4>1, <4>2
      <4>. QED BY <2>1, <4>3, SameShape
    <3>. QED BY <3>1, <3>2
  <2>12. vs \in [DOMAIN ws -> Workspaces]
    <3>1. \A i \in DOMAIN ws : vs[i] \in Workspaces
      BY <2>11 DEF Reshaped
    <3>. HIDE DEF e
    <3>. QED BY <2>8, <3>1
  <2>13. wid \in Ids(ws)
    BY <2>2, <2>9 DEF Ids
  <2>14. Keeps(s, v)
    BY <2>11, <2>12, <2>13, StateReshaped DEF Keeps
  <2>. QED BY <2>5, <2>7, <2>14
<1>. QED BY <1>1, <1>2

\* One of several workspaces changes, and shows more terminals.
LEMMA OneWorkspace ==
    ASSUME NEW ws \in Seq(Workspaces), ProperWorkspaces(ws),
           NEW i0 \in DOMAIN ws, NEW new, NEW vs \in [DOMAIN ws -> Workspaces],
           Proper(vs[i0]), vs[i0].id = ws[i0].id,
           \A x : x \in TerminalsOf(vs[i0]) <=> x \in TerminalsOf(ws[i0]) \/ x \in new,
           \A i \in DOMAIN ws : i # i0 => vs[i] = ws[i]
    PROVE  /\ vs \in Seq(Workspaces) /\ Len(vs) = Len(ws)
           /\ ProperWorkspaces(vs) /\ Ids(vs) = Ids(ws)
           /\ \A x : x \in ShownIn(vs) <=> x \in ShownIn(ws) \/ x \in new
           /\ Apart(ws) /\ ApartTabs(vs[i0].tabs) /\ (\A x \in new : x \notin ShownIn(ws)) => Apart(vs)
           /\ TabIds(vs) \subseteq TabIds(ws) \union Ids(vs[i0].tabs)
<1>1. DOMAIN ws = 1..Len(ws) /\ Len(ws) \in Nat
  OBVIOUS
<1>2. vs \in Seq(Workspaces) /\ DOMAIN vs = DOMAIN ws /\ Len(vs) = Len(ws)
  BY <1>1
<1>3. \A i \in DOMAIN ws : vs[i].id = ws[i].id /\ Proper(vs[i])
  BY DEF ProperWorkspaces
<1>4. ProperWorkspaces(vs) /\ Ids(vs) = Ids(ws)
  BY <1>2, <1>3 DEF ProperWorkspaces, IdsDiffer, Ids
<1>5. \A x : x \in ShownIn(vs) <=> \E i \in DOMAIN ws : x \in TerminalsOf(vs[i])
  BY <1>2, ShownInWorkspaces
<1>6. \A x : x \in ShownIn(ws) <=> \E i \in DOMAIN ws : x \in TerminalsOf(ws[i])
  BY ShownInWorkspaces
<1>7. \A x : x \in ShownIn(vs) <=> x \in ShownIn(ws) \/ x \in new
  BY <1>5, <1>6
<1>8. ASSUME Apart(ws), ApartTabs(vs[i0].tabs), \A x \in new : x \notin ShownIn(ws) PROVE Apart(vs)
  <2>1. \A i \in DOMAIN ws : ApartTabs(vs[i].tabs)
    BY <1>8 DEF Apart
  <2>2. ASSUME NEW i \in DOMAIN ws, NEW k \in DOMAIN ws, NEW x \in Id,
               x \in TerminalsOf(vs[i]), x \in TerminalsOf(vs[k])
        PROVE  i = k
    <3>1. CASE x \in new
      <4>1. \A l \in DOMAIN ws : x \notin TerminalsOf(ws[l])
        BY <1>6, <1>8, <3>1
      <4>. QED BY <2>2, <4>1
    <3>2. CASE x \notin new
      <4>1. x \in TerminalsOf(ws[i]) /\ x \in TerminalsOf(ws[k])
        BY <2>2, <3>2
      <4>. QED BY <1>8, <4>1 DEF Apart
    <3>. QED BY <3>1, <3>2
  <2>. QED BY <1>2, <2>1, <2>2 DEF Apart
<1>9. TabIds(vs) \subseteq TabIds(ws) \union Ids(vs[i0].tabs)
  <2>1. \A x : x \in TabIds(vs) <=> \E i \in DOMAIN ws : x \in Ids(vs[i].tabs)
    BY <1>2, ShownInWorkspaces
  <2>2. \A x : x \in TabIds(ws) <=> \E i \in DOMAIN ws : x \in Ids(ws[i].tabs)
    BY ShownInWorkspaces
  <2>. QED BY <2>1, <2>2
<1>. QED BY <1>2, <1>4, <1>7, <1>8, <1>9

\* A state with one more terminal.
Grown(s, t, v) ==
    /\ ProperState(v)
    /\ ToSet(v.terminals) = ToSet(s.terminals) \union {t}
    /\ \A n \in Nat : Below(s.workspaces, n) /\ t <= n => Below(v.workspaces, n)

\* A terminal becomes known, once.
LEMMA TerminalKnown ==
    ASSUME NEW s, s.terminals \in Seq(Id), NEW t \in Id
    PROVE  /\ Known(s, t) \in Seq(Id) /\ ToSet(Known(s, t)) = ToSet(s.terminals) \union {t}
           /\ Injective(s.terminals) => Injective(Known(s, t))
<1>. DEFINE q == s.terminals
            u == Append(q, t)
<1>1. CASE t \in ToSet(q)
  BY <1>1 DEF Known
<1>2. CASE t \notin ToSet(q)
  <2>1. u \in Seq(Id) /\ DOMAIN u = 1..Len(q)+1 /\ u[Len(q)+1] = t /\ \A i \in DOMAIN q : u[i] = q[i]
    OBVIOUS
  <2>2. DOMAIN q = 1..Len(q) /\ Len(q) \in Nat
    OBVIOUS
  <2>3. DOMAIN u = DOMAIN q \union {Len(q) + 1}
    BY <2>1, <2>2
  <2>. HIDE DEF u
  <2>4. ToSet(u) = ToSet(q) \union {t}
    BY <2>1, <2>3 DEF ToSet
  <2>5. \A i \in DOMAIN q : q[i] # t
    BY <1>2 DEF ToSet
  <2>6. Injective(q) => Injective(u)
    BY <2>1, <2>2, <2>3, <2>5 DEF Injective
  <2>. QED BY <1>2, <2>1, <2>4, <2>6 DEF Known, u
<1>. QED BY <1>1, <1>2

\* One workspace of a state gets a terminal.
LEMMA TerminalAdded ==
    ASSUME NEW s \in States, ProperWorkspaces(s.workspaces), ToSet(s.terminals) \subseteq Shown(s),
           NEW t \in Id, NEW i0 \in DOMAIN s.workspaces,
           NEW vs \in [DOMAIN s.workspaces -> Workspaces],
           Proper(vs[i0]), vs[i0].id = s.workspaces[i0].id,
           \A x : x \in TerminalsOf(vs[i0]) <=> x \in TerminalsOf(s.workspaces[i0]) \/ x = t,
           \A i \in DOMAIN s.workspaces : i # i0 => vs[i] = s.workspaces[i],
           Ids(vs[i0].tabs) \subseteq Ids(s.workspaces[i0].tabs) \union {t},
           NEW a \in Ids(s.workspaces)
    PROVE  LET v == [workspaces |-> vs, active |-> a, terminals |-> Known(s, t)]
           IN  /\ Grown(s, t, v)
               /\ SoundState(s) /\ t \notin ToSet(s.terminals) /\ ApartTabs(vs[i0].tabs) => SoundState(v)
<1>. DEFINE ws == s.workspaces
            v == [workspaces |-> vs, active |-> a, terminals |-> Known(s, t)]
            new == {t}
<1>1. ws \in Seq(Workspaces) /\ s.terminals \in Seq(Id)
  BY DEF States
<1>2. \A x : x \in TerminalsOf(vs[i0]) <=> x \in TerminalsOf(ws[i0]) \/ x \in new
  OBVIOUS
<1>. HIDE DEF new
<1>3. /\ vs \in Seq(Workspaces) /\ Len(vs) = Len(ws)
      /\ ProperWorkspaces(vs) /\ Ids(vs) = Ids(ws)
      /\ \A x : x \in ShownIn(vs) <=> x \in ShownIn(ws) \/ x \in new
      /\ (Apart(ws) /\ ApartTabs(vs[i0].tabs) /\ (\A x \in new : x \notin ShownIn(ws)) => Apart(vs))
      /\ TabIds(vs) \subseteq TabIds(ws) \union Ids(vs[i0].tabs)
  BY <1>1, <1>2, OneWorkspace
<1>4. /\ Known(s, t) \in Seq(Id) /\ ToSet(Known(s, t)) = ToSet(s.terminals) \union new
      /\ Injective(s.terminals) => Injective(Known(s, t))
  BY <1>1, TerminalKnown DEF new
<1>5. a \in Nat
  <2>1. PICK i \in DOMAIN ws : a = ws[i].id
    BY DEF Ids
  <2>2. ws[i] \in Workspaces
    BY <1>1
  <2>. QED BY <2>1, <2>2 DEF Workspaces, Id
<1>6. v \in States /\ v.workspaces = vs /\ v.active = a /\ v.terminals = Known(s, t)
  BY <1>3, <1>4, <1>5 DEF States
<1>. HIDE DEF v
<1>7. ProperState(v)
  BY <1>3, <1>4, <1>6 DEF ProperState, Shown
<1>8. Ids(ws[i0].tabs) \subseteq TabIds(ws)
  BY ShownInWorkspaces
<1>9. ASSUME NEW n \in Nat, Below(ws, n), t <= n PROVE Below(vs, n)
  <2>1. t \in 1..n
    BY <1>9 DEF Id
  <2>. QED BY <1>3, <1>8, <1>9, <2>1 DEF Below, new
<1>10. Grown(s, t, v)
  BY <1>4, <1>6, <1>7, <1>9 DEF Grown, new
<1>11. ASSUME SoundState(s), t \notin ToSet(s.terminals), ApartTabs(vs[i0].tabs) PROVE SoundState(v)
  <2>1. \A x \in new : x \notin ShownIn(ws)
    BY <1>11 DEF SoundState, Shown, new
  <2>2. Apart(vs)
    BY <1>3, <1>11, <2>1 DEF SoundState
  <2>. QED BY <1>3, <1>4, <1>6, <1>11, <2>2 DEF SoundState, Shown
<1>. QED BY <1>10, <1>11 DEF v

\* A workspace with new tabs.
LEMMA TabsAppended ==
    ASSUME NEW w, Proper(w), NEW added \in Seq(Id)
    PROVE  LET u == w.tabs \o TabsFor(added)
           IN  /\ u \in Seq(Tabs) /\ SomeFocused(u)
               /\ Ids(u) = Ids(w.tabs) \union ToSet(added)
               /\ \A x : (\E j \in DOMAIN u : x \in TerminalsIn(u[j].root))
                            <=> x \in TerminalsOf(w) \/ x \in ToSet(added)
               /\ ApartTabs(w.tabs) /\ Injective(added)
                     /\ (\A x \in ToSet(added) : x \notin Ids(w.tabs) /\ x \notin TerminalsOf(w))
                    => ApartTabs(u)
               /\ TabsSorted(u, added)
               /\ \A p, S : Ids(w.tabs) \intersect S = {} /\ Sorted(p, added) => InOrder(u, p, S)
<1>. DEFINE q == w.tabs
            m == Len(q)
            n == Len(added)
            r == TabsFor(added)
            u == q \o r
<1>1. /\ q \in Seq(Tabs) /\ SomeFocused(q) /\ m \in Nat /\ DOMAIN q = 1..m
      /\ n \in Nat /\ DOMAIN added = 1..n
      /\ \A j \in 1..m : q[j] \in Tabs
  BY DEF Proper, Workspaces
<1>2. \A i \in 1..n : added[i] \in Id
  BY <1>1
<1>3. /\ DOMAIN r = 1..n /\ \A i \in 1..n : r[i] = TabFor(added[i])
  BY <1>1 DEF TabsFor
<1>4. \A i \in 1..n : /\ r[i] \in Tabs /\ r[i].id = added[i] /\ TerminalsIn(r[i].root) = {added[i]}
                      /\ Once(r[i].root) /\ Focused(r[i])
  BY <1>2, <1>3, NewTab
<1>5. r \in Seq(Tabs) /\ Len(r) = n
  <2>1. r = [i \in 1..n |-> TabFor(added[i])]
    BY <1>1 DEF TabsFor
  <2>2. \A i \in 1..n : TabFor(added[i]) \in Tabs
    BY <1>3, <1>4
  <2>3. r \in [1..n -> Tabs]
    BY <2>1, <2>2
  <2>. QED BY <1>1, <2>3
<1>. HIDE DEF r, n, q, m
<1>6. /\ u \in Seq(Tabs) /\ DOMAIN u = 1..m+n
      /\ \A j \in 1..m : u[j] = q[j]
      /\ \A i \in 1..n : m + i \in 1..m+n /\ u[m+i] = r[i]
      /\ \A j \in 1..m+n : j \in 1..m \/ \E i \in 1..n : j = m + i
  <2>1. u \in Seq(Tabs) /\ Len(u) = m + n
    BY <1>1, <1>5 DEF m
  <2>2. \A j \in 1..m : u[j] = q[j]
    BY <1>1, <1>5 DEF m
  <2>3. \A i \in 1..n : m + i \in 1..m+n /\ u[m+i] = r[i]
    <3>. TAKE i \in 1..n
    <3>1. m + i \in 1..m+n /\ ~(m + i <= m) /\ (m + i) - m = i
      BY <1>1
    <3>. QED BY <1>1, <1>5, <3>1 DEF m
  <2>4. \A j \in 1..m+n : j \in 1..m \/ \E i \in 1..n : j = m + i
    <3>. TAKE j \in 1..m+n
    <3>1. CASE j > m
      <4>1. j - m \in 1..n /\ j = m + (j - m)
        BY <1>1, <3>1
      <4>. QED BY <4>1
    <3>. QED BY <1>1, <3>1
  <2>. QED BY <1>1, <2>1, <2>2, <2>3, <2>4
<1>. HIDE DEF u
<1>7. \A j \in 1..m : j \in 1..m+n
  BY <1>1
<1>8. ToSet(added) = {added[i] : i \in 1..n}
  BY <1>1 DEF ToSet
<1>9. SomeFocused(u)
  <2>. SUFFICES ASSUME NEW j \in 1..m+n PROVE \E k \in 1..m+n : u[k].id = u[j].id /\ Focused(u[k])
    BY <1>6 DEF SomeFocused
  <2>1. CASE j \in 1..m
    <3>1. PICK k \in 1..m : q[k].id = q[j].id /\ Focused(q[k])
      BY <1>1, <2>1 DEF SomeFocused
    <3>. QED BY <1>6, <1>7, <2>1, <3>1
  <2>2. CASE \E i \in 1..n : j = m + i
    <3>1. PICK i \in 1..n : j = m + i
      BY <2>2
    <3>2. Focused(u[j])
      BY <1>4, <1>6, <3>1
    <3>. QED BY <3>2
  <2>. QED BY <1>6, <2>1, <2>2
<1>10. Ids(u) = Ids(q) \union ToSet(added)
  <2>1. \A x \in Ids(u) : x \in Ids(q) \/ x \in ToSet(added)
    <3>. TAKE x \in Ids(u)
    <3>1. PICK j \in 1..m+n : x = u[j].id
      BY <1>6 DEF Ids
    <3>2. CASE j \in 1..m
      BY <1>1, <1>6, <3>1, <3>2 DEF Ids
    <3>3. CASE \E i \in 1..n : j = m + i
      BY <1>4, <1>6, <1>8, <3>1, <3>3
    <3>. QED BY <1>6, <3>2, <3>3
  <2>2. \A x \in Ids(q) : x \in Ids(u)
    BY <1>1, <1>6, <1>7 DEF Ids
  <2>3. \A x \in ToSet(added) : x \in Ids(u)
    <3>. TAKE x \in ToSet(added)
    <3>1. PICK i \in 1..n : x = added[i]
      BY <1>8
    <3>2. u[m+i].id = x /\ m + i \in DOMAIN u
      BY <1>4, <1>6, <3>1
    <3>. QED BY <3>2 DEF Ids
  <2>. QED BY <2>1, <2>2, <2>3
<1>11. ASSUME NEW x
       PROVE  (\E j \in DOMAIN u : x \in TerminalsIn(u[j].root)) <=> x \in TerminalsOf(w) \/ x \in ToSet(added)
  <2>1. x \in TerminalsOf(w) <=> \E j \in 1..m : x \in TerminalsIn(q[j].root)
    BY <1>1, TerminalsOfTabs DEF q
  <2>2. ASSUME NEW j \in DOMAIN u, x \in TerminalsIn(u[j].root)
        PROVE  x \in TerminalsOf(w) \/ x \in ToSet(added)
    <3>1. CASE j \in 1..m
      BY <1>6, <2>1, <2>2, <3>1
    <3>2. CASE \E i \in 1..n : j = m + i
      BY <1>4, <1>6, <1>8, <2>2, <3>2
    <3>. QED BY <1>6, <2>2, <3>1, <3>2
  <2>3. ASSUME x \in TerminalsOf(w) PROVE \E j \in DOMAIN u : x \in TerminalsIn(u[j].root)
    BY <1>6, <1>7, <2>1, <2>3
  <2>4. ASSUME x \in ToSet(added) PROVE \E j \in DOMAIN u : x \in TerminalsIn(u[j].root)
    <3>1. PICK i \in 1..n : x = added[i]
      BY <1>8, <2>4
    <3>2. x \in TerminalsIn(u[m+i].root) /\ m + i \in DOMAIN u
      BY <1>4, <1>6, <3>1
    <3>. QED BY <3>2
  <2>. QED BY <2>2, <2>3, <2>4
<1>12. ASSUME ApartTabs(q), Injective(added),
              \A x \in ToSet(added) : x \notin Ids(q) /\ x \notin TerminalsOf(w)
       PROVE  ApartTabs(u)
  <2>1. \A j \in 1..m+n : Once(u[j].root)
    <3>. TAKE j \in 1..m+n
    <3>1. CASE j \in 1..m
      BY <1>1, <1>6, <1>12, <3>1 DEF ApartTabs
    <3>2. CASE \E i \in 1..n : j = m + i
      BY <1>4, <1>6, <3>2
    <3>. QED BY <1>6, <3>1, <3>2
  <2>2. \A i \in 1..n, j \in 1..m : r[i].id # q[j].id
    BY <1>1, <1>4, <1>8, <1>12 DEF Ids
  <2>3. \A i \in 1..n, j \in 1..m : added[i] \notin TerminalsIn(q[j].root)
    <3>. TAKE i \in 1..n, j \in 1..m
    <3>1. added[i] \notin TerminalsOf(w)
      BY <1>8, <1>12
    <3>. QED BY <1>1, <3>1, TerminalsOfTabs DEF q
  <2>4. \A i, k \in 1..n : added[i] = added[k] => i = k
    BY <1>1, <1>12 DEF Injective
  <2>5. ASSUME NEW j \in 1..m+n, NEW k \in 1..m+n,
               u[j].id = u[k].id \/ \E x \in Id : x \in TerminalsIn(u[j].root) /\ x \in TerminalsIn(u[k].root)
        PROVE  j = k
    <3>1. CASE j \in 1..m /\ k \in 1..m
      BY <1>1, <1>6, <1>12, <2>5, <3>1 DEF ApartTabs
    <3>2. CASE j \in 1..m /\ \E i \in 1..n : k = m + i
      <4>1. PICK i \in 1..n : k = m + i
        BY <3>2
      <4>2. u[j] = q[j] /\ u[k] = r[i] /\ TerminalsIn(u[k].root) = {added[i]}
        BY <1>4, <1>6, <3>2, <4>1
      <4>. QED BY <2>2, <2>3, <2>5, <3>2, <4>2
    <3>3. CASE k \in 1..m /\ \E i \in 1..n : j = m + i
      <4>1. PICK i \in 1..n : j = m + i
        BY <3>3
      <4>2. u[k] = q[k] /\ u[j] = r[i] /\ TerminalsIn(u[j].root) = {added[i]}
        BY <1>4, <1>6, <3>3, <4>1
      <4>. QED BY <2>2, <2>3, <2>5, <3>3, <4>2
    <3>4. CASE (\E i \in 1..n : j = m + i) /\ \E i \in 1..n : k = m + i
      <4>1. PICK a \in 1..n, b \in 1..n : j = m + a /\ k = m + b
        BY <3>4
      <4>2. u[j] = r[a] /\ u[k] = r[b]
        BY <1>6, <4>1
      <4>3. added[a] = added[b]
        BY <1>4, <2>5, <4>2
      <4>. QED BY <2>4, <4>1, <4>3
    <3>. QED BY <1>6, <3>1, <3>2, <3>3, <3>4
  <2>. QED BY <1>6, <2>1, <2>5 DEF ApartTabs
<1>13. ASSUME NEW k \in DOMAIN added, NEW l \in DOMAIN added, k < l
       PROVE  \E i, j \in DOMAIN u : i < j /\ u[i].id = added[k] /\ u[j].id = added[l]
  <2>1. m + k \in DOMAIN u /\ m + l \in DOMAIN u /\ m + k < m + l
    BY <1>1, <1>6, <1>13
  <2>2. u[m+k].id = added[k] /\ u[m+l].id = added[l]
    BY <1>1, <1>4, <1>6
  <2>. QED BY <2>1, <2>2
<1>14. ASSUME NEW p, NEW S, Ids(q) \intersect S = {},
              Sorted(p, added)
       PROVE  InOrder(u, p, S)
  <2>1. ASSUME NEW j \in DOMAIN u, u[j].id \in S
        PROVE  \E i \in 1..n : j = m + i /\ u[j].id = added[i] /\ u[j].id \in TerminalsIn(u[j].root)
    <3>1. j \notin 1..m
      <4>1. ASSUME j \in 1..m PROVE u[j].id \in Ids(q)
        BY <1>1, <1>6, <4>1 DEF Ids
      <4>. QED BY <1>14, <2>1, <4>1
    <3>2. PICK i \in 1..n : j = m + i
      BY <1>6, <3>1
    <3>. QED BY <1>4, <1>6, <3>2
  <2>2. ASSUME NEW j \in DOMAIN u, NEW k \in DOMAIN u, j < k, u[j].id \in S, u[k].id \in S
        PROVE  Precedes(p, u[j].id, u[k].id)
    <3>1. PICK i \in 1..n : j = m + i /\ u[j].id = added[i]
      BY <2>1, <2>2
    <3>2. PICK l \in 1..n : k = m + l /\ u[k].id = added[l]
      BY <2>1, <2>2
    <3>3. i < l
      BY <1>1, <2>2, <3>1, <3>2
    <3>. QED BY <1>1, <1>14, <3>1, <3>2, <3>3 DEF Sorted
  <2>. QED BY <2>1, <2>2 DEF InOrder
<1>. QED BY <1>6, <1>9, <1>10, <1>11, <1>12, <1>13, <1>14 DEF u, r, q, TabsSorted

\* What is current is one of the elements, the one with the id if there is one.
LEMMA CurrentIn ==
    ASSUME NEW S, NEW q \in Seq(S), q # <<>>, NEW id
    PROVE  \E i \in DOMAIN q : Current(q, id) = q[i]
<1>. DEFINE at == {i \in DOMAIN q : q[i].id = id}
<1>1. at # {} => Min(at) \in at
  <2>1. at \subseteq Nat
    OBVIOUS
  <2>. QED BY <2>1, MinIsLeast
<1>2. 1 \in DOMAIN q
  OBVIOUS
<1>3. Current(q, id) = q[IF at = {} THEN 1 ELSE Min(at)]
  BY DEF Current
<1>4. at \subseteq DOMAIN q
  OBVIOUS
<1>. HIDE DEF at
<1>5. CASE at = {}
  BY <1>2, <1>3, <1>5
<1>6. CASE at # {}
  BY <1>1, <1>3, <1>4, <1>6
<1>. QED BY <1>5, <1>6

\* A new workspace shows nothing.
LEMMA NewWorkspaceProper ==
    ASSUME NEW id \in Id
    PROVE  LET w == NewWorkspace(id)
           IN  /\ Proper(w) /\ w.id = id /\ w.tabs = <<>> /\ Ids(w.tabs) = {} /\ TerminalsOf(w) = {}
               /\ ApartTabs(w.tabs)
<1>. DEFINE w == NewWorkspace(id)
<1>1. w = [id |-> id, title |-> "given", tabs |-> <<>>, activeTab |-> NoId]
  BY DEF NewWorkspace
<1>2. w \in Workspaces /\ w.id = id /\ w.tabs = <<>> /\ w.activeTab = NoId
  BY <1>1 DEF Workspaces, NoId
<1>3. DOMAIN w.tabs = {}
  BY <1>2
<1>. HIDE DEF w
<1>4. ~ \E j : j \in DOMAIN w.tabs
  BY <1>3
<1>5. Proper(w) /\ ApartTabs(w.tabs) /\ Ids(w.tabs) = {}
  BY <1>2, <1>4 DEF Proper, SomeFocused, ActiveTabExists, ApartTabs, Ids
<1>6. TerminalsOf(w) = {}
  BY <1>4, TerminalsOfTabs
<1>. QED BY <1>2, <1>5, <1>6 DEF w

\* The state with a workspace, for a new tab.
Based(s) == IF s.workspaces = <<>> THEN [s EXCEPT !.workspaces = <<EmptyDefault>>] ELSE s

\* The default workspace shows nothing either.
LEMMA WithWorkspace ==
    ASSUME NEW s, ProperState(s)
    PROVE  LET b == Based(s)
           IN  /\ b \in States /\ b.workspaces # <<>> /\ b.terminals = s.terminals
               /\ ProperWorkspaces(b.workspaces)
               /\ Shown(b) = Shown(s) /\ TabIds(b.workspaces) = TabIds(s.workspaces)
               /\ Apart(s.workspaces) => Apart(b.workspaces)
               /\ \A q, S : OwnTabs(s.workspaces, q, S) => OwnTabs(b.workspaces, q, S)
<1>1. CASE s.workspaces # <<>>
  BY <1>1 DEF Based, ProperState
<1>2. CASE s.workspaces = <<>>
  <2>. DEFINE d == EmptyDefault
              ws == <<d>>
              b == [s EXCEPT !.workspaces = ws]
  <2>1. Proper(d) /\ d \in Workspaces /\ ApartTabs(d.tabs) /\ Ids(d.tabs) = {} /\ TerminalsOf(d) = {}
    <3>1. DefaultWorkspace \in Id
      BY DEF DefaultWorkspace, Id
    <3>2. Proper(d) /\ ApartTabs(d.tabs) /\ Ids(d.tabs) = {} /\ TerminalsOf(d) = {}
      BY <3>1, NewWorkspaceProper DEF EmptyDefault
    <3>. QED BY <3>2 DEF Proper
  <2>. HIDE DEF d
  <2>2. ws \in Seq(Workspaces) /\ DOMAIN ws = {1} /\ ws[1] = d /\ ws # <<>>
    BY <2>1
  <2>. HIDE DEF ws
  <2>3. b \in States /\ b.workspaces = ws /\ b.terminals = s.terminals
    BY <2>2 DEF ProperState, States
  <2>4. ProperWorkspaces(ws)
    BY <2>1, <2>2 DEF ProperWorkspaces, IdsDiffer
  <2>5. Apart(ws)
    BY <2>1, <2>2 DEF Apart
  <2>6. ~ \E i : i \in DOMAIN s.workspaces
    BY <1>2
  <2>7. ShownIn(ws) = {} /\ TabIds(ws) = {} /\ ShownIn(s.workspaces) = {} /\ TabIds(s.workspaces) = {}
    BY <2>1, <2>2, <2>6, ShownInWorkspaces
  <2>8. Based(s) = b
    BY <1>2 DEF Based, ws, d
  <2>. HIDE DEF b
  <2>9. \A q, S : OwnTabs(ws, q, S)
    BY <2>1, <2>2, NoTabsInOrder DEF OwnTabs
  <2>. QED BY <2>2, <2>3, <2>4, <2>5, <2>7, <2>8, <2>9 DEF Shown
<1>. QED BY <1>1, <1>2

\* A new tab for a terminal.
LEMMA TabCreated ==
    ASSUME NEW s, ProperState(s), NEW t \in Id
    PROVE  LET v == CreateTab(s, t)
           IN  /\ Grown(s, t, v)
               /\ SoundState(s) /\ t \notin ToSet(s.terminals) /\ t \notin TabIds(s.workspaces)
                     => SoundState(v) /\ KeepsOrder(s, v)
<1>. DEFINE b == Based(s)
            ws == b.workspaces
            id == ActiveWorkspace(b).id
            Change(w) == [w EXCEPT !.tabs = Append(@, TabFor(t)), !.activeTab = t]
            vs == [i \in DOMAIN ws |-> IF ws[i].id = id THEN Change(ws[i]) ELSE ws[i]]
            v == [workspaces |-> vs, active |-> id, terminals |-> Known(b, t)]
            added == <<t>>
<1>1. /\ b \in States /\ ws # <<>> /\ b.terminals = s.terminals
      /\ ProperWorkspaces(ws)
      /\ Shown(b) = Shown(s) /\ TabIds(ws) = TabIds(s.workspaces)
      /\ (Apart(s.workspaces) => Apart(ws))
      /\ \A q, S : OwnTabs(s.workspaces, q, S) => OwnTabs(ws, q, S)
  BY WithWorkspace
<1>2. CreateTab(s, t) = v
  <2>1. CreateTab(s, t) = [[b EXCEPT !.workspaces = vs] EXCEPT !.active = id, !.terminals = Known(s, t)]
    BY DEF CreateTab, EditWorkspace, Edited, Based
  <2>2. Known(s, t) = Known(b, t)
    BY <1>1 DEF Known
  <2>. HIDE DEF b, vs, id
  <2>. QED BY <1>1, <2>1, <2>2 DEF States
<1>. HIDE DEF b
<1>3. /\ ws \in Seq(Workspaces) /\ \A i \in DOMAIN ws : Proper(ws[i]) /\ ws[i] \in Workspaces
      /\ \A i, k \in DOMAIN ws : ws[i].id = ws[k].id => i = k
  BY <1>1 DEF ProperWorkspaces, IdsDiffer, Proper, States
<1>4. PICK i0 \in DOMAIN ws : ActiveWorkspace(b) = ws[i0]
  BY <1>1, <1>3, CurrentIn DEF ActiveWorkspace
<1>5. id = ws[i0].id
  BY <1>4
<1>. HIDE DEF id
<1>. DEFINE w == ws[i0]
            u == w.tabs \o TabsFor(added)
<1>6. added \in Seq(Id) /\ ToSet(added) = {t} /\ Injective(added) /\ Len(added) = 1 /\ DOMAIN added = 1..1
  BY DEF ToSet, Injective
<1>7. Append(w.tabs, TabFor(t)) = u /\ w.tabs \in Seq(Tabs)
  <2>1. TabFor(t) \in Tabs
    BY NewTab
  <2>2. w.tabs \in Seq(Tabs)
    BY <1>3 DEF Workspaces
  <2>3. TabsFor(added) = <<TabFor(t)>>
    BY DEF TabsFor
  <2>. HIDE DEF w
  <2>4. Append(w.tabs, TabFor(t)) = w.tabs \o <<TabFor(t)>>
    BY <2>1, <2>2, AppendIsConcat
  <2>. QED BY <2>2, <2>3, <2>4
<1>. HIDE DEF added
<1>8. Proper(w) /\ w \in Workspaces
  BY <1>3
<1>. HIDE DEF w
<1>9. /\ u \in Seq(Tabs) /\ SomeFocused(u)
      /\ Ids(u) = Ids(w.tabs) \union {t}
      /\ \A x : (\E j \in DOMAIN u : x \in TerminalsIn(u[j].root)) <=> x \in TerminalsOf(w) \/ x = t
      /\ ApartTabs(w.tabs) /\ t \notin Ids(w.tabs) /\ t \notin TerminalsOf(w) => ApartTabs(u)
  BY <1>6, <1>8, TabsAppended
<1>. HIDE DEF u
<1>10. /\ Change(w) \in Workspaces /\ Change(w).id = w.id /\ Change(w).tabs = u /\ Change(w).activeTab = t
  BY <1>7, <1>8, <1>9 DEF Workspaces, Id
<1>11. \A i \in DOMAIN ws : vs[i] = IF i = i0 THEN Change(w) ELSE ws[i]
  BY <1>3, <1>5 DEF w
<1>12. DOMAIN vs = DOMAIN ws /\ vs \in [DOMAIN ws -> Workspaces]
  BY <1>3, <1>10, <1>11
<1>. HIDE DEF vs, Change
<1>13. /\ vs[i0].tabs = u /\ vs[i0].activeTab = t /\ vs[i0] \in Workspaces /\ vs[i0].id = ws[i0].id
       /\ \A i \in DOMAIN ws : i # i0 => vs[i] = ws[i]
  BY <1>10, <1>11 DEF w
<1>14. t \in Ids(u) /\ u # <<>>
  BY <1>9 DEF Ids
<1>15. Proper(vs[i0])
  BY <1>9, <1>13, <1>14 DEF Proper, ActiveTabExists
<1>16. \A x : x \in TerminalsOf(vs[i0]) <=> x \in TerminalsOf(ws[i0]) \/ x = t
  BY <1>9, <1>13, TerminalsOfTabs DEF w
<1>17. Ids(vs[i0].tabs) \subseteq Ids(ws[i0].tabs) \union {t}
  BY <1>9, <1>13 DEF w
<1>18. id \in Ids(ws) /\ ToSet(b.terminals) \subseteq Shown(b)
  BY <1>1, <1>5 DEF Ids, ProperState
<1>19. /\ Grown(b, t, v)
       /\ SoundState(b) /\ t \notin ToSet(b.terminals) /\ ApartTabs(vs[i0].tabs) => SoundState(v)
  BY <1>1, <1>12, <1>13, <1>15, <1>16, <1>17, <1>18, TerminalAdded
<1>20. ASSUME SoundState(s), t \notin ToSet(s.terminals), t \notin TabIds(s.workspaces)
       PROVE  SoundState(v)
  <2>1. SoundState(b)
    BY <1>1, <1>20 DEF SoundState
  <2>2. t \notin Ids(w.tabs) /\ t \notin TerminalsOf(w)
    <3>1. t \notin TabIds(ws) /\ t \notin ShownIn(ws)
      BY <1>1, <1>20 DEF SoundState, Shown
    <3>. QED BY <3>1, ShownInWorkspaces DEF w
  <2>3. ApartTabs(w.tabs)
    BY <2>1 DEF SoundState, Apart, w
  <2>. QED BY <1>1, <1>9, <1>13, <1>19, <1>20, <2>1, <2>2, <2>3
<1>21. Grown(s, t, v)
  <2>1. \A n \in Nat : Below(s.workspaces, n) => Below(ws, n)
    BY <1>1 DEF Below, Shown
  <2>. HIDE DEF v
  <2>. QED BY <1>1, <1>19, <2>1 DEF Grown
<1>22. ASSUME SoundState(s), t \notin ToSet(s.terminals) PROVE KeepsOrder(s, v)
  <2>. DEFINE r == Known(b, t)
  <2>1. /\ \A x, y : Precedes(s.terminals, x, y) => Precedes(r, x, y)
        /\ \A x \in ToSet(s.terminals) : Precedes(r, x, t)
    BY <1>1, <1>22, KnownFollows DEF States
  <2>. HIDE DEF r
  <2>2. ASSUME NEW j \in DOMAIN w.tabs, NEW x \in TerminalsIn(w.tabs[j].root) PROVE Precedes(r, x, t)
    <3>1. x \in ShownIn(ws)
      BY TerminalsOfTabs, ShownInWorkspaces DEF w
    <3>2. x \in ToSet(s.terminals)
      BY <1>1, <1>22, <3>1 DEF SoundState, Shown
    <3>. QED BY <2>1, <3>2
  <2>3. ASSUME NEW S, OwnTabs(ws, s.terminals, S), NEW i \in DOMAIN ws
        PROVE  InOrder(vs[i].tabs, r, S)
    <3>1. InOrder(ws[i].tabs, s.terminals, S)
      BY <2>3 DEF OwnTabs
    <3>2. CASE i = i0
      BY <1>7, <1>13, <2>1, <2>2, <3>1, <3>2, NewTabFollows DEF w
    <3>3. CASE i # i0
      BY <1>13, <2>1, <3>1, <3>3 DEF InOrder
    <3>. QED BY <3>2, <3>3
  <2>4. \A S : OwnTabs(s.workspaces, s.terminals, S) => OwnTabs(vs, r, S)
    BY <1>1, <1>12, <2>3 DEF OwnTabs
  <2>5. vs # <<>>
    BY <1>1, <1>3, <1>12
  <2>. QED BY <2>4, <2>5 DEF KeepsOrder, r
<1>. QED BY <1>2, <1>20, <1>21, <1>22

\* A tab whose active pane is split, and the new pane focused.
LEMMA TabSplit ==
    ASSUME NEW tab \in Tabs, NEW t \in Id, NEW direction \in Directions
    PROVE  LET u == [SplitTab(tab, Pane(t), direction) EXCEPT !.activeTerminal = t]
           IN  /\ u \in Tabs /\ u.id = tab.id
               /\ TerminalsIn(u.root) = TerminalsIn(tab.root) \union IF Focused(tab) THEN {t} ELSE {}
               /\ Once(tab.root) /\ t \notin TerminalsIn(tab.root) => Once(u.root)
               /\ Focused(tab) => Focused(u)
<1>. DEFINE root == PaneSplit(tab.root, tab.activeTerminal, direction, Pane(t))
            u == [SplitTab(tab, Pane(t), direction) EXCEPT !.activeTerminal = t]
<1>1. IsTree(tab.root) /\ tab.activeTerminal \in Nat \ {0}
  BY TreesAreTrees DEF Tabs, Id
<1>2. Pane(t) \in Nodes /\ Pane(t).type = "pane" /\ Pane(t).type # "split" /\ Pane(t).id = t
  BY DEF Pane, Nodes, Id
<1>3. /\ IsTree(root)
      /\ TerminalsIn(root) = TerminalsIn(tab.root) \union
            IF tab.activeTerminal \in TerminalsIn(tab.root) /\ Pane(t).type = "pane" THEN {Pane(t).id} ELSE {}
      /\ (Once(tab.root) /\ (Pane(t).type = "pane" => Pane(t).id \notin TerminalsIn(tab.root)) => Once(root))
  BY <1>1, <1>2, SplitTree
<1>4. u = [[tab EXCEPT !.root = root] EXCEPT !.activeTerminal = t]
  BY DEF SplitTab
<1>5. root \in Trees
  BY <1>3, TreesAreTrees
<1>6. /\ TerminalsIn(root) = TerminalsIn(tab.root) \union IF Focused(tab) THEN {t} ELSE {}
      /\ Once(tab.root) /\ t \notin TerminalsIn(tab.root) => Once(root)
  BY <1>2, <1>3 DEF Focused
<1>. HIDE DEF root, u
<1>7. u \in Tabs /\ u.id = tab.id /\ u.root = root /\ u.activeTerminal = t
  BY <1>4, <1>5 DEF Tabs
<1>8. Focused(tab) => Focused(u)
  BY <1>6, <1>7 DEF Focused
<1>. QED BY <1>6, <1>7, <1>8 DEF u

\* The active pane is split for a terminal; without a tab it gets one.
LEMMA ActiveSplit ==
    ASSUME NEW s, ProperState(s), NEW t \in Id, NEW direction \in Directions
    PROVE  LET v == SplitActive(s, t, direction)
           IN  /\ Grown(s, t, v)
               /\ SoundState(s) /\ t \notin ToSet(s.terminals)
                     /\ (t \notin TabIds(s.workspaces) \/ HasTab(s))
                     => SoundState(v) /\ KeepsOrder(s, v)
<1>1. CASE ~HasTab(s)
  <2>1. SplitActive(s, t, direction) = CreateTab(s, t)
    BY <1>1 DEF SplitActive
  <2>. QED BY <1>1, <2>1, TabCreated
<1>2. CASE HasTab(s)
  <2>. DEFINE ws == s.workspaces
              id == ActiveWorkspace(s).id
              tid == ActiveTab(s).id
              Change(tab) == [SplitTab(tab, Pane(t), direction) EXCEPT !.activeTerminal = t]
              u(w) == [j \in DOMAIN w.tabs |-> IF w.tabs[j].id = tid THEN Change(w.tabs[j]) ELSE w.tabs[j]]
              vs == [i \in DOMAIN ws |-> IF ws[i].id = id THEN [ws[i] EXCEPT !.tabs = u(ws[i])] ELSE ws[i]]
              v == [workspaces |-> vs, active |-> s.active, terminals |-> Known(s, t)]
  <2>1. /\ ws # <<>> /\ ws \in Seq(Workspaces) /\ s \in States /\ ProperWorkspaces(ws)
        /\ ToSet(s.terminals) \subseteq Shown(s) /\ s.active \in Ids(ws)
        /\ \A i \in DOMAIN ws : Proper(ws[i]) /\ ws[i] \in Workspaces /\ ws[i].tabs \in Seq(Tabs)
        /\ \A i, k \in DOMAIN ws : ws[i].id = ws[k].id => i = k
    BY <1>2 DEF HasTab, ProperState, ProperWorkspaces, IdsDiffer, Proper, States, Workspaces
  <2>2. SplitActive(s, t, direction) = v
    <3>1. SplitActive(s, t, direction) = [[s EXCEPT !.workspaces = vs] EXCEPT !.terminals = Known(s, t)]
      BY <1>2 DEF SplitActive, EditActiveTab, EditTab, EditWorkspace, Edited
    <3>. HIDE DEF vs
    <3>. QED BY <2>1, <3>1 DEF States
  <2>3. PICK i0 \in DOMAIN ws : ActiveWorkspace(s) = ws[i0]
    BY <2>1, CurrentIn DEF ActiveWorkspace
  <2>. DEFINE w == ws[i0]
              ui == u(w)
  <2>4. w.tabs \in Seq(Tabs) /\ w.tabs # <<>> /\ Proper(w) /\ w \in Workspaces
    BY <1>2, <2>1, <2>3 DEF HasTab
  <2>5. PICK j0 \in DOMAIN w.tabs : w.tabs[j0].id = tid
    <3>1. ActiveTab(s) = Current(w.tabs, w.activeTab)
      BY <2>3 DEF ActiveTab
    <3>. HIDE DEF w
    <3>2. \E j \in DOMAIN w.tabs : Current(w.tabs, w.activeTab) = w.tabs[j]
      BY <2>4, CurrentIn
    <3>. QED BY <3>1, <3>2
  <2>6. id = ws[i0].id
    BY <2>3
  <2>. HIDE DEF id, tid
  <2>7. \A tab \in Tabs :
           /\ Change(tab) \in Tabs /\ Change(tab).id = tab.id
           /\ TerminalsIn(Change(tab).root) = TerminalsIn(tab.root) \union IF Focused(tab) THEN {t} ELSE {}
           /\ (Once(tab.root) /\ t \notin TerminalsIn(tab.root) => Once(Change(tab).root))
           /\ (Focused(tab) => Focused(Change(tab)))
    BY TabSplit
  <2>. HIDE DEF Change
  <2>8. \A j \in DOMAIN w.tabs : w.tabs[j] \in Tabs
    BY <2>4
  <2>9. /\ ui \in [DOMAIN w.tabs -> Tabs]
        /\ \A j \in DOMAIN w.tabs : ui[j] = IF w.tabs[j].id = tid THEN Change(w.tabs[j]) ELSE w.tabs[j]
    BY <2>7, <2>8
  <2>10. \A i \in DOMAIN ws : vs[i] = IF i = i0 THEN [w EXCEPT !.tabs = ui] ELSE ws[i]
    BY <2>1, <2>6
  <2>11. ui \in Seq(Tabs) /\ DOMAIN ui = DOMAIN w.tabs /\ Len(ui) = Len(w.tabs)
    BY <2>4, <2>9
  <2>19. DOMAIN vs = DOMAIN ws /\ vs = [i \in DOMAIN vs |-> vs[i]]
    OBVIOUS
  <2>. HIDE DEF w, ui, vs
  <2>12. [w EXCEPT !.tabs = ui] \in Workspaces /\ [w EXCEPT !.tabs = ui].id = w.id
         /\ [w EXCEPT !.tabs = ui].tabs = ui /\ [w EXCEPT !.tabs = ui].activeTab = w.activeTab
    BY <2>4, <2>11 DEF Workspaces
  <2>13. /\ vs[i0] \in Workspaces /\ vs[i0].id = ws[i0].id /\ vs[i0].tabs = ui /\ vs[i0].activeTab = w.activeTab
         /\ \A i \in DOMAIN ws : i # i0 => vs[i] = ws[i]
    BY <2>10, <2>12 DEF w
  <2>14. vs \in [DOMAIN ws -> Workspaces]
    <3>1. \A i \in DOMAIN ws : vs[i] \in Workspaces
      BY <2>1, <2>13
    <3>. QED BY <2>19, <3>1
  <2>15. \A j \in DOMAIN w.tabs : ui[j].id = w.tabs[j].id
    BY <2>7, <2>8, <2>9
  <2>16. PICK k0 \in DOMAIN w.tabs : w.tabs[k0].id = tid /\ Focused(w.tabs[k0])
    BY <2>4, <2>5 DEF Proper, SomeFocused
  <2>17. Focused(ui[k0]) /\ t \in TerminalsIn(ui[k0].root)
    BY <2>7, <2>8, <2>9, <2>16
  <2>18. SomeFocused(ui)
    <3>. SUFFICES ASSUME NEW j \in DOMAIN w.tabs
                  PROVE  \E k \in DOMAIN w.tabs : ui[k].id = ui[j].id /\ Focused(ui[k])
      BY <2>11 DEF SomeFocused
    <3>1. PICK k \in DOMAIN w.tabs : w.tabs[k].id = w.tabs[j].id /\ Focused(w.tabs[k])
      BY <2>4 DEF Proper, SomeFocused
    <3>2. Focused(ui[k])
      BY <2>7, <2>8, <2>9, <3>1
    <3>. QED BY <2>15, <3>1, <3>2
  <2>20. Ids(ui) = Ids(w.tabs)
    BY <2>11, <2>15 DEF Ids
  <2>21. Proper(vs[i0])
    <3>1. ui = <<>> <=> w.tabs = <<>>
      BY <2>4, <2>11
    <3>. QED BY <2>4, <2>13, <2>18, <2>20, <3>1 DEF Proper, ActiveTabExists
  <2>22. \A j \in DOMAIN w.tabs : /\ \A x \in TerminalsIn(ui[j].root) : x \in TerminalsIn(w.tabs[j].root) \/ x = t
                                  /\ \A x \in TerminalsIn(w.tabs[j].root) : x \in TerminalsIn(ui[j].root)
    <3>. TAKE j \in DOMAIN w.tabs
    <3>. DEFINE tab == w.tabs[j]
    <3>1. tab \in Tabs /\ ui[j] \in {tab, Change(tab)}
      BY <2>8, <2>9
    <3>2. TerminalsIn(Change(tab).root) = TerminalsIn(tab.root) \union IF Focused(tab) THEN {t} ELSE {}
      BY <2>7, <3>1
    <3>. HIDE DEF tab
    <3>3. CASE ui[j] = tab
      BY <3>3 DEF tab
    <3>4. CASE ui[j] = Change(tab)
      BY <3>2, <3>4 DEF tab
    <3>. QED BY <3>1, <3>3, <3>4
  <2>23. \A x : x \in TerminalsOf(vs[i0]) <=> x \in TerminalsOf(ws[i0]) \/ x = t
    <3>1. \A x : x \in TerminalsOf(vs[i0]) <=> \E j \in DOMAIN w.tabs : x \in TerminalsIn(ui[j].root)
      BY <2>11, <2>13, TerminalsOfTabs
    <3>2. \A x : x \in TerminalsOf(ws[i0]) <=> \E j \in DOMAIN w.tabs : x \in TerminalsIn(w.tabs[j].root)
      BY TerminalsOfTabs DEF w
    <3>3. t \in TerminalsOf(vs[i0])
      BY <2>16, <2>17, <3>1
    <3>. QED BY <2>22, <3>1, <3>2, <3>3
  <2>24. Ids(vs[i0].tabs) \subseteq Ids(ws[i0].tabs) \union {t}
    BY <2>13, <2>20 DEF w
  <2>25. /\ Grown(s, t, v)
         /\ SoundState(s) /\ t \notin ToSet(s.terminals) /\ ApartTabs(vs[i0].tabs) => SoundState(v)
    BY <2>1, <2>13, <2>14, <2>21, <2>23, <2>24, TerminalAdded
  <2>26. ASSUME SoundState(s), t \notin ToSet(s.terminals) PROVE ApartTabs(ui)
    <3>1. ApartTabs(w.tabs)
      BY <2>26 DEF SoundState, Apart, w
    <3>2. \A j \in DOMAIN w.tabs : t \notin TerminalsIn(w.tabs[j].root)
      <4>1. t \notin ShownIn(ws)
        BY <2>26 DEF SoundState, Shown
      <4>2. t \notin TerminalsOf(w)
        BY <4>1, ShownInWorkspaces DEF w
      <4>. QED BY <4>2, TerminalsOfTabs
    <3>3. \A j \in DOMAIN w.tabs : j # j0 => ui[j] = w.tabs[j]
      BY <2>5, <2>9, <3>1 DEF ApartTabs
    <3>4. \A j \in DOMAIN w.tabs : Once(ui[j].root)
      BY <2>7, <2>8, <2>9, <3>1, <3>2 DEF ApartTabs
    <3>5. \A j, k \in DOMAIN w.tabs : ui[j].id = ui[k].id => j = k
      BY <2>15, <3>1 DEF ApartTabs
    <3>6. ASSUME NEW j \in DOMAIN w.tabs, NEW k \in DOMAIN w.tabs, NEW x \in Id,
                 x \in TerminalsIn(ui[j].root), x \in TerminalsIn(ui[k].root)
          PROVE  j = k
      <4>1. CASE x = t
        <5>1. j = j0 /\ k = j0
          BY <3>2, <3>3, <3>6, <4>1
        <5>. QED BY <5>1
      <4>2. CASE x # t
        <5>1. x \in TerminalsIn(w.tabs[j].root) /\ x \in TerminalsIn(w.tabs[k].root)
          BY <2>22, <3>6, <4>2
        <5>. QED BY <3>1, <5>1 DEF ApartTabs
      <4>. QED BY <4>1, <4>2
    <3>. QED BY <2>11, <3>4, <3>5, <3>6 DEF ApartTabs
  <2>27. KeepsOrder(s, v)
    <3>1. \A x, y : Precedes(s.terminals, x, y) => Precedes(Known(s, t), x, y)
      BY <2>1, KnownFollows DEF States
    <3>2. \A i \in DOMAIN ws :
             /\ DOMAIN vs[i].tabs = DOMAIN ws[i].tabs
             /\ \A j \in DOMAIN ws[i].tabs :
                   /\ vs[i].tabs[j].id = ws[i].tabs[j].id
                   /\ TerminalsIn(ws[i].tabs[j].root) \subseteq TerminalsIn(vs[i].tabs[j].root)
      <4>. TAKE i \in DOMAIN ws
      <4>1. CASE i = i0
        BY <2>11, <2>13, <2>15, <2>22, <4>1 DEF w
      <4>2. CASE i # i0
        BY <2>13, <4>2
      <4>. QED BY <4>1, <4>2
    <3>3. DOMAIN vs = DOMAIN ws
      BY <2>14
    <3>4. ASSUME NEW S, OwnTabs(ws, s.terminals, S) PROVE OwnTabs(vs, Known(s, t), S)
      BY <3>1, <3>2, <3>3, <3>4, OwnTabsAlike
    <3>5. vs # <<>>
      BY <2>1, <3>3
    <3>. QED BY <3>4, <3>5 DEF KeepsOrder
  <2>. QED BY <2>2, <2>13, <2>25, <2>26, <2>27
<1>. QED BY <1>1, <1>2

\* A new workspace becomes the active one.
LEMMA WorkspaceCreated ==
    ASSUME NEW s, ProperState(s), NEW id \in Id
    PROVE  Keeps(s, CreateWorkspace(s, id))
<1>1. CASE id \in Ids(s.workspaces)
  BY <1>1, WorkspaceSelected DEF CreateWorkspace
<1>2. CASE id \notin Ids(s.workspaces)
  <2>. DEFINE ws == s.workspaces
              m == Len(ws)
              d == NewWorkspace(id)
              vs == Append(ws, d)
              v == [s EXCEPT !.workspaces = vs, !.active = id]
  <2>1. /\ Proper(d) /\ d.id = id /\ Ids(d.tabs) = {} /\ TerminalsOf(d) = {} /\ ApartTabs(d.tabs)
        /\ d \in Workspaces
    BY NewWorkspaceProper DEF Proper
  <2>2. /\ s \in States /\ ws \in Seq(Workspaces) /\ ProperWorkspaces(ws)
        /\ ToSet(s.terminals) \subseteq Shown(s) /\ DOMAIN ws = 1..m /\ m \in Nat
    BY DEF ProperState, States
  <2>3. CreateWorkspace(s, id) = v
    <3>1. CreateWorkspace(s, id) = [s EXCEPT !.workspaces = Append(@, d), !.active = id]
      BY <1>2 DEF CreateWorkspace
    <3>. HIDE DEF d
    <3>. QED BY <3>1
  <2>. HIDE DEF d, m
  <2>4. /\ vs \in Seq(Workspaces) /\ DOMAIN vs = 1..m+1 /\ vs[m+1] = d
        /\ \A i \in 1..m : vs[i] = ws[i]
    BY <2>1, <2>2 DEF m
  <2>5. DOMAIN vs = DOMAIN ws \union {m+1} /\ m+1 \notin DOMAIN ws
    BY <2>2, <2>4
  <2>. HIDE DEF vs
  <2>6. v \in States /\ v.workspaces = vs /\ v.active = id /\ v.terminals = s.terminals
    BY <2>2, <2>4 DEF States, Id
  <2>7. id \in Ids(vs)
    BY <2>1, <2>4, <2>5 DEF Ids
  <2>8. \A i \in DOMAIN ws : ws[i].id # id
    BY <1>2 DEF Ids
  <2>9. ProperWorkspaces(vs)
    BY <2>1, <2>2, <2>4, <2>5, <2>8 DEF ProperWorkspaces, IdsDiffer
  <2>10. \A x : x \in ShownIn(vs) <=> x \in ShownIn(ws)
    BY <2>1, <2>2, <2>4, <2>5, ShownInWorkspaces
  <2>11. \A x : x \in TabIds(vs) <=> x \in TabIds(ws)
    BY <2>1, <2>2, <2>4, <2>5, ShownInWorkspaces
  <2>12. Apart(ws) => Apart(vs)
    BY <2>1, <2>2, <2>4, <2>5 DEF Apart
  <2>. HIDE DEF v
  <2>13. ProperState(v)
    BY <2>2, <2>6, <2>7, <2>9, <2>10 DEF ProperState, Shown
  <2>14. SoundState(s) => SoundState(v)
    BY <2>6, <2>10, <2>12 DEF SoundState, Shown
  <2>15. \A n \in Nat : Below(ws, n) => Below(v.workspaces, n)
    BY <2>6, <2>10, <2>11 DEF Below
  <2>16. \A S : OwnTabs(ws, s.terminals, S) => OwnTabs(vs, s.terminals, S)
    <3>. SUFFICES ASSUME NEW S, OwnTabs(ws, s.terminals, S), NEW i \in DOMAIN vs
                  PROVE  InOrder(vs[i].tabs, s.terminals, S)
      BY DEF OwnTabs
    <3>1. CASE i \in DOMAIN ws
      BY <2>2, <2>4, <3>1 DEF OwnTabs
    <3>2. CASE i = m+1
      BY <2>1, <2>4, <3>2, NoTabsInOrder
    <3>. QED BY <2>5, <3>1, <3>2
  <2>17. KeepsOrder(s, v)
    <3>1. vs # <<>>
      BY <2>2, <2>4
    <3>. QED BY <2>6, <2>16, <3>1 DEF KeepsOrder
  <2>. QED BY <2>3, <2>6, <2>13, <2>14, <2>15, <2>17 DEF Keeps
<1>. QED BY <1>1, <1>2

\* With the id of an element, it is an element of this id.
LEMMA CurrentIs ==
    ASSUME NEW S, NEW q \in Seq(S), NEW id \in Ids(q)
    PROVE  \E i \in DOMAIN q : Current(q, id) = q[i] /\ q[i].id = id
<1>. DEFINE at == {i \in DOMAIN q : q[i].id = id}
<1>1. at # {} /\ at \subseteq Nat /\ at \subseteq DOMAIN q
  BY DEF Ids
<1>2. Current(q, id) = q[Min(at)]
  BY <1>1 DEF Current
<1>3. \A i \in at : q[i].id = id
  OBVIOUS
<1>. HIDE DEF at
<1>4. Min(at) \in at
  BY <1>1, MinIsLeast
<1>. QED BY <1>1, <1>2, <1>3, <1>4

\* Closing a workspace, with the terminals it shows.
LEMMA WorkspaceClosed ==
    ASSUME NEW s, ProperState(s), NEW id
    PROVE  LET v == CloseWorkspace(s, id)
           IN  /\ ProperState(v) /\ ToSet(v.terminals) \subseteq ToSet(s.terminals)
               /\ SoundState(s) => SoundState(v) /\ KeepsOrder(s, v)
               /\ \A n \in Nat : Below(s.workspaces, n) => Below(v.workspaces, n)
<1>1. CASE Len(s.workspaces) <= 1 \/ id \notin Ids(s.workspaces)
  BY <1>1 DEF CloseWorkspace, KeepsOrder
<1>2. CASE ~(Len(s.workspaces) <= 1 \/ id \notin Ids(s.workspaces))
  <2>. DEFINE ws == s.workspaces
              q == s.terminals
              I == {i \in DOMAIN ws : ws[i].id # id}
              n == Cardinality(I)
              at(k) == Source(I, k)
              left == Subsequence(ws, I)
              closed == TerminalsOf(Current(ws, id))
              a == IF s.active = id THEN left[1].id ELSE s.active
              rest == Without(q, closed)
              v == CloseWorkspace(s, id)
  <2>1. /\ s \in States /\ ws \in Seq(Workspaces) /\ q \in Seq(Id) /\ ToSet(q) \subseteq Shown(s)
        /\ s.active \in Ids(ws) /\ DOMAIN ws = 1..Len(ws) /\ Len(ws) \in Nat /\ Len(ws) > 1
        /\ \A i \in DOMAIN ws : Proper(ws[i]) /\ ws[i] \in Workspaces
        /\ \A i, k \in DOMAIN ws : ws[i].id = ws[k].id => i = k
    BY <1>2 DEF ProperState, States, ProperWorkspaces, IdsDiffer
  <2>2. v = [workspaces |-> left, active |-> a, terminals |-> rest]
    BY <1>2 DEF CloseWorkspace
  <2>3. I \subseteq 1..Len(ws)
    BY <2>1
  <2>4. PICK i0 \in DOMAIN ws : Current(ws, id) = ws[i0] /\ ws[i0].id = id
    BY <1>2, <2>1, CurrentIs
  <2>5. I = DOMAIN ws \ {i0}
    BY <2>1, <2>4
  <2>6. closed = TerminalsOf(ws[i0])
    BY <2>4
  <2>. HIDE DEF I, closed
  <2>7. /\ n \in Nat
        /\ \A k \in 1..n : at(k) \in I /\ at(k) \in DOMAIN ws
        /\ \A k, l \in 1..n : at(k) = at(l) => k = l
        /\ \A i \in I : \E k \in 1..n : at(k) = i
    BY <2>1, <2>3, Sources
  <2>8. left \in Seq(Workspaces) /\ left = [k \in 1..n |-> ws[at(k)]]
    <3>1. I \subseteq DOMAIN ws
      BY <2>1, <2>3
    <3>. HIDE DEF ws
    <3>2. left \in Seq(Workspaces)
      BY <2>1, <3>1, SubsequenceSource
    <3>3. left = [k \in 1..n |-> ws[Source(I, k)]]
      BY <2>1, <3>1, SubsequenceSource
    <3>. QED BY <3>2, <3>3
  <2>. HIDE DEF at, n
  <2>9. DOMAIN left = 1..n /\ \A k \in 1..n : left[k] = ws[at(k)]
    BY <2>8
  <2>. HIDE DEF left
  <2>10. I # {}
    <3>1. 1 \in DOMAIN ws /\ 2 \in DOMAIN ws
      BY <2>1
    <3>. QED BY <2>5, <3>1
  <2>11. 1 \in DOMAIN left /\ left # <<>>
    BY <2>7, <2>8, <2>9, <2>10
  <2>12. a \in Ids(left) /\ a \in Nat
    <3>1. CASE s.active = id
      <4>1. left[1] \in Workspaces
        BY <2>1, <2>7, <2>9, <2>11
      <4>. QED BY <2>11, <3>1, <4>1 DEF Ids, Workspaces, Id
    <3>2. CASE s.active # id
      <4>1. PICK i \in DOMAIN ws : ws[i].id = s.active
        BY <2>1 DEF Ids
      <4>2. i \in I
        BY <2>4, <2>5, <3>2, <4>1
      <4>3. PICK k \in 1..n : at(k) = i
        BY <2>7, <4>2
      <4>4. left[k].id = s.active
        BY <2>9, <4>1, <4>3
      <4>. QED BY <2>1, <2>9, <3>2, <4>4 DEF Ids, States
    <3>. QED BY <3>1, <3>2
  <2>13. rest \in Seq(Id) /\ ToSet(rest) = ToSet(q) \ closed /\ (Injective(q) => Injective(rest))
    BY <2>1, TerminalsLeft
  <2>. HIDE DEF a, rest, v
  <2>14. v \in States /\ v.workspaces = left /\ v.active = a /\ v.terminals = rest
    BY <2>2, <2>8, <2>12, <2>13 DEF States
  <2>15. \A k, l \in 1..n : left[k].id = left[l].id => k = l
    BY <2>1, <2>7, <2>9
  <2>16. ProperWorkspaces(left)
    BY <2>1, <2>7, <2>9, <2>15 DEF ProperWorkspaces, IdsDiffer
  <2>17. \A x : x \in ShownIn(left) <=> \E i \in I : x \in TerminalsOf(ws[i])
    BY <2>7, <2>9, ShownInWorkspaces
  <2>18. \A x : x \in ShownIn(ws) <=> \E i \in DOMAIN ws : x \in TerminalsOf(ws[i])
    BY ShownInWorkspaces
  <2>19. \A x \in ToSet(rest) : x \in ShownIn(left)
    BY <2>1, <2>5, <2>6, <2>13, <2>17, <2>18 DEF Shown
  <2>20. ProperState(v)
    BY <2>11, <2>12, <2>14, <2>16, <2>19 DEF ProperState, Shown
  <2>21. ASSUME SoundState(s) PROVE SoundState(v)
    <3>1. Apart(ws) /\ \A x \in ShownIn(ws) : x \in ToSet(q)
      BY <2>21 DEF SoundState, Shown
    <3>2. Apart(left)
      <4>1. \A k \in 1..n : ApartTabs(left[k].tabs)
        BY <2>7, <2>9, <3>1 DEF Apart
      <4>2. ASSUME NEW k \in 1..n, NEW l \in 1..n, NEW x \in Id,
                   x \in TerminalsOf(left[k]), x \in TerminalsOf(left[l])
            PROVE  k = l
        <5>1. at(k) = at(l)
          BY <2>7, <2>9, <3>1, <4>2 DEF Apart
        <5>. QED BY <2>7, <5>1
      <4>. QED BY <2>9, <4>1, <4>2 DEF Apart
    <3>3. ASSUME NEW x \in ShownIn(left) PROVE x \in ToSet(rest)
      <4>1. PICK i \in I : x \in TerminalsOf(ws[i])
        BY <2>17
      <4>2. i \in DOMAIN ws /\ i # i0
        BY <2>5
      <4>3. x \in Id
        BY <2>1, <4>1, <4>2, ShownIds
      <4>4. x \notin closed
        BY <2>6, <3>1, <4>1, <4>2, <4>3 DEF Apart
      <4>. QED BY <2>13, <2>18, <3>1, <4>1, <4>2, <4>4
    <3>. QED BY <2>13, <2>14, <2>21, <3>2, <3>3 DEF SoundState, Shown
  <2>22. TabIds(left) \subseteq TabIds(ws) /\ ShownIn(left) \subseteq ShownIn(ws)
    BY <2>7, <2>9, ShownInWorkspaces
  <2>23. \A m \in Nat : Below(ws, m) => Below(v.workspaces, m)
    BY <2>14, <2>22 DEF Below
  <2>24. ASSUME SoundState(s), NEW S, OwnTabs(ws, q, S) PROVE OwnTabs(left, rest, S)
    <3>1. Apart(ws)
      BY <2>24 DEF SoundState
    <3>2. OwnTabs(left, q, S)
      BY <2>7, <2>9, <2>24 DEF OwnTabs
    <3>3. ASSUME NEW x \in ShownIn(left) PROVE x \notin closed
      <4>1. PICK i \in I : x \in TerminalsOf(ws[i])
        BY <2>17
      <4>2. i \in DOMAIN ws /\ i # i0
        BY <2>5
      <4>3. x \in Id
        BY <2>1, <4>1, <4>2, ShownIds
      <4>. QED BY <2>6, <3>1, <4>1, <4>2, <4>3 DEF Apart
    <3>. QED BY <2>1, <3>2, <3>3, OwnTabsLeft DEF rest
  <2>25. SoundState(s) => KeepsOrder(s, v)
    BY <2>11, <2>14, <2>24 DEF KeepsOrder
  <2>. QED BY <2>13, <2>14, <2>20, <2>21, <2>23, <2>25 DEF v
<1>. QED BY <1>1, <1>2

\* The workspaces that are restored, before the new tabs.
Restored(shells, saved) ==
    IF saved.workspaces = <<>> THEN <<EmptyDefault>>
    ELSE PrunedWorkspaces(saved.workspaces, {Pane(shells[i]) : i \in DOMAIN shells})

\* They show what was saved and is listed.
LEMMA WorkspacesRestored ==
    ASSUME NEW saved, ProperLayout(saved), NEW shells \in Seq(Id)
    PROVE  LET ws == Restored(shells, saved)
           IN  /\ ws \in Seq(Workspaces) /\ ws # <<>> /\ ProperWorkspaces(ws)
               /\ \A x : x \in ShownIn(ws) <=> x \in Shown(saved) /\ x \in ToSet(shells)
               /\ Apart(saved.workspaces) => Apart(ws)
               /\ \A id \in TabIds(ws) : \E tab \in AllTabs(saved) :
                     tab.id = id /\ TerminalsIn(tab.root) \intersect ToSet(shells) # {}
               /\ TabIds(ws) \subseteq TabIds(saved.workspaces)
<1>1. saved.workspaces \in Seq(Workspaces) /\ IdsDiffer(saved.workspaces)
  BY DEF ProperLayout, Layouts
<1>2. CASE saved.workspaces = <<>>
  <2>. DEFINE d == EmptyDefault
              ws == <<d>>
  <2>1. Proper(d) /\ d \in Workspaces /\ ApartTabs(d.tabs) /\ Ids(d.tabs) = {} /\ TerminalsOf(d) = {}
    <3>1. DefaultWorkspace \in Id
      BY DEF DefaultWorkspace, Id
    <3>2. Proper(d) /\ ApartTabs(d.tabs) /\ Ids(d.tabs) = {} /\ TerminalsOf(d) = {}
      BY <3>1, NewWorkspaceProper DEF EmptyDefault
    <3>. QED BY <3>2 DEF Proper
  <2>. HIDE DEF d
  <2>2. ws \in Seq(Workspaces) /\ DOMAIN ws = {1} /\ ws[1] = d /\ ws # <<>>
    BY <2>1
  <2>. HIDE DEF ws
  <2>3. ProperWorkspaces(ws) /\ Apart(ws)
    BY <2>1, <2>2 DEF ProperWorkspaces, IdsDiffer, Apart
  <2>4. ~ \E i : i \in DOMAIN saved.workspaces
    BY <1>2
  <2>5. ShownIn(ws) = {} /\ TabIds(ws) = {} /\ Shown(saved) = {}
    BY <2>1, <2>2, <2>4, ShownInWorkspaces DEF Shown
  <2>6. Restored(shells, saved) = ws
    BY <1>2 DEF Restored, ws, d
  <2>. QED BY <2>2, <2>3, <2>5, <2>6
<1>3. CASE saved.workspaces # <<>>
  <2>. DEFINE old == saved.workspaces
              kept == {Pane(shells[i]) : i \in DOMAIN shells}
              ws == PrunedWorkspaces(old, kept)
  <2>1. Restored(shells, saved) = ws
    BY <1>3 DEF Restored
  <2>2. \A x : Pane(x) \in kept <=> x \in ToSet(shells)
    <3>1. \A x, y : Pane(x) = Pane(y) => x = y
      BY DEF Pane
    <3>. QED BY <3>1 DEF ToSet
  <2>. HIDE DEF kept
  <2>3. /\ ws \in Seq(Workspaces) /\ DOMAIN ws = DOMAIN old /\ Len(ws) = Len(old)
        /\ \A i \in DOMAIN ws : ws[i] = PrunedWorkspace(old[i], kept) /\ Proper(ws[i])
        /\ (IdsDiffer(old) => IdsDiffer(ws))
        /\ \A x : x \in ShownIn(ws) <=> x \in ShownIn(old) /\ Pane(x) \in kept
        /\ (Apart(old) => Apart(ws))
        /\ TabIds(ws) \subseteq TabIds(old)
    BY <1>1, WorkspacesPruned
  <2>. HIDE DEF ws
  <2>4. ws # <<>>
    BY <1>1, <1>3, <2>3
  <2>5. ASSUME NEW id \in TabIds(ws)
        PROVE  \E tab \in AllTabs(saved) : tab.id = id /\ TerminalsIn(tab.root) \intersect ToSet(shells) # {}
    <3>1. PICK i \in DOMAIN ws : id \in Ids(ws[i].tabs)
      BY ShownInWorkspaces
    <3>2. old[i] \in Workspaces /\ i \in DOMAIN old
      BY <1>1, <2>3
    <3>3. PICK j \in DOMAIN old[i].tabs :
             old[i].tabs[j].id = id /\ \E x \in TerminalsIn(old[i].tabs[j].root) : Pane(x) \in kept
      <4>. DEFINE w == old[i]
      <4>1. w \in Workspaces /\ id \in Ids(PrunedWorkspace(w, kept).tabs)
        BY <2>3, <3>1, <3>2
      <4>. HIDE DEF w
      <4>2. \E j \in DOMAIN w.tabs : w.tabs[j].id = id /\ \E x \in TerminalsIn(w.tabs[j].root) : Pane(x) \in kept
        BY <4>1, WorkspacePruned
      <4>. QED BY <4>2 DEF w
    <3>4. old[i].tabs[j] \in AllTabs(saved)
      BY <3>2 DEF AllTabs, ToSet
    <3>. QED BY <2>2, <3>3, <3>4
  <2>. QED BY <1>1, <2>1, <2>2, <2>3, <2>4, <2>5 DEF ProperWorkspaces, Shown
<1>. QED BY <1>2, <1>3

\* What a load shows.
THEOREM Reconstructed ==
    ASSUME NEW saved, ProperLayout(saved), NEW shells \in Seq(Id)
    PROVE  LET v == Reconstruct(shells, saved)
           IN  /\ ProperState(v) /\ v.terminals = shells
               /\ Apart(saved.workspaces) /\ Injective(shells) /\ ~Tangles(shells, saved) => SoundState(v)
               /\ \A n \in Nat : Below(saved.workspaces, n) /\ ToSet(shells) \subseteq 1..n
                     => Below(v.workspaces, n)
               /\ v.workspaces # <<>>
               /\ ~Tangles(shells, saved) =>
                     \A S : S \subseteq ToSet(shells) \ Shown(saved) => OwnTabs(v.workspaces, shells, S)
               /\ LET added == Without(shells, ShownIn(Restored(shells, saved))) IN
                  \E i \in DOMAIN v.workspaces : TabsSorted(v.workspaces[i].tabs, added)
<1>. DEFINE ws == Restored(shells, saved)
            target == IF saved.active \in Ids(ws) THEN saved.active ELSE ws[1].id
            added == Without(shells, ShownIn(ws))
            new == ToSet(added)
            Change(w) == NormalizeActiveTab([w EXCEPT !.tabs = @ \o TabsFor(added)])
            vs == [i \in DOMAIN ws |-> IF ws[i].id = target THEN Change(ws[i]) ELSE ws[i]]
            v == [workspaces |-> vs, active |-> target, terminals |-> shells]
<1>1. Reconstruct(shells, saved) = v
  BY DEF Reconstruct, Restored, Unrepresented, Edited
<1>2. /\ ws \in Seq(Workspaces) /\ ws # <<>> /\ ProperWorkspaces(ws)
      /\ \A x : x \in ShownIn(ws) <=> x \in Shown(saved) /\ x \in ToSet(shells)
      /\ (Apart(saved.workspaces) => Apart(ws))
      /\ \A id \in TabIds(ws) : \E tab \in AllTabs(saved) :
            tab.id = id /\ TerminalsIn(tab.root) \intersect ToSet(shells) # {}
      /\ TabIds(ws) \subseteq TabIds(saved.workspaces)
  BY WorkspacesRestored
<1>. HIDE DEF ws
<1>3. /\ \A i \in DOMAIN ws : Proper(ws[i]) /\ ws[i] \in Workspaces
      /\ \A i, k \in DOMAIN ws : ws[i].id = ws[k].id => i = k
      /\ 1 \in DOMAIN ws
  BY <1>2 DEF ProperWorkspaces, IdsDiffer, Proper
<1>4. added \in Seq(Id) /\ new = ToSet(shells) \ ShownIn(ws) /\ (Injective(shells) => Injective(added))
  BY TerminalsLeft
<1>23. Sorted(shells, added)
  BY WithoutInOrder
<1>. HIDE DEF added, new
<1>5. PICK i0 \in DOMAIN ws : ws[i0].id = target
  BY <1>3 DEF Ids
<1>6. target \in Ids(ws) /\ target \in Nat
  BY <1>3, <1>5 DEF Ids, Workspaces, Id
<1>. HIDE DEF target
<1>. DEFINE w == ws[i0]
            u == w.tabs \o TabsFor(added)
            w1 == [w EXCEPT !.tabs = u]
<1>7. Proper(w) /\ w \in Workspaces
  BY <1>3
<1>8. Change(w) = NormalizeActiveTab(w1)
  OBVIOUS
<1>9. \A i \in DOMAIN ws : vs[i] = IF i = i0 THEN Change(w) ELSE ws[i]
  BY <1>3, <1>5
<1>10. DOMAIN vs = DOMAIN ws /\ vs = [i \in DOMAIN vs |-> vs[i]]
  OBVIOUS
<1>. HIDE DEF w
<1>11. /\ u \in Seq(Tabs) /\ SomeFocused(u)
       /\ Ids(u) = Ids(w.tabs) \union new
       /\ \A x : (\E j \in DOMAIN u : x \in TerminalsIn(u[j].root)) <=> x \in TerminalsOf(w) \/ x \in new
       /\ ApartTabs(w.tabs) /\ Injective(added)
             /\ (\A x \in new : x \notin Ids(w.tabs) /\ x \notin TerminalsOf(w)) => ApartTabs(u)
  BY <1>4, <1>7, TabsAppended DEF new
<1>27. TabsSorted(u, added) /\ \A S : Ids(w.tabs) \intersect S = {} => InOrder(u, shells, S)
  BY <1>4, <1>7, <1>23, TabsAppended
<1>. HIDE DEF u, Change, vs
<1>12. w1 \in Workspaces /\ w1.id = w.id /\ w1.tabs = u
  BY <1>7, <1>11 DEF Workspaces
<1>. HIDE DEF w1
<1>13. /\ Change(w) \in Workspaces /\ Change(w).id = w.id /\ Change(w).tabs = u
       /\ ActiveTabExists(Change(w))
  BY <1>8, <1>12, Normalized
<1>14. /\ vs[i0].id = ws[i0].id /\ vs[i0].tabs = u /\ vs[i0] \in Workspaces /\ Proper(vs[i0])
       /\ \A i \in DOMAIN ws : i # i0 => vs[i] = ws[i]
  BY <1>9, <1>11, <1>13 DEF Proper, w
<1>15. vs \in [DOMAIN ws -> Workspaces]
  <2>1. \A i \in DOMAIN ws : vs[i] \in Workspaces
    BY <1>3, <1>14
  <2>. QED BY <1>10, <2>1
<1>16. \A x : x \in TerminalsOf(vs[i0]) <=> x \in TerminalsOf(ws[i0]) \/ x \in new
  BY <1>11, <1>14, TerminalsOfTabs DEF w
<1>17. /\ vs \in Seq(Workspaces) /\ Len(vs) = Len(ws)
       /\ ProperWorkspaces(vs) /\ Ids(vs) = Ids(ws)
       /\ \A x : x \in ShownIn(vs) <=> x \in ShownIn(ws) \/ x \in new
       /\ (Apart(ws) /\ ApartTabs(vs[i0].tabs) /\ (\A x \in new : x \notin ShownIn(ws)) => Apart(vs))
       /\ TabIds(vs) \subseteq TabIds(ws) \union Ids(vs[i0].tabs)
  BY <1>2, <1>14, <1>15, <1>16, OneWorkspace
<1>18. v \in States /\ v.workspaces = vs /\ v.active = target /\ v.terminals = shells
  BY <1>6, <1>17 DEF States
<1>. HIDE DEF v
<1>19. \A x : x \in ShownIn(vs) <=> x \in ToSet(shells)
  BY <1>2, <1>4, <1>17
<1>20. ProperState(v)
  BY <1>6, <1>17, <1>18, <1>19 DEF ProperState, Shown
<1>21. ASSUME Apart(saved.workspaces), Injective(shells), ~Tangles(shells, saved)
       PROVE  SoundState(v)
  <2>1. Apart(ws) /\ \A x \in new : x \notin ShownIn(ws)
    BY <1>2, <1>4, <1>21
  <2>2. ASSUME NEW x \in new PROVE x \notin Ids(w.tabs) /\ x \notin TerminalsOf(w)
    <3>1. x \notin TerminalsOf(w)
      BY <2>1, <2>2, ShownInWorkspaces DEF w
    <3>2. ASSUME x \in Ids(w.tabs) PROVE FALSE
      <4>1. x \in TabIds(ws)
        BY <3>2, ShownInWorkspaces DEF w
      <4>2. x \in ToSet(shells) \ Shown(saved)
        BY <1>2, <1>4, <2>2
      <4>. QED BY <1>2, <1>21, <4>1, <4>2 DEF Tangles
    <3>. QED BY <3>1, <3>2
  <2>3. ApartTabs(w.tabs)
    BY <2>1 DEF Apart, w
  <2>4. ApartTabs(u)
    BY <1>4, <1>11, <1>21, <2>2, <2>3
  <2>5. Apart(vs)
    BY <1>14, <1>17, <2>1, <2>4
  <2>. QED BY <1>18, <1>19, <1>21, <2>5 DEF SoundState, Shown
<1>22. ASSUME NEW n \in Nat, Below(saved.workspaces, n), ToSet(shells) \subseteq 1..n
       PROVE  Below(vs, n)
  <2>1. Ids(w.tabs) \subseteq TabIds(ws)
    BY ShownInWorkspaces DEF w
  <2>2. new \subseteq 1..n
    BY <1>4, <1>22
  <2>. QED BY <1>2, <1>11, <1>14, <1>17, <1>19, <1>22, <2>1, <2>2 DEF Below
<1>24. vs # <<>>
  BY <1>2, <1>17
<1>25. ASSUME ~Tangles(shells, saved), NEW S, S \subseteq ToSet(shells) \ Shown(saved)
       PROVE  OwnTabs(vs, shells, S)
  <2>. SUFFICES ASSUME NEW i \in DOMAIN ws PROVE InOrder(vs[i].tabs, shells, S)
    BY <1>10 DEF OwnTabs
  <2>1. ASSUME NEW x \in S, x \in Ids(ws[i].tabs) PROVE FALSE
    <3>1. x \in TabIds(ws)
      BY <2>1, ShownInWorkspaces
    <3>. QED BY <1>2, <1>25, <3>1 DEF Tangles
  <2>2. Ids(ws[i].tabs) \intersect S = {}
    BY <2>1
  <2>3. CASE i = i0
    BY <1>14, <1>27, <2>2, <2>3 DEF w
  <2>4. CASE i # i0
    <3>1. vs[i].tabs = ws[i].tabs
      BY <1>14, <2>4
    <3>2. \A j \in DOMAIN ws[i].tabs : ws[i].tabs[j].id \notin S
      BY <2>2 DEF Ids
    <3>. QED BY <3>1, <3>2 DEF InOrder
  <2>. QED BY <2>3, <2>4
<1>26. \E i \in DOMAIN vs : TabsSorted(vs[i].tabs, added)
  BY <1>10, <1>14, <1>27
<1>. QED BY <1>1, <1>18, <1>20, <1>21, <1>22, <1>24, <1>25, <1>26 DEF added, ws

-----------------------------------------------------------------------------
(* What a load restores of a layout that was saved.                         *)

\* Two sequences of the same elements are the same when one has the order of
\* the other.
LEMMA SameOrder ==
    ASSUME NEW S, NEW q \in Seq(S), NEW r \in Seq(S), Injective(q), Injective(r),
           ToSet(q) = ToSet(r), Sorted(r, q)
    PROVE  q = r
<1>1. /\ Len(q) \in Nat /\ Len(r) \in Nat /\ DOMAIN q = 1..Len(q) /\ DOMAIN r = 1..Len(r)
  OBVIOUS
<1>2. \A k \in DOMAIN q : \E m \in DOMAIN r : r[m] = q[k]
  BY DEF ToSet
<1>3. \A m \in DOMAIN r : \E k \in DOMAIN q : r[m] = q[k]
  BY DEF ToSet
<1>4. \A k \in DOMAIN q \intersect DOMAIN r : q[k] = r[k]
  <2>. DEFINE T == {k \in DOMAIN q \intersect DOMAIN r : q[k] # r[k]}
  <2>. SUFFICES ASSUME T # {} PROVE FALSE
    OBVIOUS
  <2>1. T \subseteq Nat
    BY <1>1
  <2>2. PICK k \in T : \A j \in T : k <= j
    <3>. HIDE DEF T
    <3>. QED BY <2>1, NatMin
  <2>3. k \in DOMAIN q /\ k \in DOMAIN r /\ q[k] # r[k]
    OBVIOUS
  <2>4. \A j \in 1..k-1 : j \in DOMAIN q /\ j \in DOMAIN r /\ q[j] = r[j]
    BY <1>1, <2>2, <2>3
  <2>5. PICK l \in DOMAIN q : q[l] = r[k]
    BY <1>3, <2>3
  <2>6. PICK m \in DOMAIN r : r[m] = q[k]
    BY <1>2, <2>3
  <2>7. l > k
    BY <1>1, <2>3, <2>4, <2>5 DEF Injective
  <2>8. m > k
    BY <1>1, <2>3, <2>4, <2>6 DEF Injective
  <2>9. PICK a \in DOMAIN r, b \in DOMAIN r : a < b /\ r[a] = q[k] /\ r[b] = q[l]
    BY <2>3, <2>7 DEF Sorted, Precedes
  <2>10. a = m /\ b = k
    BY <2>3, <2>5, <2>6, <2>9 DEF Injective
  <2>. QED BY <1>1, <2>3, <2>8, <2>9, <2>10
<1>5. Len(q) = Len(r)
  <2>1. Len(q) < Len(r) \/ Len(r) < Len(q) \/ Len(q) = Len(r)
    <3>. DEFINE m == Len(q)
                n == Len(r)
    <3>1. m \in Nat /\ n \in Nat
      BY <1>1
    <3>. HIDE DEF m, n
    <3>2. m < n \/ n < m \/ m = n
      BY <3>1
    <3>. QED BY <3>2 DEF m, n
  <2>2. CASE Len(q) < Len(r)
    <3>. DEFINE m == Len(q) + 1
    <3>1. m \in DOMAIN r /\ m \notin DOMAIN q
      BY <1>1, <2>2
    <3>2. PICK k \in DOMAIN q : r[m] = q[k]
      BY <1>3, <3>1
    <3>3. k \in DOMAIN r /\ r[k] = r[m]
      BY <1>1, <1>4, <2>2, <3>2
    <3>. QED BY <3>1, <3>3 DEF Injective
  <2>3. CASE Len(r) < Len(q)
    <3>. DEFINE m == Len(r) + 1
    <3>1. m \in DOMAIN q /\ m \notin DOMAIN r
      BY <1>1, <2>3
    <3>2. PICK k \in DOMAIN r : r[k] = q[m]
      BY <1>2, <3>1
    <3>3. k \in DOMAIN q /\ q[k] = q[m]
      BY <1>1, <1>4, <2>3, <3>2
    <3>. QED BY <3>1, <3>3 DEF Injective
  <2>. QED BY <2>1, <2>2, <2>3
<1>. QED BY <1>1, <1>4, <1>5

\* The panes' nodes are among a tree's leaves.
LEMMA PanesAreLeaves ==
    ASSUME NEW t, IsTree(t), NEW x \in TerminalsIn(t)
    PROVE  Pane(x) \in LeavesIn(t)
<1>1. PICK p \in Panes(t) : t[p].id = x
  BY DEF TerminalsIn
<1>2. t[p] = Pane(x) /\ p \in Leaves(t)
  BY <1>1, TreeNodes
<1>. QED BY <1>2 DEF LeavesIn

\* When each tab keeps a terminal, the tabs stay where they are.
LEMMA TabsStay ==
    ASSUME NEW tabs \in Seq(Tabs), NEW kept,
           \A j \in DOMAIN tabs : \E x \in TerminalsIn(tabs[j].root) : Pane(x) \in kept
    PROVE  PrunedTabs(tabs, kept) = [j \in DOMAIN tabs |-> PrunedTab(tabs[j], kept)]
<1>. DEFINE I == {i \in DOMAIN tabs : TerminalsIn(Pruned(tabs[i].root, kept)) # {}}
<1>1. I = DOMAIN tabs
  <2>. SUFFICES ASSUME NEW i \in DOMAIN tabs PROVE TerminalsIn(Pruned(tabs[i].root, kept)) # {}
    OBVIOUS
  <2>1. tabs[i] \in Tabs
    OBVIOUS
  <2>2. IsTree(tabs[i].root)
    BY <2>1, TreesAreTrees DEF Tabs
  <2>. QED BY <2>2, PrunedTree
<1>2. Subsequence(tabs, DOMAIN tabs) = tabs
  BY WholeSequence
<1>3. PrunedTabs(tabs, kept)
        = [i \in DOMAIN Subsequence(tabs, I) |-> PrunedTab(Subsequence(tabs, I)[i], kept)]
  BY DEF PrunedTabs
<1>. HIDE DEF I
<1>. QED BY <1>1, <1>2, <1>3

\* A tab whose leaves are kept stays as it is,
LEMMA TabUnpruned ==
    ASSUME NEW tab \in Tabs, NEW kept, Focused(tab), LeavesIn(tab.root) \subseteq kept
    PROVE  PrunedTab(tab, kept) = tab
<1>. DEFINE root == tab.root
<1>1. IsTree(root)
  BY TreesAreTrees DEF Tabs
<1>2. Pruned(root, kept) = root
  BY <1>1, PrunedToAll
<1>3. ActiveAmong(tab, root) = tab.activeTerminal
  BY DEF ActiveAmong, ContainsTerminal, Focused
<1>4. PrunedTab(tab, kept) = [tab EXCEPT !.root = root, !.activeTerminal = tab.activeTerminal]
  BY <1>2, <1>3 DEF PrunedTab
<1>. QED BY <1>4 DEF Tabs

\* A workspace that shows its tabs and only leaves in kept.
Whole(w, kept) ==
    /\ w \in Workspaces /\ ActiveTabExists(w)
    /\ \A j \in DOMAIN w.tabs : Focused(w.tabs[j]) /\ LeavesIn(w.tabs[j].root) \subseteq kept

\* and so does a workspace of such tabs,
LEMMA WorkspaceUnpruned ==
    ASSUME NEW w, NEW kept, Whole(w, kept)
    PROVE  PrunedWorkspace(w, kept) = w
<1>. DEFINE tabs == w.tabs
<1>1. tabs \in Seq(Tabs) /\ w \in Workspaces
  BY DEF Whole, Workspaces
<1>2. \A j \in DOMAIN tabs : /\ PrunedTab(tabs[j], kept) = tabs[j]
                             /\ \E x \in TerminalsIn(tabs[j].root) : Pane(x) \in kept
  <2>. TAKE j \in DOMAIN tabs
  <2>1. tabs[j] \in Tabs /\ Focused(tabs[j]) /\ LeavesIn(tabs[j].root) \subseteq kept
    BY <1>1 DEF Whole
  <2>2. IsTree(tabs[j].root)
    BY <2>1, TreesAreTrees DEF Tabs
  <2>. QED BY <2>1, <2>2, TabUnpruned, PanesAreLeaves DEF Focused
<1>3. PrunedTabs(tabs, kept) = [j \in DOMAIN tabs |-> PrunedTab(tabs[j], kept)]
  BY <1>1, <1>2, TabsStay
<1>4. PrunedTabs(tabs, kept) = tabs
  BY <1>1, <1>2, <1>3
<1>5. [w EXCEPT !.tabs = PrunedTabs(w.tabs, kept)] = w
  BY <1>1, <1>4 DEF Workspaces
<1>6. NormalizeActiveTab(w) = w
  <2>1. w.tabs = <<>> => w.activeTab \notin Ids(w.tabs) \/ w.activeTab \in Ids(w.tabs)
    OBVIOUS
  <2>. QED BY <1>1 DEF NormalizeActiveTab, Whole, ActiveTabExists, Workspaces
<1>. QED BY <1>5, <1>6 DEF PrunedWorkspace

\* and so do several.
LEMMA WorkspacesUnpruned ==
    ASSUME NEW ws \in Seq(Workspaces), NEW kept, \A i \in DOMAIN ws : Whole(ws[i], kept)
    PROVE  PrunedWorkspaces(ws, kept) = ws
<1>1. \A i \in DOMAIN ws : PrunedWorkspace(ws[i], kept) = ws[i]
  BY WorkspaceUnpruned
<1>. QED BY <1>1 DEF PrunedWorkspaces

\* Where ids differ, every tab has its active terminal in a pane.
LEMMA AllFocused ==
    ASSUME NEW w, Proper(w), ApartTabs(w.tabs)
    PROVE  \A j \in DOMAIN w.tabs : Focused(w.tabs[j])
<1>. TAKE j \in DOMAIN w.tabs
<1>1. PICK k \in DOMAIN w.tabs : w.tabs[k].id = w.tabs[j].id /\ Focused(w.tabs[k])
  BY DEF Proper, SomeFocused
<1>. QED BY <1>1 DEF ApartTabs

\* A workspace with the same tabs, terminals and focus.
Alike(w, v) ==
    /\ v.id = w.id /\ v.activeTab = w.activeTab /\ DOMAIN v.tabs = DOMAIN w.tabs
    /\ \A j \in DOMAIN w.tabs : /\ v.tabs[j].id = w.tabs[j].id
                                /\ TerminalsIn(v.tabs[j].root) = TerminalsIn(w.tabs[j].root)

\* A workspace without its editors.
LEMMA WorkspaceSaved ==
    ASSUME NEW w \in Workspaces, ActiveTabExists(w), NEW kept,
           \A j \in DOMAIN w.tabs : Focused(w.tabs[j]),
           \A x \in TerminalsOf(w) : Pane(x) \in kept
    PROVE  Alike(w, PrunedWorkspace(w, kept)) /\ Whole(PrunedWorkspace(w, kept), kept)
<1>. DEFINE tabs == w.tabs
            u == PrunedTabs(tabs, kept)
            w1 == [w EXCEPT !.tabs = u]
            v == PrunedWorkspace(w, kept)
<1>1. tabs \in Seq(Tabs) /\ w.activeTab \in Nat
  BY DEF Workspaces
<1>2. \A j \in DOMAIN tabs : /\ tabs[j] \in Tabs /\ IsTree(tabs[j].root) /\ Focused(tabs[j])
                             /\ \A x \in TerminalsIn(tabs[j].root) : Pane(x) \in kept
  <2>. TAKE j \in DOMAIN tabs
  <2>1. tabs[j] \in Tabs
    BY <1>1
  <2>2. \A x \in TerminalsIn(tabs[j].root) : x \in TerminalsOf(w)
    BY TerminalsOfTabs
  <2>. QED BY <2>1, <2>2, TreesAreTrees DEF Tabs
<1>3. \A j \in DOMAIN tabs : \E x \in TerminalsIn(tabs[j].root) : Pane(x) \in kept
  BY <1>2 DEF Focused
<1>4. u = [j \in DOMAIN tabs |-> PrunedTab(tabs[j], kept)] /\ u \in Seq(Tabs)
  BY <1>1, <1>3, TabsStay, TabsPruned
<1>. HIDE DEF u, tabs
<1>5. ASSUME NEW j \in DOMAIN tabs
      PROVE  /\ u[j].id = tabs[j].id /\ TerminalsIn(u[j].root) = TerminalsIn(tabs[j].root)
             /\ Focused(u[j]) /\ LeavesIn(u[j].root) \subseteq kept
  <2>. DEFINE tab == tabs[j]
  <2>1. tab \in Tabs /\ IsTree(tab.root) /\ \A x \in TerminalsIn(tab.root) : Pane(x) \in kept
    BY <1>2
  <2>2. u[j] = PrunedTab(tab, kept)
    BY <1>4
  <2>. HIDE DEF tab
  <2>3. TerminalsIn(Pruned(tab.root, kept)) # {}
    BY <1>2, <1>3, <2>1, PrunedTree DEF tab
  <2>4. /\ PrunedTab(tab, kept).id = tab.id
        /\ TerminalsIn(PrunedTab(tab, kept).root) = {x \in TerminalsIn(tab.root) : Pane(x) \in kept}
        /\ Focused(PrunedTab(tab, kept))
    BY <2>1, <2>3, TabPruned
  <2>5. PrunedTab(tab, kept).root = Pruned(tab.root, kept)
    BY <2>1 DEF PrunedTab, Tabs
  <2>6. LeavesIn(u[j].root) \subseteq kept
    BY <2>1, <2>2, <2>5, LeavesKept
  <2>7. {x \in TerminalsIn(tab.root) : Pane(x) \in kept} = TerminalsIn(tab.root)
    BY <2>1
  <2>. QED BY <2>2, <2>4, <2>6, <2>7 DEF tab
<1>6. DOMAIN u = DOMAIN tabs
  BY <1>4
<1>7. w1 \in Workspaces /\ w1.id = w.id /\ w1.tabs = u /\ w1.activeTab = w.activeTab
  BY <1>4 DEF Workspaces
<1>8. v = NormalizeActiveTab(w1)
  BY DEF PrunedWorkspace, u, tabs
<1>. HIDE DEF w1, v
<1>9. v \in Workspaces /\ v.id = w.id /\ v.tabs = u /\ ActiveTabExists(v)
  BY <1>7, <1>8, Normalized
<1>10. Ids(u) = Ids(tabs) /\ (u = <<>> <=> tabs = <<>>)
  <2>1. Ids(u) = Ids(tabs)
    BY <1>5, <1>6 DEF Ids
  <2>2. u = <<>> <=> DOMAIN u = {}
    BY <1>4
  <2>3. tabs = <<>> <=> DOMAIN tabs = {}
    BY <1>1 DEF tabs
  <2>. QED BY <1>6, <2>1, <2>2, <2>3
<1>11. v.activeTab = w.activeTab
  <2>1. CASE u = <<>>
    BY <1>9, <1>10, <2>1 DEF ActiveTabExists, tabs
  <2>2. CASE u # <<>>
    <3>1. w1.activeTab \in Ids(w1.tabs)
      BY <1>7, <1>10, <2>2 DEF ActiveTabExists, tabs
    <3>. QED BY <1>7, <1>8, <3>1 DEF NormalizeActiveTab, Workspaces
  <2>. QED BY <2>1, <2>2
<1>12. Alike(w, v)
  BY <1>5, <1>6, <1>9, <1>11 DEF Alike, tabs
<1>13. Whole(v, kept)
  BY <1>5, <1>6, <1>9 DEF Whole
<1>. QED BY <1>12, <1>13 DEF v

\* The leaves that are saved.
LEMMA PanesShown ==
    ASSUME NEW s, s.workspaces \in Seq(Workspaces)
    PROVE  {leaf \in LeavesShown(s) : leaf.type = "pane"} = {Pane(x) : x \in Shown(s)}
<1>1. ASSUME NEW leaf \in LeavesShown(s), leaf.type = "pane" PROVE leaf \in {Pane(x) : x \in Shown(s)}
  <2>1. PICK tab \in AllTabs(s) : leaf \in LeavesIn(tab.root)
    BY DEF LeavesShown
  <2>2. PICK i \in DOMAIN s.workspaces : tab \in ToSet(s.workspaces[i].tabs)
    BY <2>1 DEF AllTabs, ToSet
  <2>. DEFINE tabs == s.workspaces[i].tabs
  <2>3. s.workspaces[i] \in Workspaces
    OBVIOUS
  <2>4. tabs \in Seq(Tabs)
    BY <2>3 DEF Workspaces
  <2>5. PICK j \in DOMAIN tabs : tab = tabs[j]
    BY <2>2 DEF ToSet
  <2>6. IsTree(tab.root)
    <3>1. tab \in Tabs
      BY <2>4, <2>5
    <3>. QED BY <3>1, TreesAreTrees DEF Tabs
  <2>7. PICK p \in Leaves(tab.root) : leaf = tab.root[p]
    BY <2>1 DEF LeavesIn
  <2>8. p \in Panes(tab.root)
    BY <1>1, <2>7 DEF Panes, Leaves
  <2>9. leaf = Pane(leaf.id) /\ leaf.id \in TerminalsIn(tab.root)
    BY <2>6, <2>7, <2>8, TreeNodes DEF TerminalsIn
  <2>10. leaf.id \in Shown(s)
    BY <2>5, <2>9, TerminalsOfTabs, ShownInWorkspaces DEF Shown
  <2>. QED BY <2>9, <2>10
<1>2. ASSUME NEW x \in Shown(s) PROVE Pane(x) \in LeavesShown(s) /\ Pane(x).type = "pane"
  BY ShownLeaves DEF Pane
<1>. QED BY <1>1, <1>2

\* What is saved of a sound state has its tabs and terminals, and no editors.
LEMMA SavedAlike ==
    ASSUME NEW s, ProperState(s), SoundState(s)
    PROVE  LET l == Serialize(s)
           IN  /\ l \in Layouts /\ DOMAIN l.workspaces = DOMAIN s.workspaces
               /\ \A i \in DOMAIN s.workspaces : Alike(s.workspaces[i], l.workspaces[i])
               /\ \A i \in DOMAIN s.workspaces : Whole(l.workspaces[i], {Pane(x) : x \in Shown(s)})
               /\ Shown(l) = Shown(s)
               /\ s.workspaces # <<>> => l.active = s.active
<1>. DEFINE ws == s.workspaces
            kept == {Pane(x) : x \in Shown(s)}
            p == PrunedTo(s, kept)
            l == Serialize(s)
            vs == PrunedWorkspaces(ws, kept)
<1>1. /\ s \in States /\ ws \in Seq(Workspaces) /\ (ws # <<>> => s.active \in Ids(ws))
      /\ \A i \in DOMAIN ws : Proper(ws[i]) /\ ws[i] \in Workspaces /\ ApartTabs(ws[i].tabs)
  BY DEF ProperState, States, ProperWorkspaces, Proper, SoundState, Apart
<1>2. l = [workspaces |-> p.workspaces, active |-> p.active]
  BY <1>1, PanesShown DEF Serialize
<1>3. p.workspaces = vs /\ p \in States /\ (ws # <<>> => p.active = s.active)
  <2>1. p \in States /\ p.workspaces = vs
    BY StatePruned
  <2>2. ASSUME ws # <<>> PROVE p.active = s.active
    <3>. HIDE DEF kept
    <3>. QED BY <1>1, <2>2 DEF PrunedTo, States
  <2>. QED BY <2>1, <2>2
<1>4. DOMAIN vs = DOMAIN ws /\ \A i \in DOMAIN ws : vs[i] = PrunedWorkspace(ws[i], kept)
  BY <1>1, WorkspacesPruned
<1>5. \A x : Pane(x) \in kept <=> x \in Shown(s)
  <2>1. \A x, y : Pane(x) = Pane(y) => x = y
    BY DEF Pane
  <2>. QED BY <2>1
<1>. HIDE DEF kept, vs, p
<1>6. ASSUME NEW i \in DOMAIN ws PROVE Alike(ws[i], vs[i]) /\ Whole(vs[i], kept)
  <2>1. ActiveTabExists(ws[i])
    BY <1>1 DEF Proper
  <2>2. \A j \in DOMAIN ws[i].tabs : Focused(ws[i].tabs[j])
    BY <1>1, AllFocused
  <2>3. \A x \in TerminalsOf(ws[i]) : Pane(x) \in kept
    BY <1>5, ShownInWorkspaces DEF Shown
  <2>. QED BY <1>1, <1>4, <2>1, <2>2, <2>3, WorkspaceSaved
<1>7. l.workspaces = vs /\ l \in Layouts /\ (ws # <<>> => l.active = s.active)
  BY <1>2, <1>3 DEF States, Layouts
<1>. HIDE DEF l
<1>8. Shown(l) = Shown(s)
  <2>1. ASSUME NEW i \in DOMAIN ws, NEW x PROVE x \in TerminalsOf(vs[i]) <=> x \in TerminalsOf(ws[i])
    BY <1>6, TerminalsOfTabs DEF Alike
  <2>2. \A x : x \in ShownIn(vs) <=> x \in ShownIn(ws)
    BY <1>4, <2>1, ShownInWorkspaces
  <2>. QED BY <1>7, <2>2 DEF Shown
<1>. QED BY <1>4, <1>6, <1>7, <1>8 DEF l, kept

\* What is saved depends on the workspaces and the active one.
LEMMA SavedBy ==
    ASSUME NEW s \in States, NEW v \in States, s.workspaces = v.workspaces, s.active = v.active
    PROVE  Serialize(s) = Serialize(v)
<1>1. LeavesShown(s) = LeavesShown(v)
  BY DEF LeavesShown, AllTabs
<1>2. \A kept : PrunedTo(s, kept).workspaces = PrunedTo(v, kept).workspaces
                /\ PrunedTo(s, kept).active = PrunedTo(v, kept).active
  BY DEF PrunedTo, States
<1>. QED BY <1>1, <1>2 DEF Serialize

\* A saved layout is restored as it is when its terminals are listed.
THEOREM SavedRestored ==
    ASSUME NEW s, ProperState(s), SoundState(s), s.workspaces # <<>>,
           NEW q \in Seq(Id), ToSet(q) = Shown(s)
    PROVE  LET l == Serialize(s)
               v == Reconstruct(q, l)
           IN  v.workspaces = l.workspaces /\ v.active = l.active /\ Serialize(v) = l
<1>. DEFINE l == Serialize(s)
            v == Reconstruct(q, l)
            ws == l.workspaces
            kept == {Pane(x) : x \in Shown(s)}
<1>1. s \in States /\ s.workspaces \in Seq(Workspaces) /\ s.active \in Ids(s.workspaces)
  BY DEF ProperState, States
<1>2. /\ l \in Layouts /\ DOMAIN ws = DOMAIN s.workspaces
      /\ \A i \in DOMAIN ws : Alike(s.workspaces[i], ws[i]) /\ Whole(ws[i], kept)
      /\ Shown(l) = Shown(s) /\ l.active = s.active
      /\ ProperLayout(l)
  BY SavedAlike, Serialized
<1>3. ws \in Seq(Workspaces) /\ l = [workspaces |-> ws, active |-> l.active]
  BY <1>2 DEF Layouts
<1>. HIDE DEF l
<1>4. ws # <<>> /\ Ids(ws) = Ids(s.workspaces)
  <2>2. DOMAIN s.workspaces # {}
    BY <1>1 DEF Ids
  <2>3. DOMAIN ws # {}
    BY <1>2, <2>2
  <2>. HIDE DEF ws
  <2>4. ws # <<>>
    BY <2>3
  <2>5. \A i \in DOMAIN ws : ws[i].id = s.workspaces[i].id
    BY <1>2 DEF Alike
  <2>6. Ids(ws) = Ids(s.workspaces)
    BY <1>2, <2>5 DEF Ids
  <2>. QED BY <2>4, <2>6
<1>5. {Pane(q[i]) : i \in DOMAIN q} = kept
  BY DEF ToSet
<1>. HIDE DEF kept, l
<1>6. Restored(q, l) = ws
  BY <1>2, <1>3, <1>4, <1>5, WorkspacesUnpruned DEF Restored
<1>. DEFINE target == IF l.active \in Ids(ws) THEN l.active ELSE ws[1].id
            added == Without(q, ShownIn(ws))
            Change(w) == NormalizeActiveTab([w EXCEPT !.tabs = @ \o TabsFor(added)])
            vs == [i \in DOMAIN ws |-> IF ws[i].id = target THEN Change(ws[i]) ELSE ws[i]]
<1>7. v = [workspaces |-> vs, active |-> target, terminals |-> q]
  <2>. DEFINE r == Restored(q, l)
  <2>1. v = [workspaces |-> Edited(r, IF l.active \in Ids(r) THEN l.active ELSE r[1].id, LAMBDA w :
                 NormalizeActiveTab([w EXCEPT !.tabs = @ \o TabsFor(Without(q, ShownIn(r)))])),
             active |-> IF l.active \in Ids(r) THEN l.active ELSE r[1].id,
             terminals |-> q]
    BY DEF Reconstruct, Restored, Unrepresented
  <2>2. r = ws
    BY <1>6
  <2>. HIDE DEF r
  <2>3. v = [workspaces |-> Edited(ws, target, LAMBDA w :
                 NormalizeActiveTab([w EXCEPT !.tabs = @ \o TabsFor(added)])),
             active |-> target, terminals |-> q]
    BY <2>1, <2>2
  <2>4. vs = Edited(ws, target, LAMBDA w : NormalizeActiveTab([w EXCEPT !.tabs = @ \o TabsFor(added)]))
    BY DEF Edited
  <2>. HIDE DEF vs, target, added, v
  <2>. QED BY <2>3, <2>4
<1>8. target = l.active
  BY <1>1, <1>2, <1>4
<1>9. added = <<>>
  <2>1. added \in Seq(Id) /\ ToSet(added) = {}
    BY <1>2, TerminalsLeft DEF Shown
  <2>. HIDE DEF added
  <2>2. DOMAIN added = {}
    BY <2>1 DEF ToSet
  <2>. QED BY <2>1, <2>2
<1>10. ASSUME NEW i \in DOMAIN ws PROVE Change(ws[i]) = ws[i]
  <2>. DEFINE w == ws[i]
  <2>1. w \in Workspaces /\ Whole(w, kept) /\ w.tabs \in Seq(Tabs)
    BY <1>2 DEF Whole, Workspaces
  <2>2. TabsFor(added) = <<>>
    <3>. HIDE DEF added
    <3>. QED BY <1>9 DEF TabsFor
  <2>. HIDE DEF w, added
  <2>3. w.tabs \o TabsFor(added) = w.tabs
    BY <2>1, <2>2
  <2>4. [w EXCEPT !.tabs = @ \o TabsFor(added)] = w
    BY <2>1, <2>3 DEF Workspaces
  <2>5. NormalizeActiveTab(w) = w
    BY <2>1 DEF NormalizeActiveTab, Whole, ActiveTabExists, Workspaces
  <2>6. Change(w) = w
    BY <2>4, <2>5
  <2>. QED BY <2>6 DEF w
<1>. HIDE DEF Change, added, target
<1>11. vs = ws
  BY <1>3, <1>10
<1>12. v.workspaces = ws /\ v.active = l.active
  BY <1>7, <1>8, <1>11
<1>13. Serialize(v) = l
  <2>1. ProperState(v)
    BY <1>2, Reconstructed
  <2>. HIDE DEF v, ws, vs
  <2>2. Shown(v) = Shown(s)
    BY <1>2, <1>12 DEF Shown, ws
  <2>3. {leaf \in LeavesShown(v) : leaf.type = "pane"} = kept
    BY <1>3, <1>12, <2>2, PanesShown DEF kept
  <2>4. PrunedWorkspaces(v.workspaces, kept) = ws
    BY <1>2, <1>3, <1>12, WorkspacesUnpruned
  <2>5. v.active \in Ids(v.workspaces)
    BY <1>1, <1>2, <1>4, <1>12
  <2>6. v \in States
    BY <2>1 DEF ProperState
  <2>7. PrunedTo(v, kept).workspaces = ws /\ PrunedTo(v, kept).active = l.active
    BY <1>12, <2>4, <2>5, <2>6 DEF PrunedTo, States
  <2>. QED BY <1>3, <2>3, <2>7 DEF Serialize
<1>. QED BY <1>12, <1>13 DEF l

\* What a load restores depends on the terminals whose panes are kept and on
\* the order of those that get a tab.
LEMMA SameRestored ==
    ASSUME NEW saved, NEW q, NEW r, Restored(q, saved) = Restored(r, saved),
           Without(q, ShownIn(Restored(q, saved))) = Without(r, ShownIn(Restored(q, saved)))
    PROVE  /\ Reconstruct(q, saved).workspaces = Reconstruct(r, saved).workspaces
           /\ Reconstruct(q, saved).active = Reconstruct(r, saved).active
<1>. DEFINE ws == Restored(q, saved)
            xs == Restored(r, saved)
            add(y, zs) == Without(y, ShownIn(zs))
            to(zs) == IF saved.active \in Ids(zs) THEN saved.active ELSE zs[1].id
            Edit(zs, added) == Edited(zs, to(zs), LAMBDA w :
                                  NormalizeActiveTab([w EXCEPT !.tabs = @ \o TabsFor(added)]))
<1>1. /\ Reconstruct(q, saved).workspaces = Edit(ws, add(q, ws))
      /\ Reconstruct(q, saved).active = to(ws)
  BY DEF Reconstruct, Restored, Unrepresented
<1>2. /\ Reconstruct(r, saved).workspaces = Edit(xs, add(r, xs))
      /\ Reconstruct(r, saved).active = to(xs)
  BY DEF Reconstruct, Restored, Unrepresented
<1>3. ws = xs /\ add(q, ws) = add(r, xs)
  OBVIOUS
<1>. HIDE DEF ws, xs, add, to, Edit
<1>. QED BY <1>1, <1>2, <1>3

\* The tabs that a load made show the same in a page that follows the server:
\* another load makes them in the same order.
THEOREM RestoredAgain ==
    ASSUME NEW saved, ProperLayout(saved), NEW first \in Seq(Id), NEW q \in Seq(Id),
           Injective(q), ToSet(first) = ToSet(q),
           NEW s, ProperState(s), SoundState(s), SoundState(Reconstruct(first, saved)),
           Serialize(s) = Serialize(Reconstruct(first, saved)),
           OwnTabs(s.workspaces, s.terminals, ToSet(first) \ Shown(saved)),
           s.terminals = q \/ Without(q, Shown(saved)) = <<>>
    PROVE  LET v == Reconstruct(first, saved)
               back == Reconstruct(q, saved)
           IN  /\ back.workspaces = v.workspaces /\ back.active = v.active
               /\ Serialize(back) = Serialize(v)
<1>. DEFINE v == Reconstruct(first, saved)
            back == Reconstruct(q, saved)
            ws == Restored(first, saved)
            S == ToSet(first) \ Shown(saved)
            old == Without(first, ShownIn(ws))
            new == Without(q, ShownIn(ws))
<1>1. /\ ProperState(v) /\ v.terminals = first /\ ProperState(back)
      /\ \E i \in DOMAIN v.workspaces : TabsSorted(v.workspaces[i].tabs, old)
  BY Reconstructed
<1>2. Injective(first)
  BY <1>1 DEF SoundState
<1>3. Restored(q, saved) = ws
  <2>1. {Pane(first[i]) : i \in DOMAIN first} = {Pane(x) : x \in ToSet(first)}
    BY DEF ToSet
  <2>2. {Pane(q[i]) : i \in DOMAIN q} = {Pane(x) : x \in ToSet(q)}
    BY DEF ToSet
  <2>. QED BY <2>1, <2>2 DEF Restored
<1>4. \A x : x \in ShownIn(ws) <=> x \in Shown(saved) /\ x \in ToSet(first)
  BY WorkspacesRestored
<1>5. old \in Seq(Id) /\ Injective(old) /\ ToSet(old) = ToSet(first) \ ShownIn(ws)
  BY <1>2, TerminalsLeft
<1>6. new \in Seq(Id) /\ Injective(new) /\ ToSet(new) = ToSet(q) \ ShownIn(ws)
  BY TerminalsLeft
<1>7. ToSet(old) = S /\ ToSet(new) = S
  BY <1>4, <1>5, <1>6
<1>8. Without(q, Shown(saved)) = <<>> => S = {}
  <2>1. ToSet(Without(q, Shown(saved))) = ToSet(q) \ Shown(saved)
    BY TerminalsLeft
  <2>2. ToSet(<<>>) = {}
    BY DEF ToSet
  <2>. QED BY <2>1, <2>2
<1>. HIDE DEF v, back, ws, S, old, new
<1>9. PICK i \in DOMAIN v.workspaces : TabsSorted(v.workspaces[i].tabs, old)
  BY <1>1
<1>10. TabsSorted(s.workspaces[i].tabs, old) /\ i \in DOMAIN s.workspaces
  <2>. DEFINE l == Serialize(s)
  <2>1. /\ DOMAIN l.workspaces = DOMAIN s.workspaces
        /\ \A k \in DOMAIN s.workspaces : Alike(s.workspaces[k], l.workspaces[k])
    BY SavedAlike
  <2>2. l = Serialize(v)
    BY DEF v
  <2>3. SoundState(v)
    BY DEF v
  <2>4. /\ DOMAIN l.workspaces = DOMAIN v.workspaces
        /\ \A k \in DOMAIN v.workspaces : Alike(v.workspaces[k], l.workspaces[k])
    BY <1>1, <2>2, <2>3, SavedAlike
  <2>. HIDE DEF l
  <2>5. Alike(v.workspaces[i], l.workspaces[i]) /\ Alike(s.workspaces[i], l.workspaces[i])
    BY <2>1, <2>4
  <2>. DEFINE a == v.workspaces[i].tabs
              b == s.workspaces[i].tabs
  <2>6. DOMAIN b = DOMAIN a /\ \A j \in DOMAIN a : b[j].id = a[j].id
    BY <2>5 DEF Alike
  <2>7. TabsSorted(a, old)
    BY <1>9
  <2>. HIDE DEF a, b
  <2>8. TabsSorted(b, old)
    BY <2>6, <2>7 DEF TabsSorted
  <2>. QED BY <2>1, <2>4, <2>8 DEF b
<1>11. ASSUME s.terminals = q PROVE old = new
  <2>. DEFINE b == s.workspaces[i].tabs
  <2>1. InOrder(b, q, S)
    BY <1>10, <1>11 DEF OwnTabs, S
  <2>2. TabsSorted(b, old)
    BY <1>10
  <2>. HIDE DEF b
  <2>3. \A k \in DOMAIN old : old[k] \in S
    BY <1>7 DEF ToSet
  <2>4. ASSUME NEW k \in DOMAIN old, NEW m \in DOMAIN old, k < m PROVE Precedes(new, old[k], old[m])
    <3>1. PICK e, f \in DOMAIN b : e < f /\ b[e].id = old[k] /\ b[f].id = old[m]
      BY <2>2, <2>4 DEF TabsSorted
    <3>2. Precedes(q, old[k], old[m])
      BY <2>1, <2>3, <3>1 DEF InOrder
    <3>3. old[k] \notin ShownIn(ws) /\ old[m] \notin ShownIn(ws)
      BY <1>5, <1>7, <2>3
    <3>. QED BY <3>2, <3>3, OthersInOrder DEF new
  <2>5. Sorted(new, old)
    BY <2>4 DEF Sorted
  <2>. QED BY <1>5, <1>6, <1>7, <2>5, SameOrder
<1>12. ASSUME Without(q, Shown(saved)) = <<>> PROVE old = new
  <2>1. ToSet(old) = {} /\ ToSet(new) = {}
    BY <1>7, <1>8, <1>12
  <2>2. DOMAIN old = {} /\ DOMAIN new = {}
    BY <2>1 DEF ToSet
  <2>3. old = <<>>
    BY <1>5, <2>2
  <2>4. new = <<>>
    BY <1>6, <2>2
  <2>. QED BY <2>3, <2>4
<1>13. old = new
  BY <1>11, <1>12
<1>14. back.workspaces = v.workspaces /\ back.active = v.active
  BY <1>3, <1>13, SameRestored DEF v, back, ws, old, new
<1>15. Serialize(back) = Serialize(v)
  BY <1>1, <1>14, SavedBy DEF ProperState
<1>. QED BY <1>14, <1>15 DEF v, back

-----------------------------------------------------------------------------
(* The workspace with the server and the other devices.                     *)

\* A layout that is stored, or waits to be.
Stored(l) == ProperLayout(l) /\ Below(l.workspaces, created)

\* The calls that wait for the server.
Creations == [kind : {"create"}, place : {"tab"} \union Directions, terminal : Nat,
              at : Id, loading : BOOLEAN, alive : BOOLEAN]
Closings == [kind : {"close"}, ids : SUBSET Id, todo : SUBSET Id, workspace : Nat,
             at : Id, loading : BOOLEAN, alive : BOOLEAN]
Openings == [kind : {"open"}, at : Id, loading : BOOLEAN, alive : BOOLEAN]

\* The calls of a closing that are over have closed their terminals, unless
\* one failed.
CallOK(op) ==
    \/ op \in Creations /\ op.terminal <= created
    \/ /\ op \in Closings /\ op.todo \subseteq op.ids /\ op.ids \subseteq 1..created
       /\ op.alive => (op.ids \ op.todo) \intersect running = {}
    \/ op \in Openings

\* The terminals whose creation waits to be answered.
Expected == {op.terminal : op \in {o \in ops : o.kind = "create"}}

\* The layouts that the server or the page may come to show.
Remembered ==
    {layout, pending, cache, local} \union {c.layout : c \in saves}
      \union (IF read.read THEN {read.value} ELSE {})

\* What the server, a load in progress, the page and its calls know is of
\* terminals that were created.
ServerInv == created \in Nat /\ events \in Nat /\ running \union mine \subseteq 1..created
LoadInv ==
    /\ phase \in {"loading", "ready"}
    /\ listed.value \in Seq(Id) /\ Injective(listed.value) /\ ToSet(listed.value) \subseteq 1..created
    /\ phase = "ready" => ~listed.read
StateInv == ProperState(state) /\ Below(state.workspaces, created)
LayoutsInv == \A l \in Remembered : Stored(l)
CallsInv == \A op \in ops : CallOK(op)

\* Until two tabs had to get the same id, the terminals are apart in what is
\* shown and in each layout that may be shown.
SoundInv == ~tangled => SoundState(state) /\ \A l \in Remembered : Apart(l.workspaces)

\* Where a terminal of this browser is that is not lost.
ShellsInv ==
    LET shells == (mine \intersect running) \ lost
        known == ToSet(state.terminals) \union Expected
    IN  /\ phase = "ready" => shells \subseteq known
        /\ phase = "loading" /\ listed.read => shells \subseteq known \union ToSet(listed.value)

IInv == ServerInv /\ LoadInv /\ StateInv /\ LayoutsInv /\ CallsInv /\ SoundInv /\ ShellsInv

\* A larger bound is a bound.
LEMMA BelowMore ==
    ASSUME NEW ws, NEW n \in Nat, NEW m \in Nat, n <= m, Below(ws, n)
    PROVE  Below(ws, m)
BY DEF Below

\* A page shows nothing before its first load,
LEMMA NothingShown ==
    ProperState(EmptyState) /\ SoundState(EmptyState) /\ (\A n \in Nat : Below(EmptyState.workspaces, n))
<1>. DEFINE e == <<>>
<1>1. EmptyState \in States /\ EmptyState.workspaces = e /\ EmptyState.terminals = e
  BY DEF EmptyState, States, NoId
<1>2. e = <<>> /\ ~ \E i : i \in DOMAIN e
  OBVIOUS
<1>. HIDE DEF e
<1>3. ShownIn(e) = {} /\ TabIds(e) = {} /\ ToSet(e) = {}
  BY <1>2, ShownInWorkspaces DEF ToSet
<1>4. ProperWorkspaces(e) /\ Apart(e) /\ Injective(e)
  BY <1>2 DEF ProperWorkspaces, IdsDiffer, Apart, Injective
<1>. QED BY <1>1, <1>2, <1>3, <1>4 DEF ProperState, SoundState, Below, Shown

\* and a new server has stored nothing.
LEMMA NothingStored ==
    ProperLayout(NoLayout) /\ Apart(NoLayout.workspaces) /\ \A n \in Nat : Below(NoLayout.workspaces, n)
<1>1. NoLayout \in Layouts /\ NoLayout.workspaces = EmptyState.workspaces
  BY DEF NoLayout, Layouts, NoId, EmptyState
<1>2. IdsDiffer(EmptyState.workspaces) /\ Apart(EmptyState.workspaces)
  BY NothingShown DEF ProperState, ProperWorkspaces, SoundState
<1>. QED BY <1>1, <1>2, NothingShown DEF ProperLayout

\* Layouts that were remembered, or that are stored now, may be remembered.
LEMMA LayoutsStay ==
    ASSUME IInv, created' \in Nat, created <= created',
           \A l \in Remembered' : \/ l \in Remembered \/ l = NoLayout
                                 \/ /\ ProperLayout(l) /\ Below(l.workspaces, created')
                                    /\ ~tangled' => Apart(l.workspaces),
           tangled => tangled'
    PROVE  LayoutsInv' /\ (~tangled' => \A l \in Remembered' : Apart(l.workspaces))
<1>1. ASSUME NEW l \in Remembered'
      PROVE  ProperLayout(l) /\ Below(l.workspaces, created') /\ (~tangled' => Apart(l.workspaces))
  <2>1. CASE l \in Remembered
    BY <2>1, BelowMore DEF IInv, ServerInv, LayoutsInv, SoundInv, Stored
  <2>2. CASE l = NoLayout
    BY <2>2, NothingStored
  <2>. QED BY <2>1, <2>2
<1>. QED BY <1>1 DEF LayoutsInv, Stored

\* A step that brings no layout may forget some.
LEMMA LayoutsUnchanged ==
    ASSUME IInv, UNCHANGED created, Remembered' \subseteq Remembered \union {NoLayout}, tangled => tangled'
    PROVE  LayoutsInv' /\ (~tangled' => \A l \in Remembered' : Apart(l.workspaces))
<1>1. created \in Nat
  BY DEF IInv, ServerInv
<1>. QED BY <1>1, LayoutsStay

\* What a command queues.
LEMMA ChangesKeep ==
    ASSUME IInv, NEW v, NEW loading, Changes(v, loading), ProperState(v), Below(v.workspaces, created),
           UNCHANGED <<created, layout, read, local, saves>>, tangled => tangled',
           ~tangled' => SoundState(v)
    PROVE  state' = v /\ StateInv' /\ LayoutsInv' /\ SoundInv'
<1>1. created \in Nat
  BY DEF IInv, ServerInv
<1>2. state' = v /\ {pending', cache'} \subseteq {pending, cache, Serialize(v)}
  BY DEF Changes, Caches
<1>3. StateInv'
  BY <1>2 DEF StateInv
<1>4. /\ ProperLayout(Serialize(v)) /\ Below(Serialize(v).workspaces, created)
      /\ ~tangled' => Apart(Serialize(v).workspaces)
  BY <1>1, Serialized
<1>5. Remembered' \subseteq Remembered \union {Serialize(v)}
  BY <1>2 DEF Remembered
<1>6. LayoutsInv' /\ (~tangled' => \A l \in Remembered' : Apart(l.workspaces))
  BY <1>1, <1>4, <1>5, LayoutsStay
<1>. QED BY <1>2, <1>3, <1>6 DEF SoundInv

\* A command that only changes the layout.
LEMMA LayoutCommands ==
    ASSUME IInv, NEW v, Keeps(state, v), LayoutCommand(v)
    PROVE  IInv'
<1>1. /\ Changes(v, phase = "loading") /\ events' = events + 1
      /\ UNCHANGED <<created, running, layout, phase, listed, read, local, saves, ops, mine, lost, tangled>>
  BY DEF LayoutCommand, Event, serverVars, loadVars
<1>2. /\ ProperState(v) /\ v.terminals = state.terminals /\ Below(v.workspaces, created)
      /\ SoundState(state) => SoundState(v)
  BY DEF Keeps, IInv, ServerInv, StateInv
<1>3. state' = v /\ StateInv' /\ LayoutsInv' /\ SoundInv'
  BY <1>1, <1>2, ChangesKeep DEF IInv, SoundInv
<1>4. ServerInv' /\ LoadInv' /\ CallsInv'
  BY <1>1 DEF IInv, ServerInv, LoadInv, CallsInv, CallOK
<1>5. ShellsInv'
  BY <1>1, <1>2, <1>3 DEF IInv, ShellsInv, Expected
<1>. QED BY <1>3, <1>4, <1>5 DEF IInv

\* There is an id for one more workspace.
LEMMA IdIsNew ==
    ASSUME NEW s, ProperState(s), Len(s.workspaces) < MaxWorkspaces
    PROVE  NewId(s) \in Id
<1>. DEFINE ws == s.workspaces
            m == Len(ws)
            f == [i \in 1..m |-> ws[i].id]
            used == {f[i] : i \in 1..m}
            n == MaxWorkspaces + 1
            all == 1..n
<1>1. ws \in Seq(Workspaces) /\ m \in Nat /\ DOMAIN ws = 1..m
  BY DEF ProperState, States
<1>2. MaxWorkspaces \in Nat
  BY ConstantsAssumption
<1>3. Ids(ws) = used
  BY <1>1 DEF Ids
<1>4. IsFiniteSet(1..m) /\ Cardinality(1..m) = m
  <2>1. 1 \in Int /\ m \in Int
    BY <1>1
  <2>2. IsFiniteSet(1..m) /\ Cardinality(1..m) = IF 1 > m THEN 0 ELSE m - 1 + 1
    BY <2>1, FS_Interval
  <2>. QED BY <1>1, <2>2
<1>5. DOMAIN f = 1..m
  OBVIOUS
<1>. HIDE DEF f, m
<1>6. IsFiniteSet(used) /\ Cardinality(used) <= m
  <2>1. 1..m \subseteq DOMAIN f
    BY <1>5
  <2>2. IsFiniteSet(used) /\ Cardinality(used) <= Cardinality(1..m)
    BY <1>4, <2>1, FiniteValues
  <2>. QED BY <1>4, <2>2
<1>. HIDE DEF used
<1>7. Cardinality(used) \in Nat
  BY <1>6, FS_CardinalityType
<1>8. /\ IsFiniteSet(used \union {DefaultWorkspace})
      /\ Cardinality(used \union {DefaultWorkspace}) <= MaxWorkspaces
  <2>1. /\ IsFiniteSet(used \union {DefaultWorkspace})
        /\ Cardinality(used \union {DefaultWorkspace})
              = IF DefaultWorkspace \in used THEN Cardinality(used) ELSE Cardinality(used) + 1
    BY <1>6, FS_AddElement
  <2>2. m < MaxWorkspaces
    BY DEF m
  <2>. QED BY <1>1, <1>2, <1>6, <1>7, <2>1, <2>2
<1>9. Cardinality(all) = MaxWorkspaces + 1
  <2>1. n \in Nat /\ n >= 1 /\ n = MaxWorkspaces + 1
    BY <1>2
  <2>. HIDE DEF n
  <2>2. 1 \in Int /\ n \in Int
    BY <2>1
  <2>3. Cardinality(all) = IF 1 > n THEN 0 ELSE n - 1 + 1
    BY <2>2, FS_Interval
  <2>. QED BY <2>1, <2>3
<1>. HIDE DEF all
<1>10. ~(all \subseteq used \union {DefaultWorkspace})
  <2>. SUFFICES ASSUME all \subseteq used \union {DefaultWorkspace} PROVE FALSE
    OBVIOUS
  <2>1. Cardinality(all) <= Cardinality(used \union {DefaultWorkspace})
    BY <1>8, FS_Subset
  <2>2. Cardinality(used \union {DefaultWorkspace}) \in Nat
    BY <1>8, FS_CardinalityType
  <2>. QED BY <1>2, <1>8, <1>9, <2>1, <2>2
<1>11. \E id \in all : id \notin Ids(ws) \union {DefaultWorkspace}
  BY <1>3, <1>10
<1>12. NewId(s) \in all
  BY <1>11 DEF NewId, all, n
<1>. QED BY <1>2, <1>12 DEF Id, all, n

\* A command on the layout keeps what is proper, and the terminals.
LEMMA LocalCommands ==
    ASSUME IInv, Local PROVE \E v : Keeps(state, v) /\ LayoutCommand(v)
<1>1. ProperState(state)
  BY DEF IInv, StateInv
<1>2. CASE CreatesWorkspace
  <2>1. NewId(state) \in Id /\ LayoutCommand(CreateWorkspace(state, NewId(state)))
    BY <1>1, <1>2, IdIsNew DEF CreatesWorkspace
  <2>. QED BY <1>1, <2>1, WorkspaceCreated
<1>3. CASE SelectsWorkspace
  BY <1>1, <1>3, WorkspaceSelected DEF SelectsWorkspace
<1>4. CASE RenamesWorkspace
  BY <1>1, <1>4, WorkspaceRenamed DEF RenamesWorkspace, Titles
<1>5. CASE SelectsTab
  BY <1>1, <1>5, TabSelected DEF SelectsTab
<1>6. CASE RenamesTab
  BY <1>1, <1>6, TabRenamed DEF RenamesTab, Titles
<1>7. CASE SelectsPane
  BY <1>1, <1>7, PaneSelected DEF SelectsPane
<1>8. CASE PressesKey
  BY <1>1, <1>8, PaneSelected DEF PressesKey
<1>9. CASE ResizesPane
  <2>1. \A ratio \in Ratios : ratio \in Int
    BY ConstantsAssumption
  <2>2. PICK path \in {<<>>, <<0>>, <<1>>}, ratio \in Ratios : LayoutCommand(ResizePane(state, path, ratio))
    BY <1>9 DEF ResizesPane
  <2>. QED BY <1>1, <2>1, <2>2, PaneResized
<1>10. CASE ClosesEditor
  <2>1. PICK leaf \in LeavesShown(state) : LayoutCommand(RemoveEditor(state, leaf.id))
    BY <1>10 DEF ClosesEditor
  <2>2. Keeps(state, RemoveEditor(state, leaf.id))
    BY <1>1, EditorRemoved DEF Keeps
  <2>. QED BY <2>1, <2>2
<1>. QED BY <1>2, <1>3, <1>4, <1>5, <1>6, <1>7, <1>8, <1>9, <1>10 DEF Local

\* Those commands are this browser's own.
LEMMA LocalKeeps ==
    ASSUME IInv, Local PROVE IInv'
BY LocalCommands, LayoutCommands

\* A new server, and one with an earlier session's terminals and layout.
LEMMA StartHolds ==
    ASSUME NEW terminals, NEW l, NEW n \in Nat, Starts(terminals, l, n),
           Cardinality(terminals) \in Nat, terminals \subseteq 1..Cardinality(terminals),
           ProperLayout(l), Apart(l.workspaces), Below(l.workspaces, Cardinality(terminals))
    PROVE  IInv
<1>1. /\ created = Cardinality(terminals) /\ running = terminals /\ layout = l /\ events = n
      /\ phase = "loading" /\ listed = Unread /\ read = Unread /\ state = EmptyState
      /\ {pending, cache, local} = {NoLayout} /\ saves = {} /\ ops = {} /\ mine = {}
  BY DEF Starts
<1>2. ServerInv
  BY <1>1 DEF ServerInv
<1>3. LoadInv
  <2>1. listed.value = <<>> /\ ~listed.read
    BY <1>1 DEF Unread
  <2>2. listed.value = EmptyState.terminals /\ Injective(EmptyState.terminals) /\ EmptyState.terminals \in Seq(Id)
    BY <2>1, NothingShown DEF SoundState, EmptyState
  <2>3. ToSet(listed.value) = {}
    BY <2>1 DEF ToSet
  <2>. QED BY <1>1, <2>1, <2>2, <2>3 DEF LoadInv
<1>4. StateInv
  BY <1>1, NothingShown DEF StateInv
<1>5. Remembered \subseteq {l, NoLayout}
  BY <1>1 DEF Remembered, Unread
<1>6. LayoutsInv
  BY <1>1, <1>5, NothingStored DEF LayoutsInv, Stored
<1>7. SoundInv
  BY <1>1, <1>5, NothingShown, NothingStored DEF SoundInv
<1>8. CallsInv
  BY <1>1 DEF CallsInv
<1>9. ShellsInv
  BY <1>1 DEF ShellsInv, Unread
<1>. QED BY <1>2, <1>3, <1>4, <1>6, <1>7, <1>8, <1>9 DEF IInv

\* The layout of an earlier session.
LEMMA EarlierSession ==
    ASSUME NEW root \in StoredTrees
    PROVE  LET w == [EmptyDefault EXCEPT !.tabs = <<OneTab(root)>>, !.activeTab = 1]
               l == [workspaces |-> <<w>>, active |-> DefaultWorkspace]
               n == Cardinality(TerminalsIn(root))
           IN  /\ n \in Nat /\ TerminalsIn(root) \subseteq 1..n
               /\ ProperLayout(l) /\ Apart(l.workspaces) /\ Below(l.workspaces, n)
<1>. DEFINE tab == OneTab(root)
            w == [EmptyDefault EXCEPT !.tabs = <<tab>>, !.activeTab = 1]
            l == [workspaces |-> <<w>>, active |-> DefaultWorkspace]
            n == Cardinality(TerminalsIn(root))
<1>1. /\ IsTree(root) /\ Once(root) /\ 1 \in TerminalsIn(root)
      /\ TerminalsIn(root) = 1..n
  BY ConstantsAssumption DEF Once
<1>2. n \in Nat
  <2>. DEFINE f == [p \in DOMAIN root |-> root[p].id]
  <2>1. IsFiniteSet(Panes(root))
    <3>1. IsFiniteSet(DOMAIN root) /\ Panes(root) \subseteq DOMAIN root
      BY <1>1, TreeNodes DEF Panes
    <3>. QED BY <3>1, FS_Subset
  <2>2. {f[p] : p \in Panes(root)} = TerminalsIn(root) /\ Panes(root) \subseteq DOMAIN f
    BY DEF TerminalsIn, Panes
  <2>. HIDE DEF f
  <2>3. IsFiniteSet(TerminalsIn(root))
    BY <2>1, <2>2, FiniteValues
  <2>. QED BY <2>3, FS_CardinalityType
<1>3. /\ tab \in Tabs /\ tab.id = 1 /\ tab.root = root
  <2>1. root \in Trees
    BY <1>1, TreesAreTrees
  <2>2. TabFor(1) \in Tabs /\ TabFor(1).id = 1
    BY NewTab DEF Id
  <2>. QED BY <2>1, <2>2 DEF OneTab, Tabs
<1>. HIDE DEF tab, n
<1>4. w \in Workspaces /\ w.tabs = <<tab>> /\ w.id = DefaultWorkspace
  <2>. DEFINE tabs == <<tab>>
  <2>1. tabs \in Seq(Tabs)
    BY <1>3
  <2>2. w = [EmptyDefault EXCEPT !.tabs = tabs, !.activeTab = 1] /\ tabs = <<tab>>
    OBVIOUS
  <2>. HIDE DEF w, tabs
  <2>3. w \in Workspaces /\ w.tabs = tabs /\ w.id = DefaultWorkspace
    <3>1. EmptyDefault \in Workspaces /\ EmptyDefault.id = DefaultWorkspace
      BY NewWorkspaceProper DEF EmptyDefault, DefaultWorkspace, Id, Proper
    <3>. QED BY <2>1, <2>2, <3>1 DEF Workspaces
  <2>. QED BY <2>2, <2>3
<1>. HIDE DEF w
<1>5. /\ l \in Layouts /\ l.workspaces = <<w>>
  BY <1>4 DEF Layouts, DefaultWorkspace
<1>. HIDE DEF l
<1>6. DOMAIN <<w>> = {1} /\ <<w>>[1] = w /\ DOMAIN w.tabs = {1} /\ w.tabs[1] = tab
  BY <1>4
<1>7. ApartTabs(w.tabs) /\ Ids(w.tabs) = {1} /\ \A x : x \in TerminalsOf(w) <=> x \in TerminalsIn(root)
  <2>1. ApartTabs(w.tabs)
    BY <1>1, <1>3, <1>6 DEF ApartTabs
  <2>2. Ids(w.tabs) = {1}
    BY <1>3, <1>6 DEF Ids
  <2>. QED BY <1>3, <1>6, <2>1, <2>2, TerminalsOfTabs
<1>8. ProperLayout(l)
  BY <1>5, <1>6 DEF ProperLayout, IdsDiffer
<1>9. Apart(l.workspaces)
  <2>1. DOMAIN l.workspaces = {1} /\ l.workspaces[1] = w
    BY <1>5, <1>6
  <2>. QED BY <1>7, <2>1 DEF Apart
<1>10. Below(l.workspaces, n)
  <2>1. \A x : x \in TabIds(l.workspaces) => x = 1
    BY <1>5, <1>6, <1>7, ShownInWorkspaces
  <2>2. \A x : x \in ShownIn(l.workspaces) => x \in 1..n
    BY <1>1, <1>5, <1>6, <1>7, ShownInWorkspaces
  <2>. QED BY <1>1, <2>1, <2>2 DEF Below
<1>. QED BY <1>1, <1>2, <1>8, <1>9, <1>10 DEF n, l, w, tab

\* The invariant holds at the start.
LEMMA InitHolds == Init => IInv
<1>1. CASE Starts({}, NoLayout, 0)
  <2>1. Cardinality({}) = 0
    BY FS_EmptySet
  <2>2. Cardinality({}) \in Nat /\ {} \subseteq 1..Cardinality({}) /\ Below(NoLayout.workspaces, Cardinality({}))
    BY <2>1, NothingStored
  <2>. QED BY <1>1, <2>2, NothingStored, StartHolds
<1>2. ASSUME NEW root \in StoredTrees,
             Starts(TerminalsIn(root),
                    [workspaces |-> <<[EmptyDefault EXCEPT !.tabs = <<OneTab(root)>>, !.activeTab = 1]>>,
                     active |-> DefaultWorkspace], 1)
      PROVE  IInv
  <2>. DEFINE l == [workspaces |-> <<[EmptyDefault EXCEPT !.tabs = <<OneTab(root)>>, !.activeTab = 1]>>,
                    active |-> DefaultWorkspace]
              n == Cardinality(TerminalsIn(root))
  <2>1. /\ n \in Nat /\ TerminalsIn(root) \subseteq 1..n
        /\ ProperLayout(l) /\ Apart(l.workspaces) /\ Below(l.workspaces, n)
    BY EarlierSession
  <2>2. Starts(TerminalsIn(root), l, 1)
    BY <1>2
  <2>. HIDE DEF l
  <2>. QED BY <2>1, <2>2, StartHolds
<1>. QED BY <1>1, <1>2 DEF Init

\* The terminals that the server lists.
LEMMA ListedTerminals ==
    ASSUME ServerInv
    PROVE  Listed \in Seq(Id) /\ Injective(Listed) /\ ToSet(Listed) = running
<1>. DEFINE q == [t \in 1..created |-> t]
<1>1. created \in Nat /\ running \subseteq 1..created
  BY DEF ServerInv
<1>2. q \in Seq(Id) /\ DOMAIN q = 1..created /\ \A t \in 1..created : q[t] = t
  BY <1>1 DEF Id
<1>3. Listed = Subsequence(q, running)
  BY DEF Listed
<1>. HIDE DEF q
<1>4. running \subseteq DOMAIN q
  BY <1>1, <1>2
<1>5. Subsequence(q, running) \in Seq(Id)
  BY <1>2, <1>4, SubsequenceElements
<1>6. /\ ToSet(Subsequence(q, running)) = {q[i] : i \in running}
      /\ (\A i, j \in running : q[i] = q[j] => i = j) =>
            \A k, l \in DOMAIN Subsequence(q, running) :
               Subsequence(q, running)[k] = Subsequence(q, running)[l] => k = l
  BY <1>2, <1>4, WithoutElements
<1>7. {q[i] : i \in running} = running
  BY <1>2, <1>4
<1>8. \A i, j \in running : q[i] = q[j] => i = j
  BY <1>2, <1>4
<1>. QED BY <1>3, <1>5, <1>6, <1>7, <1>8 DEF Injective

\* What is known of layouts, states and calls stays true when a terminal is
\* created.
LEMMA OneMoreTerminal ==
    ASSUME IInv, created' = created + 1, running' \subseteq running \union {created'}
    PROVE  /\ created' \in Nat /\ created' \in Id /\ created' \in 1..created' /\ created <= created'
           /\ running' \subseteq 1..created' /\ 1..created \subseteq 1..created'
           /\ \A ws : Below(ws, created) => Below(ws, created')
           /\ \A op : CallOK(op) => CallOK(op)'
<1>1. created \in Nat /\ running \subseteq 1..created
  BY DEF IInv, ServerInv
<1>2. created' \in Nat /\ created' \in Id /\ created' \in 1..created' /\ created <= created'
  BY <1>1 DEF Id
<1>3. 1..created \subseteq 1..created'
  BY <1>1, <1>2
<1>4. created' \notin 1..created
  BY <1>1
<1>5. ASSUME NEW op, CallOK(op) PROVE CallOK(op)'
  <2>1. CASE op \in Creations /\ op.terminal <= created
    <3>1. op.terminal \in Nat
      BY <2>1 DEF Creations
    <3>2. op.terminal <= created'
      BY <1>1, <1>2, <2>1, <3>1
    <3>. QED BY <2>1, <3>2 DEF CallOK
  <2>2. CASE op \in Openings
    BY <2>2 DEF CallOK
  <2>3. CASE ~(op \in Creations /\ op.terminal <= created) /\ op \notin Openings
    <3>1. /\ op \in Closings /\ op.todo \subseteq op.ids /\ op.ids \subseteq 1..created
          /\ op.alive => (op.ids \ op.todo) \intersect running = {}
      BY <1>5, <2>3 DEF CallOK
    <3>2. op.ids \subseteq 1..created' /\ created' \notin op.ids
      BY <1>3, <1>4, <3>1
    <3>3. op.alive => (op.ids \ op.todo) \intersect running' = {}
      BY <3>1, <3>2
    <3>. QED BY <3>1, <3>2, <3>3 DEF CallOK
  <2>. QED BY <2>1, <2>2, <2>3
<1>. QED BY <1>1, <1>2, <1>3, <1>5, BelowMore

\* The terminals are read.
LEMMA TerminalsRead ==
    ASSUME IInv, ReadsTerminals PROVE IInv'
<1>1. /\ phase = "loading" /\ listed' = Read(Listed)
      /\ UNCHANGED <<created, running, layout, events, phase, read, local, state, pending, cache, saves,
                     ops, mine, lost, tangled>>
  BY DEF ReadsTerminals, serverVars, saveVars, historyVars
<1>2. ServerInv' /\ StateInv' /\ CallsInv'
  BY <1>1 DEF IInv, ServerInv, StateInv, CallsInv, CallOK
<1>3. LayoutsInv' /\ SoundInv'
  BY <1>1 DEF IInv, LayoutsInv, SoundInv, Remembered, Stored
<1>4. Listed \in Seq(Id) /\ Injective(Listed) /\ ToSet(Listed) = running /\ running \subseteq 1..created
  BY ListedTerminals DEF IInv, ServerInv
<1>5. listed'.value = Listed
  BY <1>1 DEF Read
<1>6. LoadInv'
  BY <1>1, <1>4, <1>5 DEF IInv, LoadInv
<1>7. ShellsInv'
  BY <1>1, <1>4, <1>5 DEF ShellsInv, Expected
<1>. QED BY <1>2, <1>3, <1>6, <1>7 DEF IInv

\* The layout is read.
LEMMA LayoutRead ==
    ASSUME IInv, ReadsLayout PROVE IInv'
<1>1. /\ read' = Read(layout)
      /\ UNCHANGED <<created, running, layout, events, phase, listed, local, state, pending, cache, saves,
                     ops, mine, lost, tangled>>
  BY DEF ReadsLayout, serverVars, historyVars
<1>2. ServerInv' /\ StateInv' /\ LoadInv' /\ CallsInv' /\ ShellsInv'
  BY <1>1 DEF IInv, ServerInv, StateInv, LoadInv, CallsInv, CallOK, ShellsInv, Expected
<1>3. read'.value = layout
  BY <1>1 DEF Read
<1>4. Remembered' \subseteq Remembered
  BY <1>1, <1>3 DEF Remembered
<1>5. LayoutsInv' /\ SoundInv'
  BY <1>1, <1>4, LayoutsUnchanged DEF IInv, SoundInv
<1>. QED BY <1>2, <1>5 DEF IInv

\* The first terminal is created for a page that found none.
LEMMA FirstCreated ==
    ASSUME IInv, CreatesFirst PROVE IInv'
<1>1. /\ phase = "loading" /\ listed.read /\ listed.value = <<>>
      /\ created' = created + 1 /\ running' = running \union {created'}
      /\ mine' = mine \union {created'} /\ listed' = Read(<<created'>>)
      /\ UNCHANGED <<layout, events, phase, read, local, state, pending, cache, saves, ops, lost, tangled>>
  BY DEF CreatesFirst, saveVars
<1>2. /\ created' \in Nat /\ created' \in Id /\ created' \in 1..created' /\ running' \subseteq 1..created'
      /\ 1..created \subseteq 1..created' /\ created <= created'
      /\ \A ws : Below(ws, created) => Below(ws, created')
      /\ \A op : CallOK(op) => CallOK(op)'
  BY <1>1, OneMoreTerminal
<1>3. mine' \subseteq 1..created'
  BY <1>1, <1>2 DEF IInv, ServerInv
<1>4. ServerInv' /\ StateInv' /\ CallsInv'
  BY <1>1, <1>2, <1>3 DEF IInv, ServerInv, StateInv, CallsInv
<1>5. LayoutsInv' /\ SoundInv'
  <2>1. Remembered' = Remembered
    BY <1>1 DEF Remembered
  <2>. QED BY <1>1, <1>2, <2>1, LayoutsStay DEF IInv, SoundInv
<1>6. listed'.value = <<created'>> /\ listed'.value \in Seq(Id) /\ ToSet(listed'.value) = {created'}
      /\ Injective(listed'.value)
  <2>. DEFINE q == <<created'>>
  <2>1. q \in Seq(Id) /\ DOMAIN q = {1} /\ q[1] = created'
    BY <1>2
  <2>2. listed'.value = q
    BY <1>1 DEF Read
  <2>. HIDE DEF q
  <2>3. ToSet(q) = {created'} /\ Injective(q)
    BY <2>1 DEF ToSet, Injective
  <2>. QED BY <2>1, <2>2, <2>3 DEF q
<1>7. LoadInv'
  BY <1>1, <1>2, <1>6 DEF IInv, LoadInv
<1>8. ShellsInv'
  <2>1. ToSet(listed.value) = {}
    BY <1>1 DEF ToSet
  <2>2. (mine \intersect running) \ lost \subseteq ToSet(state.terminals) \union Expected
    BY <1>1, <2>1 DEF IInv, ShellsInv
  <2>. QED BY <1>1, <1>6, <2>2 DEF ShellsInv, Expected, IInv, ServerInv
<1>. QED BY <1>4, <1>5, <1>7, <1>8 DEF IInv

\* Nothing is read when a page starts to load, or has loaded.
LEMMA NothingRead ==
    ASSUME listed' = Unread, read' = Unread, phase' \in {"loading", "ready"}
    PROVE  LoadInv' /\ ~listed'.read /\ ~read'.read
<1>1. listed'.value = <<>> /\ ~listed'.read /\ ~read'.read
  BY DEF Unread
<1>2. listed'.value \in Seq(Id) /\ Injective(listed'.value) /\ ToSet(listed'.value) = {}
  BY <1>1 DEF Injective, ToSet
<1>. QED BY <1>1, <1>2 DEF LoadInv

\* What a load shows: the layout that it read, or found in the cache.
Hydration == IF read.value = NoLayout /\ local # NoLayout THEN local ELSE read.value

\* The page shows what it read.
LEMMA Hydrated ==
    ASSUME IInv, Hydrates PROVE IInv'
<1>. DEFINE v == Reconstruct(listed.value, Hydration)
<1>1. /\ phase = "loading" /\ listed.read /\ read.read /\ phase' = "ready"
      /\ state' = v /\ persisted' = Serialize(v) /\ listed' = Unread /\ read' = Unread /\ local' = NoLayout
      /\ lost' = (lost \union ToSet(state.terminals)) \ ToSet(listed.value)
      /\ tangled' = (tangled \/ Tangles(listed.value, Hydration))
      /\ saves' \in {saves, saves \union {Save(persisted', revision)}}
      /\ UNCHANGED <<created, running, layout, events, pending, cache, ops, mine>>
  BY DEF Hydrates, Hydration, serverVars
<1>2. /\ created \in Nat /\ ProperLayout(Hydration) /\ Below(Hydration.workspaces, created)
      /\ ~tangled => Apart(Hydration.workspaces)
      /\ listed.value \in Seq(Id) /\ Injective(listed.value) /\ ToSet(listed.value) \subseteq 1..created
  <2>1. Hydration \in Remembered
    BY <1>1 DEF Hydration, Remembered
  <2>. QED BY <2>1 DEF IInv, ServerInv, LoadInv, LayoutsInv, SoundInv, Stored
<1>3. /\ ProperState(v) /\ v.terminals = listed.value
      /\ ~tangled' => SoundState(v)
      /\ Below(v.workspaces, created)
  <2>1. /\ ProperState(v) /\ v.terminals = listed.value
        /\ Apart(Hydration.workspaces) /\ ~Tangles(listed.value, Hydration) => SoundState(v)
        /\ Below(v.workspaces, created)
    BY <1>2, Reconstructed
  <2>. HIDE DEF v
  <2>. QED BY <1>1, <1>2, <2>1
<1>. HIDE DEF v
<1>4. LoadInv' /\ ~listed'.read /\ ~read'.read
  BY <1>1, NothingRead
<1>5. ServerInv' /\ CallsInv' /\ StateInv'
  BY <1>1, <1>3 DEF IInv, ServerInv, CallsInv, CallOK, StateInv
<1>6. LayoutsInv' /\ SoundInv'
  <2>1. /\ ProperLayout(Serialize(v)) /\ Below(Serialize(v).workspaces, created)
        /\ ~tangled' => Apart(Serialize(v).workspaces)
    BY <1>2, <1>3, Serialized
  <2>2. Save(persisted', revision).layout = Serialize(v)
    BY <1>1 DEF Save
  <2>3. Remembered' \subseteq Remembered \union {NoLayout, Serialize(v)}
    BY <1>1, <1>4, <2>2 DEF Remembered
  <2>. DEFINE k == Serialize(v)
  <2>. HIDE DEF k
  <2>4. \A l \in Remembered' : \/ l \in Remembered \/ l = NoLayout
                               \/ /\ ProperLayout(l) /\ Below(l.workspaces, created')
                                  /\ ~tangled' => Apart(l.workspaces)
    <3>1. \A l \in Remembered' : l \in Remembered \/ l = NoLayout \/ l = k
      BY <2>3 DEF k
    <3>2. ProperLayout(k) /\ Below(k.workspaces, created') /\ (~tangled' => Apart(k.workspaces))
      BY <1>1, <2>1 DEF k
    <3>. QED BY <3>1, <3>2
  <2>5. created' \in Nat /\ created <= created'
    <3>1. created \in Nat /\ created' = created
      BY <1>1, <1>2
    <3>. QED BY <3>1
  <2>6. tangled => tangled'
    BY <1>1
  <2>7. LayoutsInv' /\ (~tangled' => \A l \in Remembered' : Apart(l.workspaces))
    BY <2>4, <2>5, <2>6, LayoutsStay
  <2>. QED BY <1>1, <1>3, <2>7 DEF SoundInv
<1>7. ShellsInv'
  <2>1. (mine \intersect running) \ lost \subseteq
           ToSet(state.terminals) \union Expected \union ToSet(listed.value)
    BY <1>1 DEF IInv, ShellsInv
  <2>2. state'.terminals = listed.value
    BY <1>1, <1>3
  <2>. QED BY <1>1, <2>1, <2>2 DEF ShellsInv, Expected
<1>. QED BY <1>4, <1>5, <1>6, <1>7 DEF IInv

\* A load fails.
LEMMA LoadFailed ==
    ASSUME IInv, LoadFails PROVE IInv'
<1>1. /\ phase' = "ready" /\ listed' = Unread /\ read' = Unread /\ local' = NoLayout /\ events' = events + 1
      /\ lost' = lost \union (mine \ ToSet(state.terminals))
      /\ UNCHANGED <<created, running, layout, state, pending, cache, saves, ops, mine, tangled>>
  BY DEF LoadFails, Event, serverVars
<1>2. LoadInv' /\ ~listed'.read /\ ~read'.read
  BY <1>1, NothingRead
<1>3. ServerInv' /\ CallsInv' /\ StateInv'
  BY <1>1 DEF IInv, ServerInv, CallsInv, CallOK, StateInv
<1>4. LayoutsInv' /\ SoundInv'
  <2>1. Remembered' \subseteq Remembered \union {NoLayout}
    BY <1>1, <1>2 DEF Remembered
  <2>. QED BY <1>1, <2>1, LayoutsUnchanged DEF IInv, SoundInv
<1>5. ShellsInv'
  BY <1>1 DEF ShellsInv
<1>. QED BY <1>2, <1>3, <1>4, <1>5 DEF IInv

\* The page is loaded again.
LEMMA Reloaded ==
    ASSUME IInv, Reloads PROVE IInv'
<1>1. /\ phase = "ready" /\ phase' = "loading" /\ state' = EmptyState /\ pending' = NoLayout
      /\ events' = events + 1
      /\ ops' = {[op EXCEPT !.alive = FALSE] : op \in ops}
      /\ UNCHANGED <<created, running, layout, listed, read, mine, lost, tangled>>
  BY DEF Reloads, Event, serverVars
<1>2. cache' \in {cache, pending} /\ local' \in {cache', NoLayout}
  BY DEF Reloads, Caches
<1>3. PICK sent \in SUBSET ({pending} \ {NoLayout}) :
         saves' = {Left(c) : c \in {d \in saves : d.step = "put"} \union {Save(l, revision) : l \in sent}}
  BY DEF Reloads
<1>4. \A c \in saves' : c.layout \in {d.layout : d \in saves} \union {pending}
  <2>1. \A d : Left(d).layout = d.layout
    BY DEF Left
  <2>2. \A l : Save(l, revision).layout = l
    BY DEF Save
  <2>. QED BY <1>3, <2>1, <2>2
<1>5. ServerInv' /\ LoadInv'
  BY <1>1 DEF IInv, ServerInv, LoadInv
<1>6. StateInv'
  BY <1>1, NothingShown DEF IInv, ServerInv, StateInv
<1>7. LayoutsInv' /\ SoundInv'
  <2>1. Remembered' \subseteq Remembered \union {NoLayout}
    BY <1>1, <1>2, <1>4 DEF Remembered
  <2>. QED BY <1>1, <2>1, LayoutsUnchanged, NothingShown DEF IInv, SoundInv
<1>8. CallsInv'
  <2>1. ASSUME NEW op \in ops PROVE CallOK([op EXCEPT !.alive = FALSE])'
    <3>1. CallOK(op)
      BY DEF IInv, CallsInv
    <3>2. CASE op \in Creations /\ op.terminal <= created
      BY <1>1, <3>2 DEF CallOK, Creations
    <3>3. CASE op \in Closings /\ op.todo \subseteq op.ids /\ op.ids \subseteq 1..created
      BY <1>1, <3>3 DEF CallOK, Closings
    <3>4. CASE op \in Openings
      BY <3>4 DEF CallOK, Openings
    <3>. QED BY <3>1, <3>2, <3>3, <3>4 DEF CallOK
  <2>. QED BY <1>1, <2>1 DEF CallsInv
<1>9. ShellsInv'
  BY <1>1 DEF IInv, LoadInv, ShellsInv
<1>. QED BY <1>5, <1>6, <1>7, <1>8, <1>9 DEF IInv

\* All steps of loading.
LEMMA LoadingKeeps ==
    ASSUME IInv, Loading PROVE IInv'
BY TerminalsRead, LayoutRead, FirstCreated, Hydrated, LoadFailed, Reloaded DEF Loading

\* A user asks for something of the server.
LEMMA Asked ==
    ASSUME IInv, NEW op, CallOK(op), Asks(op)
    PROVE  IInv'
<1>1. /\ ops' = ops \union {op} /\ events' = events + 1
      /\ UNCHANGED <<created, running, layout, phase, listed, read, local, state, pending, cache, saves,
                     mine, lost, tangled>>
  BY DEF Asks, Event, serverVars, loadVars, saveVars
<1>2. ServerInv' /\ LoadInv' /\ StateInv' /\ LayoutsInv' /\ SoundInv'
  BY <1>1 DEF IInv, ServerInv, LoadInv, StateInv, LayoutsInv, SoundInv, Remembered, Stored
<1>3. CallsInv'
  BY <1>1 DEF IInv, CallsInv, CallOK
<1>4. ShellsInv'
  <2>1. Expected \subseteq Expected'
    BY <1>1 DEF Expected
  <2>. QED BY <1>1, <2>1 DEF IInv, ShellsInv
<1>. QED BY <1>2, <1>3, <1>4 DEF IInv

\* The terminals and the workspaces that can be closed.
LEMMA ActiveShown ==
    ASSUME NEW s, ProperState(s)
    PROVE  /\ \A w \in ToSet(s.workspaces) : TerminalsOf(w) \subseteq Shown(s) /\ w.id \in Id
           /\ HasTab(s) => /\ \A tab \in ToSet(ActiveWorkspace(s).tabs) : TerminalsIn(tab.root) \subseteq Shown(s)
                           /\ TerminalsIn(ActiveTab(s).root) \subseteq Shown(s)
<1>. DEFINE ws == s.workspaces
<1>1. ws \in Seq(Workspaces)
  BY DEF ProperState, States
<1>2. \A i \in DOMAIN ws : ws[i] \in Workspaces /\ TerminalsOf(ws[i]) \subseteq Shown(s)
  BY <1>1, ShownInWorkspaces DEF Shown
<1>3. \A w \in ToSet(ws) : \E i \in DOMAIN ws : w = ws[i]
  BY DEF ToSet
<1>4. ASSUME HasTab(s)
      PROVE  /\ \A tab \in ToSet(ActiveWorkspace(s).tabs) : TerminalsIn(tab.root) \subseteq Shown(s)
             /\ TerminalsIn(ActiveTab(s).root) \subseteq Shown(s)
  <2>1. PICK i \in DOMAIN ws : ActiveWorkspace(s) = ws[i]
    BY <1>1, <1>4, CurrentIn DEF HasTab, ActiveWorkspace
  <2>2. ws[i].tabs \in Seq(Tabs) /\ ws[i].tabs # <<>>
    BY <1>2, <1>4, <2>1 DEF Workspaces, HasTab
  <2>3. \A j \in DOMAIN ws[i].tabs : TerminalsIn(ws[i].tabs[j].root) \subseteq Shown(s)
    <3>1. \A j \in DOMAIN ws[i].tabs : TerminalsIn(ws[i].tabs[j].root) \subseteq TerminalsOf(ws[i])
      BY TerminalsOfTabs
    <3>. QED BY <1>2, <3>1
  <2>4. \E j \in DOMAIN ws[i].tabs : ActiveTab(s) = ws[i].tabs[j]
    BY <2>1, <2>2, CurrentIn DEF ActiveTab
  <2>. QED BY <2>1, <2>3, <2>4 DEF ToSet
<1>5. \A w \in Workspaces : w.id \in Id
  BY DEF Workspaces
<1>. QED BY <1>2, <1>3, <1>4, <1>5

\* The calls of a new creation.
LEMMA CreationOK ==
    ASSUME IInv, NEW place \in {"tab"} \union Directions PROVE CallOK(Creation(place))
<1>1. events + 1 \in Id /\ (phase = "loading") \in BOOLEAN
  BY DEF IInv, ServerInv, Id
<1>2. Creation(place) \in Creations
  BY <1>1 DEF Creation, Creations, NoId
<1>3. Creation(place).terminal = 0
  BY DEF Creation, NoId
<1>. QED BY <1>2, <1>3 DEF IInv, ServerInv, CallOK

\* The calls of a new closing.
LEMMA ClosingOK ==
    ASSUME IInv, NEW ids, ids \subseteq Shown(state), NEW w \in Nat PROVE CallOK(Closing(ids, w))
<1>1. ids \subseteq 1..created /\ created \in Nat
  BY DEF IInv, StateInv, ServerInv, Below, Shown
<1>2. ids \subseteq Id
  BY <1>1 DEF Id
<1>. DEFINE op == Closing(ids, w)
<1>3. events + 1 \in Id /\ (phase = "loading") \in BOOLEAN
  BY DEF IInv, ServerInv, Id
<1>4. op \in Closings /\ op.todo = ids /\ op.ids = ids
  BY <1>2, <1>3 DEF Closing, Closings
<1>. HIDE DEF op
<1>5. op.todo \subseteq op.ids /\ op.ids \subseteq 1..created /\ (op.ids \ op.todo) \intersect running = {}
  BY <1>1, <1>4
<1>6. CallOK(op)
  BY <1>4, <1>5 DEF CallOK
<1>. QED BY <1>6 DEF op

\* The call of a file that is opened.
LEMMA OpeningOK ==
    ASSUME IInv PROVE CallOK(Opening)
<1>1. events + 1 \in Id /\ (phase = "loading") \in BOOLEAN
  BY DEF IInv, ServerInv, Id
<1>2. Opening \in Openings
  BY <1>1 DEF Opening, Openings
<1>. QED BY <1>2 DEF CallOK

\* All commands that ask the server for something.
LEMMA AskingKeeps ==
    ASSUME IInv, CreatesTab \/ Splits \/ OpensFile \/ ClosesPane \/ ClosesTab \/ ClosesWorkspace
    PROVE  IInv'
<1>1. ProperState(state) /\ NoId \in Nat
  BY DEF IInv, StateInv, NoId
<1>2. CASE CreatesTab
  BY <1>2, CreationOK, Asked DEF CreatesTab
<1>3. CASE Splits
  BY <1>3, CreationOK, Asked DEF Splits
<1>4. CASE ClosesPane
  <2>1. PICK t \in TerminalsIn(ActiveTab(state).root) : Asks(Closing({t}, NoId))
    BY <1>4 DEF ClosesPane
  <2>2. {t} \subseteq Shown(state)
    BY <1>1, <1>4, <2>1, ActiveShown DEF ClosesPane
  <2>. QED BY <1>1, <2>1, <2>2, ClosingOK, Asked
<1>5. CASE ClosesTab
  <2>1. PICK tab \in ToSet(ActiveWorkspace(state).tabs) : Asks(Closing(TerminalsIn(tab.root), NoId))
    BY <1>5 DEF ClosesTab
  <2>2. TerminalsIn(tab.root) \subseteq Shown(state)
    BY <1>1, <1>5, <2>1, ActiveShown DEF ClosesTab
  <2>. QED BY <1>1, <2>1, <2>2, ClosingOK, Asked
<1>6. CASE ClosesWorkspace
  <2>1. PICK w \in ToSet(state.workspaces) : Asks(Closing(TerminalsOf(w), w.id))
    BY <1>6 DEF ClosesWorkspace
  <2>2. TerminalsOf(w) \subseteq Shown(state) /\ w.id \in Nat
    BY <1>1, <2>1, ActiveShown DEF Id
  <2>. QED BY <2>1, <2>2, ClosingOK, Asked
<1>7. CASE OpensFile
  BY <1>7, OpeningOK, Asked DEF OpensFile
<1>. QED BY <1>2, <1>3, <1>4, <1>5, <1>6, <1>7

\* What the calls of a kind are.
LEMMA CallKinds ==
    ASSUME NEW op, CallOK(op)
    PROVE  /\ op.kind = "create" => op \in Creations /\ op.terminal <= created
           /\ op.kind = "close" =>
                 /\ op \in Closings /\ op.todo \subseteq op.ids /\ op.ids \subseteq 1..created
                 /\ op.alive => (op.ids \ op.todo) \intersect running = {}
           /\ op.kind = "open" => op \in Openings
<1>1. \A o \in Creations : o.kind = "create"
  BY DEF Creations
<1>2. \A o \in Closings : o.kind = "close"
  BY DEF Closings
<1>3. \A o \in Openings : o.kind = "open"
  BY DEF Openings
<1>. QED BY <1>1, <1>2, <1>3 DEF CallOK

\* The server creates a terminal that was asked for.
LEMMA ServerCreated ==
    ASSUME IInv, NEW op \in ops, ServerCreates(op)
    PROVE  IInv'
<1>0. PICK t : t = created'
  OBVIOUS
<1>. DEFINE op2 == [op EXCEPT !.terminal = t]
<1>1. /\ op.kind = "create" /\ op.terminal = NoId
      /\ created' = created + 1 /\ running' = running \union {created'}
      /\ mine' = mine \union {created'} /\ ops' = (ops \ {op}) \union {op2}
      /\ UNCHANGED <<layout, events, phase, listed, read, local, state, pending, cache, saves, lost, tangled>>
  BY <1>0 DEF ServerCreates, Becomes, loadVars, saveVars
<1>2. /\ created' \in Nat /\ created' \in Id /\ created' \in 1..created' /\ running' \subseteq 1..created'
      /\ 1..created \subseteq 1..created' /\ created <= created'
      /\ \A ws : Below(ws, created) => Below(ws, created')
      /\ \A o : CallOK(o) => CallOK(o)'
  BY <1>1, OneMoreTerminal
<1>3. mine' \subseteq 1..created' /\ 0 \notin mine
  BY <1>1, <1>2 DEF IInv, ServerInv
<1>4. ServerInv' /\ StateInv' /\ LoadInv' /\ LayoutsInv' /\ SoundInv'
  <2>1. ServerInv' /\ StateInv' /\ LoadInv'
    BY <1>1, <1>2, <1>3 DEF IInv, ServerInv, StateInv, LoadInv
  <2>2. Remembered' = Remembered
    BY <1>1 DEF Remembered
  <2>. QED BY <1>1, <1>2, <2>1, <2>2, LayoutsStay DEF IInv, SoundInv
<1>5. op \in Creations
  BY <1>1, CallKinds DEF IInv, CallsInv
<1>6. op2 \in Creations /\ op2.terminal = created' /\ op2.kind = "create"
  BY <1>0, <1>2, <1>5 DEF Creations
<1>. HIDE DEF op2
<1>7. CallsInv'
  <2>1. CallOK(op2)'
    BY <1>2, <1>6 DEF CallOK
  <2>. QED BY <1>1, <1>2, <2>1 DEF IInv, CallsInv
<1>8. ShellsInv'
  <2>1. created' \in Expected' /\ \A x \in Expected : x # 0 => x \in Expected'
    BY <1>1, <1>6 DEF Expected, NoId
  <2>. QED BY <1>1, <1>3, <2>1 DEF IInv, ShellsInv
<1>. QED BY <1>4, <1>7, <1>8 DEF IInv

\* The terminal that was asked for is shown.
LEMMA CreateReturned ==
    ASSUME IInv, NEW op \in ops, CreateReturns(op)
    PROVE  IInv'
<1>. DEFINE t == op.terminal
            v == IF op.place = "tab" THEN CreateTab(state, t) ELSE SplitActive(state, t, op.place)
<1>1. /\ op.kind = "create" /\ t # NoId /\ Changes(v, op.loading) /\ ops' = ops \ {op}
      /\ tangled' = (tangled \/ Retaken(op))
      /\ UNCHANGED <<created, running, layout, events, phase, listed, read, local, saves, mine, lost>>
  BY DEF CreateReturns, serverVars, loadVars
<1>2. op \in Creations /\ t <= created
  BY <1>1, CallKinds DEF IInv, CallsInv
<1>3. t \in Id /\ op.place \in {"tab"} \union Directions
  BY <1>1, <1>2 DEF Creations, Id, NoId
<1>4. ProperState(state) /\ Below(state.workspaces, created) /\ created \in Nat
  BY DEF IInv, StateInv, ServerInv
<1>5. TabIds(state.workspaces) = {tab.id : tab \in AllTabs(state)}
  BY DEF TabIds, Ids, AllTabs, ToSet
<1>6. /\ Grown(state, t, v)
      /\ SoundState(state) /\ ~Retaken(op) => SoundState(v)
  <2>1. CASE op.place = "tab"
    BY <1>3, <1>4, <1>5, <2>1, TabCreated DEF Retaken
  <2>2. CASE op.place # "tab"
    <3>1. op.place \in Directions
      BY <1>3, <2>2
    <3>. QED BY <1>3, <1>4, <1>5, <2>2, <3>1, ActiveSplit DEF Retaken
  <2>. QED BY <2>1, <2>2
<1>. HIDE DEF v
<1>7. ProperState(v) /\ Below(v.workspaces, created) /\ ToSet(v.terminals) = ToSet(state.terminals) \union {t}
  BY <1>2, <1>4, <1>6 DEF Grown
<1>8. state' = v /\ StateInv' /\ LayoutsInv' /\ SoundInv'
  <2>1. ~tangled' => SoundState(v)
    BY <1>1, <1>6 DEF IInv, SoundInv
  <2>. QED BY <1>1, <1>7, <2>1, ChangesKeep
<1>9. ServerInv' /\ LoadInv' /\ CallsInv'
  BY <1>1 DEF IInv, ServerInv, LoadInv, CallsInv, CallOK
<1>10. ShellsInv'
  <2>1. \A x \in Expected : x = t \/ x \in Expected'
    BY <1>1 DEF Expected
  <2>. QED BY <1>1, <1>7, <1>8, <2>1 DEF IInv, ShellsInv
<1>. QED BY <1>8, <1>9, <1>10 DEF IInv

\* A creation's request or answer is lost.
LEMMA CreateFailed ==
    ASSUME IInv, NEW op \in ops, CreateFails(op)
    PROVE  IInv'
<1>1. /\ lost' = lost \union ({op.terminal} \ (ToSet(state.terminals) \union {NoId}))
      /\ ops' = ops \ {op}
      /\ UNCHANGED <<created, running, layout, events, phase, listed, read, local, state, pending, cache, saves,
                     mine, tangled>>
  BY DEF CreateFails, serverVars, loadVars, saveVars
<1>2. ServerInv' /\ LoadInv' /\ StateInv' /\ LayoutsInv' /\ SoundInv' /\ CallsInv'
  BY <1>1 DEF IInv, ServerInv, LoadInv, StateInv, LayoutsInv, SoundInv, Remembered, CallsInv, CallOK, Stored
<1>3. ShellsInv'
  <2>1. \A x \in Expected : x = op.terminal \/ x \in Expected'
    BY <1>1 DEF Expected
  <2>2. NoId \notin mine
    BY DEF IInv, ServerInv, NoId
  <2>. QED BY <1>1, <2>1, <2>2 DEF IInv, ShellsInv
<1>. QED BY <1>2, <1>3 DEF IInv

\* A file that was asked for is shown, in an editor of its own.
LEMMA FileReturned ==
    ASSUME IInv, NEW op \in ops, FileReturns(op)
    PROVE  IInv'
<1>. DEFINE v == SplitEditor(state, op.at, "vertical")
<1>1. /\ op.kind = "open" /\ Changes(v, op.loading) /\ ops' = ops \ {op}
      /\ UNCHANGED <<created, running, layout, events, phase, listed, read, local, saves, mine, lost, tangled>>
  BY DEF FileReturns, serverVars, loadVars, historyVars
<1>2. op.at \in Id /\ "vertical" \in Directions
  <2>1. op \in Openings
    BY <1>1, CallKinds DEF IInv, CallsInv
  <2>. QED BY <2>1 DEF Openings, Directions
<1>3. Keeps(state, v)
  BY <1>2, EditorOpened DEF IInv, StateInv
<1>. HIDE DEF v
<1>4. /\ ProperState(v) /\ v.terminals = state.terminals /\ Below(v.workspaces, created)
      /\ SoundState(state) => SoundState(v)
  BY <1>3 DEF Keeps, IInv, ServerInv, StateInv
<1>5. state' = v /\ StateInv' /\ LayoutsInv' /\ SoundInv'
  BY <1>1, <1>4, ChangesKeep DEF IInv, SoundInv
<1>6. ServerInv' /\ LoadInv' /\ CallsInv'
  BY <1>1 DEF IInv, ServerInv, LoadInv, CallsInv, CallOK
<1>7. ShellsInv'
  <2>1. Expected' = Expected
    BY <1>1 DEF Expected
  <2>. QED BY <1>1, <1>4, <1>5, <2>1 DEF IInv, ShellsInv
<1>. QED BY <1>5, <1>6, <1>7 DEF IInv

\* A file cannot be read.
LEMMA FileFailed ==
    ASSUME IInv, NEW op \in ops, FileFails(op)
    PROVE  IInv'
<1>1. /\ op.kind = "open" /\ ops' = ops \ {op}
      /\ UNCHANGED <<created, running, layout, events, phase, listed, read, local, state, pending, cache, saves,
                     mine, lost, tangled>>
  BY DEF FileFails, serverVars, loadVars, saveVars, historyVars
<1>2. ServerInv' /\ LoadInv' /\ StateInv' /\ LayoutsInv' /\ SoundInv' /\ CallsInv'
  BY <1>1 DEF IInv, ServerInv, LoadInv, StateInv, LayoutsInv, SoundInv, Remembered, CallsInv, CallOK, Stored
<1>3. ShellsInv'
  <2>1. Expected' = Expected
    BY <1>1 DEF Expected
  <2>. QED BY <1>1, <2>1 DEF IInv, ShellsInv
<1>. QED BY <1>2, <1>3 DEF IInv

\* The server closes one of the terminals, or one call fails.
LEMMA ServerClosed ==
    ASSUME IInv, NEW op \in ops, NEW t \in op.todo, ServerCloses(op, t) \/ CloseFails(op, t)
    PROVE  IInv'
<1>. DEFINE closed == [op EXCEPT !.todo = @ \ {t}]
            failed == [op EXCEPT !.todo = @ \ {t}, !.alive = FALSE]
<1>1. /\ op.kind = "close"
      /\ \/ running' = running \ {t} /\ ops' = (ops \ {op}) \union {closed}
         \/ running' = running /\ ops' = (ops \ {op}) \union {failed}
      /\ UNCHANGED <<created, layout, events, phase, listed, read, local, state, pending, cache, saves,
                     mine, lost, tangled>>
  BY DEF ServerCloses, CloseFails, Becomes, serverVars, loadVars, saveVars, historyVars
<1>2. /\ op \in Closings /\ op.todo \subseteq op.ids /\ op.ids \subseteq 1..created
      /\ op.alive => (op.ids \ op.todo) \intersect running = {}
  BY <1>1, CallKinds DEF IInv, CallsInv
<1>3. /\ closed \in Closings /\ closed.ids = op.ids /\ closed.todo = op.todo \ {t} /\ closed.alive = op.alive
      /\ failed \in Closings /\ failed.ids = op.ids /\ failed.todo = op.todo \ {t} /\ ~failed.alive
      /\ closed.kind = "close" /\ failed.kind = "close"
  BY <1>2 DEF Closings
<1>. HIDE DEF closed, failed
<1>4. running' \subseteq running
  BY <1>1
<1>5. ServerInv' /\ LoadInv' /\ StateInv' /\ LayoutsInv' /\ SoundInv'
  BY <1>1, <1>4 DEF IInv, ServerInv, LoadInv, StateInv, LayoutsInv, SoundInv, Remembered, Stored
<1>6. \A o : CallOK(o) => CallOK(o)'
  BY <1>1, <1>4 DEF CallOK
<1>7. CallsInv'
  <2>1. CASE running' = running \ {t} /\ ops' = (ops \ {op}) \union {closed}
    <3>1. closed.alive => (closed.ids \ closed.todo) \intersect running' = {}
      BY <1>2, <1>3, <2>1
    <3>2. CallOK(closed)'
      BY <1>1, <1>2, <1>3, <3>1 DEF CallOK
    <3>. QED BY <1>6, <2>1, <3>2 DEF IInv, CallsInv
  <2>2. CASE ops' = (ops \ {op}) \union {failed}
    <3>1. CallOK(failed)'
      BY <1>1, <1>2, <1>3 DEF CallOK
    <3>. QED BY <1>6, <2>2, <3>1 DEF IInv, CallsInv
  <2>. QED BY <1>1, <2>1, <2>2
<1>8. ShellsInv'
  <2>1. Expected \subseteq Expected'
    BY <1>1, <1>3 DEF Expected
  <2>. QED BY <1>1, <1>4, <2>1 DEF IInv, ShellsInv
<1>. QED BY <1>5, <1>7, <1>8 DEF IInv

\* The calls of a closing are over: its panes go, unless one failed.
LEMMA CloseReturned ==
    ASSUME IInv, NEW op \in ops, CloseReturns(op)
    PROVE  IInv'
<1>1. /\ op.kind = "close" /\ op.todo = {} /\ ops' = ops \ {op}
      /\ UNCHANGED <<created, running, layout, events, phase, listed, read, local, saves, mine, tangled>>
  BY DEF CloseReturns, serverVars, loadVars
<1>2. ServerInv' /\ LoadInv' /\ CallsInv'
  BY <1>1 DEF IInv, ServerInv, LoadInv, CallsInv, CallOK
<1>3. Expected' = Expected
  BY <1>1 DEF Expected
<1>4. CASE op.alive
  <2>. DEFINE v == Removed(op)
  <2>1. /\ Changes(v, op.loading)
        /\ lost' = lost \union (ToSet(state.terminals) \ (ToSet(v.terminals) \union op.ids))
    BY <1>4 DEF CloseReturns
  <2>2. ProperState(state) /\ Below(state.workspaces, created) /\ created \in Nat
    BY DEF IInv, StateInv, ServerInv
  <2>3. ProperState(v) /\ (SoundState(state) => SoundState(v)) /\ Below(v.workspaces, created)
    BY <2>2, TerminalsRemoved, WorkspaceClosed DEF Removed
  <2>. HIDE DEF v
  <2>4. state' = v /\ StateInv' /\ LayoutsInv' /\ SoundInv'
    BY <1>1, <2>1, <2>3, ChangesKeep DEF IInv, SoundInv
  <2>5. op.ids \intersect running = {}
    BY <1>1, <1>4, CallKinds DEF IInv, CallsInv
  <2>6. ShellsInv'
    BY <1>1, <1>3, <2>1, <2>4, <2>5 DEF IInv, ShellsInv
  <2>. QED BY <1>2, <2>4, <2>6 DEF IInv
<1>5. CASE ~op.alive
  <2>1. UNCHANGED <<state, pending, cache, lost>>
    BY <1>5 DEF CloseReturns
  <2>2. StateInv' /\ LayoutsInv' /\ SoundInv' /\ ShellsInv'
    BY <1>1, <1>3, <2>1 DEF IInv, StateInv, LayoutsInv, SoundInv, ShellsInv, Remembered, Stored
  <2>. QED BY <1>2, <2>2 DEF IInv
<1>. QED BY <1>4, <1>5

\* All steps of the calls.
LEMMA RemoteKeeps ==
    ASSUME IInv, Remote PROVE IInv'
BY AskingKeeps, ServerCreated, CreateReturned, CreateFailed, FileReturned, FileFailed, CloseReturned,
   ServerClosed DEF Remote

\* Steps of a save that leave the terminals and what the page shows alone.
LEMMA SavesKeep ==
    ASSUME IInv, Remembered' \subseteq Remembered \union {NoLayout},
           UNCHANGED <<created, running, events, phase, listed, state, ops, mine, lost, tangled>>
    PROVE  IInv'
<1>1. ServerInv' /\ LoadInv' /\ StateInv' /\ CallsInv' /\ ShellsInv'
  BY DEF IInv, ServerInv, LoadInv, StateInv, CallsInv, CallOK, ShellsInv, Expected
<1>2. LayoutsInv' /\ SoundInv'
  BY LayoutsUnchanged DEF IInv, SoundInv
<1>. QED BY <1>1, <1>2 DEF IInv

\* What waits is sent.
LEMMA Sent ==
    ASSUME IInv, Saves PROVE IInv'
<1>1. /\ pending' = NoLayout /\ saves' = saves \union {Save(pending, revision)}
      /\ UNCHANGED <<created, running, layout, events, phase, listed, read, local, state, cache, ops, mine, lost, tangled>>
  BY DEF Saves, serverVars, loadVars, historyVars
<1>2. Save(pending, revision).layout = pending
  BY DEF Save
<1>3. Remembered' \subseteq Remembered \union {NoLayout}
  BY <1>1, <1>2 DEF Remembered
<1>. QED BY <1>1, <1>3, SavesKeep

\* The server stores it, or tells what is stored.
LEMMA ServerSaved ==
    ASSUME IInv, NEW c \in saves, ServerSaves(c) PROVE IInv'
<1>1. UNCHANGED <<created, running, events, phase, listed, read, local, state, pending, ops, mine, lost, tangled>>
  BY DEF ServerSaves, loadVars, historyVars
<1>2. /\ layout' \in {layout, c.layout} /\ cache' \in {cache, NoLayout}
      /\ \E step, r : \E l \in {layout, c.layout} : Answers(c, step, l, r)
  BY DEF ServerSaves, Stores
<1>3. PICK step, r : \E l \in {layout, c.layout} : Answers(c, step, l, r)
  BY <1>2
<1>4. PICK l \in {layout, c.layout} : Answers(c, step, l, r)
  BY <1>3
<1>5. \A d \in saves' : d \in saves \/ d.layout \in {layout, c.layout}
  <2>1. Response(c, step, l, r).layout = l
    BY DEF Response
  <2>. QED BY <1>4, <2>1 DEF Answers
<1>6. Remembered' \subseteq Remembered \union {NoLayout}
  BY <1>1, <1>2, <1>5 DEF Remembered
<1>. QED BY <1>1, <1>6, SavesKeep

\* The save fails.
LEMMA SaveFailed ==
    ASSUME IInv, NEW c \in saves, SaveFails(c) PROVE IInv'
<1>1. /\ saves' = saves \ {c} /\ cache' \in {cache, c.layout}
      /\ UNCHANGED <<created, running, layout, events, phase, listed, read, local, state, pending, ops, mine, lost, tangled>>
  BY DEF SaveFails, Caches, serverVars, loadVars, historyVars
<1>2. Remembered' \subseteq Remembered \union {NoLayout}
  BY <1>1 DEF Remembered
<1>. QED BY <1>1, <1>2, SavesKeep

\* The page remembers what it saved, or shows what it adopts.
LEMMA SaveReturned ==
    ASSUME IInv, NEW c \in saves, SaveReturns(c) PROVE IInv'
<1>1. /\ saves' = saves \ {c}
      /\ UNCHANGED <<created, running, layout, events, phase, listed, read, local, pending, cache, ops, mine, lost>>
  BY DEF SaveReturns, serverVars, loadVars
<1>2. Remembered' \subseteq Remembered
  BY <1>1 DEF Remembered
<1>3. CASE UNCHANGED <<state, tangled>>
  BY <1>1, <1>2, <1>3, SavesKeep
<1>4. CASE /\ state' = Reconstruct(state.terminals, c.layout)
           /\ tangled' = (tangled \/ Tangles(state.terminals, c.layout))
  <2>. DEFINE v == Reconstruct(state.terminals, c.layout)
  <2>1. /\ created \in Nat /\ ProperLayout(c.layout) /\ Below(c.layout.workspaces, created)
        /\ ~tangled => Apart(c.layout.workspaces)
        /\ ProperState(state) /\ Below(state.workspaces, created)
    <3>1. c.layout \in Remembered
      BY DEF Remembered
    <3>. QED BY <3>1 DEF IInv, ServerInv, StateInv, LayoutsInv, SoundInv, Stored
  <2>2. state.terminals \in Seq(Id) /\ ToSet(state.terminals) \subseteq 1..created
    BY <2>1 DEF ProperState, States, Below, Shown
  <2>3. /\ ProperState(v) /\ v.terminals = state.terminals
        /\ Apart(c.layout.workspaces) /\ Injective(state.terminals) /\ ~Tangles(state.terminals, c.layout)
             => SoundState(v)
        /\ Below(v.workspaces, created)
    BY <2>1, <2>2, Reconstructed
  <2>4. state' = v
    BY <1>4
  <2>. HIDE DEF v
  <2>5. ServerInv' /\ LoadInv' /\ StateInv' /\ CallsInv' /\ ShellsInv'
    BY <1>1, <2>3, <2>4 DEF IInv, ServerInv, LoadInv, StateInv, CallsInv, CallOK, ShellsInv, Expected
  <2>6. LayoutsInv' /\ (~tangled' => \A l \in Remembered' : Apart(l.workspaces))
    BY <1>1, <1>2, <1>4, LayoutsUnchanged
  <2>7. ~tangled' => SoundState(v)
    BY <1>4, <2>1, <2>3 DEF IInv, SoundInv, SoundState
  <2>. QED BY <2>4, <2>5, <2>6, <2>7 DEF IInv, SoundInv
<1>5. \/ UNCHANGED <<state, tangled>>
      \/ /\ state' = Reconstruct(state.terminals, c.layout)
         /\ tangled' = (tangled \/ Tangles(state.terminals, c.layout))
  BY DEF SaveReturns
<1>. QED BY <1>3, <1>4, <1>5

\* All steps of the saves.
LEMMA SavingKeeps ==
    ASSUME IInv, Saving PROVE IInv'
BY Sent, ServerSaved, SaveReturned, SaveFailed DEF Saving

\* Another device saves a layout, with the terminals it created or closed.
LEMMA OtherSaved ==
    ASSUME IInv, NEW v, ProperState(v), OtherSaves(v), Below(v.workspaces, created'),
           Apart(layout.workspaces) /\ ~Tangles(Listed, layout) => SoundState(v),
           \/ created' = created + 1 /\ running' = running \union {created'}
           \/ created' = created /\ running' \subseteq running
    PROVE  IInv'
<1>. DEFINE l == Serialize(v)
<1>1. /\ layout' = l /\ cache' = NoLayout /\ tangled' = (tangled \/ Tangles(Listed, layout))
      /\ events' = events + 1
      /\ UNCHANGED <<phase, listed, read, local, state, pending, saves, ops, mine, lost>>
  BY DEF OtherSaves, Stores, Event, loadVars
<1>2. /\ created' \in Nat /\ created <= created' /\ running' \subseteq 1..created' /\ 1..created \subseteq 1..created'
      /\ \A ws : Below(ws, created) => Below(ws, created')
      /\ \A op : CallOK(op) => CallOK(op)'
  <2>1. CASE created' = created + 1 /\ running' = running \union {created'}
    BY <2>1, OneMoreTerminal
  <2>2. CASE created' = created /\ running' \subseteq running
    BY <2>2 DEF IInv, ServerInv, CallOK
  <2>. QED BY <2>1, <2>2
<1>3. layout \in Remembered
  BY DEF Remembered
<1>4. /\ ProperLayout(l) /\ Below(l.workspaces, created')
      /\ ~tangled' => Apart(l.workspaces)
  <2>1. /\ ProperLayout(l) /\ Below(l.workspaces, created')
        /\ SoundState(v) => Apart(l.workspaces)
    BY <1>2, Serialized
  <2>. HIDE DEF l
  <2>. QED BY <1>1, <1>3, <2>1 DEF IInv, SoundInv
<1>. HIDE DEF l
<1>5. ServerInv' /\ LoadInv' /\ StateInv' /\ CallsInv'
  <2>1. ServerInv'
    <3>1. events' \in Nat
      BY <1>1 DEF IInv, ServerInv
    <3>2. mine' \subseteq 1..created'
      <4>1. mine \subseteq 1..created
        BY DEF IInv, ServerInv
      <4>. QED BY <1>1, <1>2, <4>1
    <3>. QED BY <1>2, <3>1, <3>2 DEF ServerInv
  <2>2. LoadInv'
    BY <1>1, <1>2 DEF IInv, LoadInv
  <2>3. StateInv' /\ CallsInv'
    BY <1>1, <1>2 DEF IInv, StateInv, CallsInv
  <2>. QED BY <2>1, <2>2, <2>3
<1>6. LayoutsInv' /\ SoundInv'
  <2>1. Remembered' \subseteq Remembered \union {NoLayout, l}
    BY <1>1 DEF Remembered
  <2>2. LayoutsInv' /\ (~tangled' => \A k \in Remembered' : Apart(k.workspaces))
    BY <1>1, <1>2, <1>4, <2>1, LayoutsStay
  <2>. QED BY <1>1, <2>2 DEF IInv, SoundInv
<1>7. ShellsInv'
  <2>1. mine \intersect running' \subseteq mine \intersect running
    BY DEF IInv, ServerInv
  <2>. QED BY <1>1, <2>1 DEF IInv, ShellsInv, Expected
<1>. QED BY <1>5, <1>6, <1>7 DEF IInv

\* Another device.
LEMMA OtherDeviceKeeps ==
    ASSUME IInv, OtherDevice PROVE IInv'
<1>. DEFINE s == Reconstruct(Listed, layout)
<1>1. /\ created \in Nat /\ running \subseteq 1..created
      /\ ProperLayout(layout) /\ Below(layout.workspaces, created)
      /\ Listed \in Seq(Id) /\ Injective(Listed) /\ ToSet(Listed) = running
  <2>1. layout \in Remembered
    BY DEF Remembered
  <2>. QED BY <2>1, ListedTerminals DEF IInv, ServerInv, LayoutsInv, Stored
<1>2. /\ ProperState(s) /\ s.terminals = Listed
      /\ Apart(layout.workspaces) /\ ~Tangles(Listed, layout) => SoundState(s)
      /\ Below(s.workspaces, created)
  BY <1>1, Reconstructed
<1>3. \/ /\ created' = created + 1 /\ running' = running \union {created'}
         /\ OtherSaves(CreateTab(s, created')) \/ OtherSaves(SplitActive(s, created', "vertical"))
      \/ /\ created' = created
         /\ \E t \in running : running' = running \ {t} /\ OtherSaves(RemoveTerminals(s, {t}))
      \/ /\ Len(s.workspaces) < MaxWorkspaces /\ OtherSaves(CreateWorkspace(s, NewId(s)))
         /\ UNCHANGED <<created, running>>
  BY DEF OtherDevice
<1>. HIDE DEF s
<1>4. CASE /\ created' = created + 1 /\ running' = running \union {created'}
           /\ OtherSaves(CreateTab(s, created')) \/ OtherSaves(SplitActive(s, created', "vertical"))
  <2>1. PICK t : t = created'
    OBVIOUS
  <2>2. t \in Id /\ t \in Nat /\ created <= t /\ t <= t /\ t \notin 1..created
    BY <1>1, <1>4, <2>1 DEF Id
  <2>3. t \notin ToSet(s.terminals) /\ t \notin TabIds(s.workspaces) /\ Below(s.workspaces, t)
    BY <1>1, <1>2, <2>2, BelowMore DEF Below
  <2>4. CASE OtherSaves(CreateTab(s, created'))
    <3>. DEFINE v == CreateTab(s, t)
    <3>1. Grown(s, t, v) /\ (SoundState(s) => SoundState(v))
      BY <1>2, <2>2, <2>3, TabCreated
    <3>2. OtherSaves(v)
      BY <2>1, <2>4
    <3>. HIDE DEF v
    <3>3. ProperState(v) /\ Below(v.workspaces, t)
      BY <2>2, <2>3, <3>1 DEF Grown
    <3>. QED BY <1>2, <1>4, <2>1, <3>1, <3>2, <3>3, OtherSaved
  <2>5. CASE OtherSaves(SplitActive(s, created', "vertical"))
    <3>. DEFINE v == SplitActive(s, t, "vertical")
    <3>1. "vertical" \in Directions
      BY DEF Directions
    <3>2. Grown(s, t, v) /\ (SoundState(s) => SoundState(v))
      BY <1>2, <2>2, <2>3, <3>1, ActiveSplit
    <3>3. OtherSaves(v)
      BY <2>1, <2>5
    <3>. HIDE DEF v
    <3>4. ProperState(v) /\ Below(v.workspaces, t)
      BY <2>2, <2>3, <3>2 DEF Grown
    <3>. QED BY <1>2, <1>4, <2>1, <3>2, <3>3, <3>4, OtherSaved
  <2>. QED BY <1>4, <2>4, <2>5
<1>5. ASSUME created' = created, NEW t \in running, running' = running \ {t},
             OtherSaves(RemoveTerminals(s, {t}))
      PROVE  IInv'
  <2>. DEFINE v == RemoveTerminals(s, {t})
  <2>1. ProperState(v) /\ (SoundState(s) => SoundState(v)) /\ Below(v.workspaces, created)
    BY <1>1, <1>2, TerminalsRemoved
  <2>2. OtherSaves(v)
    BY <1>5
  <2>. HIDE DEF v
  <2>3. running' \subseteq running /\ Below(v.workspaces, created')
    BY <1>5, <2>1
  <2>. QED BY <1>2, <1>5, <2>1, <2>2, <2>3, OtherSaved
<1>6. CASE /\ Len(s.workspaces) < MaxWorkspaces /\ OtherSaves(CreateWorkspace(s, NewId(s)))
           /\ UNCHANGED <<created, running>>
  <2>. DEFINE v == CreateWorkspace(s, NewId(s))
  <2>1. NewId(s) \in Id
    BY <1>2, <1>6, IdIsNew
  <2>2. ProperState(v) /\ (SoundState(s) => SoundState(v)) /\ Below(v.workspaces, created)
    BY <1>1, <1>2, <2>1, WorkspaceCreated DEF Keeps
  <2>3. OtherSaves(v)
    BY <1>6
  <2>. HIDE DEF v
  <2>4. running' \subseteq running /\ Below(v.workspaces, created')
    BY <1>6, <2>2
  <2>. QED BY <1>2, <1>6, <2>2, <2>3, <2>4, OtherSaved
<1>. QED BY <1>3, <1>4, <1>5, <1>6

\* Every action of the workspace, of the server and of the other devices keeps
\* the invariant.
LEMMA NextKeeps ==
    ASSUME IInv, [Next]_vars PROVE IInv'
<1>1. CASE Next
  BY <1>1, LoadingKeeps, LocalKeeps, RemoteKeeps, SavingKeeps, OtherDeviceKeeps DEF Next
<1>2. CASE UNCHANGED vars
  <2>1. UNCHANGED <<created, running, layout, events, phase, listed, read, local, state, pending, cache, saves,
                    ops, mine, lost, tangled>>
    BY <1>2 DEF vars, serverVars, loadVars, saveVars, historyVars
  <2>2. ServerInv' /\ LoadInv' /\ StateInv' /\ LayoutsInv' /\ SoundInv'
    BY <2>1 DEF IInv, ServerInv, LoadInv, StateInv, LayoutsInv, SoundInv, Remembered, Stored
  <2>3. CallsInv' /\ ShellsInv'
    BY <2>1 DEF IInv, CallsInv, CallOK, ShellsInv, Expected
  <2>. QED BY <2>2, <2>3 DEF IInv
<1>. QED BY <1>1, <1>2

\* The inductive invariant holds always.
THEOREM WorkspaceInvariant == Spec => []IInv
<1>1. Init => IInv
  BY InitHolds
<1>2. IInv /\ [Next]_vars => IInv'
  BY NextKeeps
<1>. QED BY <1>1, <1>2, PTL DEF Spec

\* What a place is.
LEMMA PlacesOf ==
    ASSUME NEW s, NEW x \in Places(s)
    PROVE  \E i \in DOMAIN s.workspaces : \E j \in DOMAIN s.workspaces[i].tabs :
              \E p \in Panes(s.workspaces[i].tabs[j].root) : x = <<i, j, p>>
BY DEF Places

\* In a sound state no terminal is in two panes.
LEMMA OnePlace ==
    ASSUME NEW s, ProperState(s), SoundState(s),
           NEW x \in Places(s), NEW y \in Places(s), TerminalAt(s, x) = TerminalAt(s, y)
    PROVE  x = y
<1>. DEFINE ws == s.workspaces
<1>1. PICK i, j, p : /\ i \in DOMAIN ws /\ j \in DOMAIN ws[i].tabs
                     /\ p \in Panes(ws[i].tabs[j].root) /\ x = <<i, j, p>>
  BY PlacesOf
<1>2. PICK k, l, q : /\ k \in DOMAIN ws /\ l \in DOMAIN ws[k].tabs
                     /\ q \in Panes(ws[k].tabs[l].root) /\ y = <<k, l, q>>
  BY PlacesOf
<1>3. /\ TerminalAt(s, x) = ws[i].tabs[j].root[p].id
      /\ TerminalAt(s, y) = ws[k].tabs[l].root[q].id
  BY <1>1, <1>2 DEF TerminalAt
<1>. DEFINE t == TerminalAt(s, x)
<1>4. /\ t \in TerminalsIn(ws[i].tabs[j].root)
      /\ t \in TerminalsIn(ws[k].tabs[l].root)
  BY <1>1, <1>2, <1>3 DEF TerminalsIn
<1>5. t \in TerminalsOf(ws[i]) /\ t \in TerminalsOf(ws[k])
  BY <1>1, <1>2, <1>4, TerminalsOfTabs
<1>6. ws[i] \in Workspaces
  BY <1>1 DEF ProperState, States
<1>7. t \in Id
  BY <1>5, <1>6, ShownIds
<1>. HIDE DEF t
<1>8. Apart(ws)
  BY DEF SoundState
<1>9. i = k
  BY <1>1, <1>2, <1>5, <1>7, <1>8 DEF Apart
<1>10. ApartTabs(ws[i].tabs)
  BY <1>1, <1>8 DEF Apart
<1>11. j = l
  BY <1>1, <1>2, <1>4, <1>7, <1>9, <1>10 DEF ApartTabs
<1>12. Once(ws[i].tabs[j].root)
  BY <1>1, <1>10 DEF ApartTabs
<1>13. p = q
  BY <1>1, <1>2, <1>3, <1>9, <1>11, <1>12 DEF Once, t
<1>. QED BY <1>1, <1>2, <1>9, <1>11, <1>13

\* Every terminal the page knows is in exactly one pane, and every pane's
\* terminal is known, unless the state was tangled.
THEOREM EveryTerminalShownOnce == Spec => []EachShownOnce
<1>1. IInv => EachShownOnce
  <2>. SUFFICES ASSUME IInv, ~tangled
                PROVE  /\ Shown(state) = ToSet(state.terminals)
                       /\ \A x, y \in Places(state) : TerminalAt(state, x) = TerminalAt(state, y) => x = y
    BY DEF EachShownOnce
  <2>1. ProperState(state) /\ SoundState(state)
    BY DEF IInv, StateInv, SoundInv
  <2>2. Shown(state) = ToSet(state.terminals)
    BY <2>1 DEF ProperState, SoundState
  <2>. QED BY <2>1, <2>2, OnePlace
<1>. QED BY <1>1, WorkspaceInvariant, PTL

\* The active workspace, tab and terminal exist, and the terminal is in its
\* tab, unless the state was tangled.
THEOREM FocusStaysSound == Spec => []FocusIsSound
<1>1. IInv => FocusIsSound
  <2>. SUFFICES ASSUME IInv, ~tangled
                PROVE  /\ state.workspaces # <<>> => state.active \in Ids(state.workspaces)
                       /\ \A w \in ToSet(state.workspaces) :
                             /\ IF w.tabs = <<>> THEN w.activeTab = NoId ELSE w.activeTab \in Ids(w.tabs)
                             /\ \A tab \in ToSet(w.tabs) : tab.activeTerminal \in TerminalsIn(tab.root)
    BY DEF FocusIsSound
  <2>1. ProperState(state) /\ Apart(state.workspaces)
    BY DEF IInv, StateInv, SoundInv, SoundState
  <2>2. state.workspaces # <<>> => state.active \in Ids(state.workspaces)
    BY <2>1 DEF ProperState
  <2>3. ASSUME NEW w \in ToSet(state.workspaces)
        PROVE  /\ IF w.tabs = <<>> THEN w.activeTab = NoId ELSE w.activeTab \in Ids(w.tabs)
               /\ \A tab \in ToSet(w.tabs) : tab.activeTerminal \in TerminalsIn(tab.root)
    <3>1. Proper(w) /\ ApartTabs(w.tabs)
      <4>1. PICK i \in DOMAIN state.workspaces : w = state.workspaces[i]
        BY DEF ToSet
      <4>. QED BY <2>1, <4>1 DEF ProperState, ProperWorkspaces, Apart
    <3>2. IF w.tabs = <<>> THEN w.activeTab = NoId ELSE w.activeTab \in Ids(w.tabs)
      BY <3>1 DEF Proper, ActiveTabExists
    <3>3. ASSUME NEW tab \in ToSet(w.tabs) PROVE Focused(tab)
      <4>1. PICK j \in DOMAIN w.tabs : tab = w.tabs[j]
        BY DEF ToSet
      <4>2. PICK k \in DOMAIN w.tabs : w.tabs[k].id = w.tabs[j].id /\ Focused(w.tabs[k])
        BY <3>1 DEF Proper, SomeFocused
      <4>3. k = j
        BY <3>1, <4>1, <4>2 DEF ApartTabs
      <4>. QED BY <4>1, <4>2, <4>3
    <3>. QED BY <3>2, <3>3 DEF Focused
  <2>. QED BY <2>2, <2>3
<1>. QED BY <1>1, WorkspaceInvariant, PTL

\* A shell that was started for this browser and runs is shown by it or its
\* answer is on the way, unless its answer or its place was lost.
THEOREM StartedShellsAreShown == Spec => []ShellsAreShown
<1>1. IInv => ShellsAreShown
  <2>. SUFFICES ASSUME IInv, phase = "ready"
                PROVE  (mine \intersect running) \ lost \subseteq Shown(state) \union Expected
    BY DEF ShellsAreShown, Expected
  <2>1. ToSet(state.terminals) \subseteq Shown(state)
    BY DEF IInv, StateInv, ProperState
  <2>. QED BY <2>1 DEF IInv, ShellsInv
<1>. QED BY <1>1, WorkspaceInvariant, PTL

-----------------------------------------------------------------------------
(* A page at rest shows what a load would show.                             *)

\* What was persisted is what a load of the stored layout showed; it listed
\* the terminals in this order, and the tabs it added that still run follow
\* each other in the page as their terminals do.
Restorable(first) ==
    /\ first \in Seq(Id) /\ ToSet(first) \subseteq 1..created
    /\ SoundState(Reconstruct(first, layout)) /\ persisted = Serialize(Reconstruct(first, layout))
    /\ OwnTabs(state.workspaces, state.terminals, (ToSet(first) \ Shown(layout)) \intersect running)

\* Revisions: none that is known is ahead of the server's, and what a response
\* tells of the server's revision is the layout.
RevisionsInv ==
    /\ rev \in Nat /\ revision \in Int /\ revision <= rev
    /\ \A c \in saves : /\ c.rev \in Int /\ c.rev <= rev
                        /\ c.step # "put" => c.alive /\ (c.rev = rev => c.layout = layout)

\* While the page loads it has saved nothing and will not, and what it read is
\* the layout unless that was changed since.
LoadingInv == phase = "loading" =>
    /\ pending = NoLayout /\ persisted = NoLayout
    /\ \A c \in saves : ~c.alive
    /\ \A op \in ops : op.alive => op.loading
    /\ (revision = rev => read.read /\ read.value = layout)

\* A page that saves, or knows what was saved, shows a workspace.
SavesInv == ~tangled /\ phase = "ready" =>
    ((pending # NoLayout \/ persisted # NoLayout \/ \E c \in saves : c.alive) => state.workspaces # <<>>)

\* With the server's revision a page knows what the server's layout shows.
PersistedInv == ~tangled /\ phase = "ready" /\ revision = rev /\ layout # NoLayout =>
    (persisted = layout \/ \E first : Restorable(first))

RInv == RevisionsInv /\ LoadingInv /\ SavesInv /\ PersistedInv

\* The layout of a page with workspaces has some.
LEMMA SomethingSaved ==
    ASSUME NEW s, ProperState(s), s.workspaces # <<>>
    PROVE  Serialize(s) # NoLayout
<1>. DEFINE kept == {leaf \in LeavesShown(s) : leaf.type = "pane"}
<1>1. s.workspaces \in Seq(Workspaces) /\ s.active \in Ids(s.workspaces)
  BY DEF ProperState, States
<1>2. PrunedTo(s, kept).workspaces = PrunedWorkspaces(s.workspaces, kept)
  BY StatePruned
<1>3. DOMAIN PrunedWorkspaces(s.workspaces, kept) # {}
  BY <1>1 DEF Ids, PrunedWorkspaces
<1>4. Serialize(s).workspaces = PrunedWorkspaces(s.workspaces, kept)
  BY <1>2 DEF Serialize
<1>5. DOMAIN NoLayout.workspaces = {}
  BY DEF NoLayout
<1>. QED BY <1>3, <1>4, <1>5

\* What concerns other things than the page and what it saved.
LEMMA RestStays ==
    ASSUME IInv, RInv, created' \in Nat, created <= created', running' \intersect 1..created \subseteq running,
           UNCHANGED <<layout, rev, phase, read, state, persisted, revision, pending, saves, tangled>>,
           phase = "loading" => \A op \in ops' : op.alive => op.loading
    PROVE  RInv'
<1>1. RevisionsInv' /\ LoadingInv' /\ SavesInv'
  BY DEF RInv, RevisionsInv, LoadingInv, SavesInv
<1>2. ASSUME NEW first, Restorable(first) PROVE Restorable(first)'
  <2>. DEFINE S == (ToSet(first) \ Shown(layout)) \intersect running
              T == (ToSet(first) \ Shown(layout)) \intersect running'
  <2>1. ToSet(first) \subseteq 1..created /\ OwnTabs(state.workspaces, state.terminals, S)
    BY <1>2 DEF Restorable
  <2>2. T \subseteq S
    BY <2>1
  <2>. HIDE DEF S, T
  <2>3. OwnTabs(state.workspaces, state.terminals, T)
    BY <2>1, <2>2 DEF OwnTabs, InOrder
  <2>4. ToSet(first) \subseteq 1..created'
    BY <2>1 DEF IInv, ServerInv
  <2>. QED BY <1>2, <2>3, <2>4 DEF Restorable, T
<1>3. PersistedInv'
  BY <1>2 DEF RInv, PersistedInv
<1>. QED BY <1>1, <1>3 DEF RInv

\* The page changes, and queues its layout unless the command was given while
\* it loaded.
LEMMA ChangesRest ==
    ASSUME IInv, RInv, NEW v, NEW loading, Changes(v, loading), ProperState(v),
           UNCHANGED <<created, running, layout, rev, phase, read, persisted, revision, saves>>,
           ops' \subseteq ops, phase = "loading" => loading,
           tangled => tangled',
           ~tangled' =>
              /\ state.workspaces # <<>> => v.workspaces # <<>>
              /\ \A S : S \subseteq running /\ OwnTabs(state.workspaces, state.terminals, S)
                           => OwnTabs(v.workspaces, v.terminals, S)
    PROVE  RInv'
<1>1. state' = v
  BY DEF Changes
<1>2. RevisionsInv' /\ LoadingInv'
  BY DEF Changes, RInv, RevisionsInv, LoadingInv
<1>3. SavesInv'
  BY <1>1 DEF Changes, RInv, SavesInv
<1>4. ASSUME ~tangled', NEW first, Restorable(first) PROVE Restorable(first)'
  <2>. DEFINE S == (ToSet(first) \ Shown(layout)) \intersect running
  <2>1. OwnTabs(v.workspaces, v.terminals, S)
    BY <1>4 DEF Restorable
  <2>. HIDE DEF S
  <2>. QED BY <1>1, <1>4, <2>1 DEF Restorable, S
<1>5. PersistedInv'
  BY <1>4 DEF RInv, PersistedInv
<1>. QED BY <1>2, <1>3, <1>5 DEF RInv

\* Commands on the layout queue what they show.
LEMMA LocalRests ==
    ASSUME IInv, RInv, Local PROVE RInv'
<1>1. PICK v : Keeps(state, v) /\ LayoutCommand(v)
  BY LocalCommands
<1>2. /\ Changes(v, phase = "loading")
      /\ UNCHANGED <<created, running, layout, rev, phase, read, persisted, revision, saves, ops, tangled>>
  BY <1>1 DEF LayoutCommand, serverVars, loadVars, knownVars
<1>3. ProperState(v) /\ KeepsOrder(state, v)
  BY <1>1 DEF Keeps
<1>. QED BY <1>2, <1>3, ChangesRest DEF KeepsOrder

\* Requests, and answers that do not arrive, leave the page as it is.
LEMMA OthersRest ==
    ASSUME IInv, RInv,
           UNCHANGED <<created, running, layout, rev, phase, read, state, persisted, revision, pending, saves, tangled>>,
           phase = "loading" => \A op \in ops' : op.alive => op.loading
    PROVE  RInv'
<1>1. created \in Nat
  BY DEF IInv, ServerInv
<1>2. created' \in Nat /\ created <= created' /\ running' \intersect 1..created \subseteq running
  BY <1>1
<1>. QED BY <1>2, RestStays

\* A call that is under way, or one that is over, was given by this page.
LEMMA CallsRest ==
    ASSUME IInv, RInv, NEW op \in ops, NEW op2, op2.alive => op.alive /\ op2.loading = op.loading,
           ops' \subseteq ops \union {op2}
    PROVE  phase = "loading" => \A o \in ops' : o.alive => o.loading
BY DEF RInv, LoadingInv

\* Asking for something changes nothing yet.
LEMMA AskingRests ==
    ASSUME IInv, RInv, CreatesTab \/ Splits \/ OpensFile \/ ClosesPane \/ ClosesTab \/ ClosesWorkspace
    PROVE  RInv'
<1>1. /\ \A place : Creation(place).loading = (phase = "loading")
      /\ \A ids, w : Closing(ids, w).loading = (phase = "loading")
      /\ Opening.loading = (phase = "loading")
  BY DEF Creation, Closing, Opening
<1>2. PICK op : Asks(op) /\ op.loading = (phase = "loading")
  BY <1>1 DEF CreatesTab, Splits, OpensFile, ClosesPane, ClosesTab, ClosesWorkspace
<1>3. /\ ops' = ops \union {op}
      /\ UNCHANGED <<created, running, layout, rev, phase, read, state, persisted, revision, pending, saves, tangled>>
  BY <1>2 DEF Asks, serverVars, loadVars, saveVars, knownVars
<1>4. phase = "loading" => \A o \in ops' : o.alive => o.loading
  BY <1>2, <1>3 DEF RInv, LoadingInv
<1>. QED BY <1>3, <1>4, OthersRest

\* A new terminal is none that a load listed.
LEMMA ServerCreatedRests ==
    ASSUME IInv, RInv, NEW op \in ops, ServerCreates(op)
    PROVE  RInv'
<1>. DEFINE op2 == [op EXCEPT !.terminal = created']
<1>1. /\ op.kind = "create" /\ ops' \subseteq ops \union {op2}
      /\ created' = created + 1 /\ running' = running \union {created'}
      /\ UNCHANGED <<layout, rev, phase, read, state, persisted, revision, pending, saves, tangled>>
  BY DEF ServerCreates, Becomes, loadVars, saveVars, knownVars
<1>2. created \in Nat
  BY DEF IInv, ServerInv
<1>3. created' \in Nat /\ created <= created' /\ created' \notin 1..created
  BY <1>1, <1>2
<1>4. running' \intersect 1..created \subseteq running
  BY <1>1, <1>3
<1>5. op2.alive = op.alive /\ op2.loading = op.loading
  <2>1. op \in Creations
    BY <1>1, CallKinds DEF IInv, CallsInv
  <2>. QED BY <2>1 DEF Creations
<1>. HIDE DEF op2
<1>. QED BY <1>1, <1>3, <1>4, <1>5, CallsRest, RestStays

\* A terminal whose id no tab has gets the last tab of its workspace, or a
\* pane in a tab that is there.
LEMMA CreateReturnedRests ==
    ASSUME IInv, RInv, NEW op \in ops, CreateReturns(op)
    PROVE  RInv'
<1>. DEFINE t == op.terminal
            v == IF op.place = "tab" THEN CreateTab(state, t) ELSE SplitActive(state, t, op.place)
<1>1. /\ op.kind = "create" /\ t # NoId /\ Changes(v, op.loading) /\ op.alive /\ ops' = ops \ {op}
      /\ tangled' = (tangled \/ Retaken(op))
      /\ UNCHANGED <<created, running, layout, rev, phase, read, persisted, revision, saves>>
  BY DEF CreateReturns, serverVars, loadVars, knownVars
<1>2. op \in Creations
  BY <1>1, CallKinds DEF IInv, CallsInv
<1>3. t \in Id /\ op.place \in {"tab"} \union Directions
  BY <1>1, <1>2 DEF Creations, Id, NoId
<1>4. ProperState(state)
  BY DEF IInv, StateInv
<1>5. TabIds(state.workspaces) = {tab.id : tab \in AllTabs(state)}
  BY DEF TabIds, Ids, AllTabs, ToSet
<1>6. /\ ProperState(v)
      /\ SoundState(state) /\ ~Retaken(op) => KeepsOrder(state, v)
  <2>1. CASE op.place = "tab"
    BY <1>3, <1>4, <1>5, <2>1, TabCreated DEF Retaken, Grown
  <2>2. CASE op.place # "tab"
    <3>1. op.place \in Directions
      BY <1>3, <2>2
    <3>. QED BY <1>3, <1>4, <1>5, <2>2, <3>1, ActiveSplit DEF Retaken, Grown
  <2>. QED BY <2>1, <2>2
<1>. HIDE DEF v
<1>7. ~tangled' => KeepsOrder(state, v)
  BY <1>1, <1>6 DEF IInv, SoundInv
<1>8. ops' \subseteq ops /\ (phase = "loading" => op.loading)
  BY <1>1 DEF RInv, LoadingInv
<1>. QED BY <1>1, <1>6, <1>7, <1>8, ChangesRest DEF KeepsOrder

\* A creation that fails leaves the page as it is.
LEMMA CreateFailedRests ==
    ASSUME IInv, RInv, NEW op \in ops, CreateFails(op) \/ FileFails(op)
    PROVE  RInv'
<1>1. /\ ops' = ops \ {op}
      /\ UNCHANGED <<created, running, layout, rev, phase, read, state, persisted, revision, pending, saves, tangled>>
  BY DEF CreateFails, FileFails, serverVars, loadVars, saveVars, knownVars, historyVars
<1>. QED BY <1>1, CallsRest, OthersRest

\* A new editor changes no order.
LEMMA FileReturnedRests ==
    ASSUME IInv, RInv, NEW op \in ops, FileReturns(op)
    PROVE  RInv'
<1>. DEFINE v == SplitEditor(state, op.at, "vertical")
<1>1. /\ op.kind = "open" /\ op.alive /\ Changes(v, op.loading) /\ ops' = ops \ {op}
      /\ UNCHANGED <<created, running, layout, rev, phase, read, persisted, revision, saves, tangled>>
  BY DEF FileReturns, serverVars, loadVars, knownVars, historyVars
<1>2. op.at \in Id /\ "vertical" \in Directions
  <2>1. op \in Openings
    BY <1>1, CallKinds DEF IInv, CallsInv
  <2>. QED BY <2>1 DEF Openings, Directions
<1>3. ProperState(v) /\ KeepsOrder(state, v)
  BY <1>2, EditorOpened DEF IInv, StateInv, Keeps
<1>. HIDE DEF v
<1>4. ops' \subseteq ops /\ (phase = "loading" => op.loading)
  BY <1>1 DEF RInv, LoadingInv
<1>. QED BY <1>1, <1>3, <1>4, ChangesRest DEF KeepsOrder

\* A terminal that is closed is one less whose tab matters.
LEMMA ServerClosedRests ==
    ASSUME IInv, RInv, NEW op \in ops, NEW t \in op.todo, ServerCloses(op, t) \/ CloseFails(op, t)
    PROVE  RInv'
<1>. DEFINE closed == [op EXCEPT !.todo = @ \ {t}]
            failed == [op EXCEPT !.todo = @ \ {t}, !.alive = FALSE]
<1>1. /\ op.kind = "close" /\ running' \subseteq running
      /\ ops' = (ops \ {op}) \union {closed} \/ ops' = (ops \ {op}) \union {failed}
      /\ UNCHANGED <<created, layout, rev, phase, read, state, persisted, revision, pending, saves, tangled>>
  BY DEF ServerCloses, CloseFails, Becomes, serverVars, loadVars, saveVars, knownVars, historyVars
<1>2. created' \in Nat /\ created <= created' /\ running' \intersect 1..created \subseteq running
  BY <1>1 DEF IInv, ServerInv
<1>3. closed.alive = op.alive /\ closed.loading = op.loading /\ ~failed.alive
  <2>1. op \in Closings
    BY <1>1, CallKinds DEF IInv, CallsInv
  <2>. QED BY <2>1 DEF Closings
<1>. HIDE DEF closed, failed
<1>4. phase = "loading" => \A o \in ops' : o.alive => o.loading
  BY <1>1, <1>3 DEF RInv, LoadingInv
<1>. QED BY <1>1, <1>2, <1>4, RestStays

\* The terminals whose panes go have been closed.
LEMMA CloseReturnedRests ==
    ASSUME IInv, RInv, NEW op \in ops, CloseReturns(op)
    PROVE  RInv'
<1>1. /\ op.kind = "close" /\ op.todo = {} /\ ops' = ops \ {op}
      /\ UNCHANGED <<created, running, layout, rev, phase, read, persisted, revision, saves, tangled>>
  BY DEF CloseReturns, serverVars, loadVars, knownVars
<1>2. CASE op.alive
  <2>. DEFINE v == Removed(op)
  <2>1. Changes(v, op.loading) /\ ops' \subseteq ops /\ (phase = "loading" => op.loading)
    BY <1>1, <1>2 DEF CloseReturns, RInv, LoadingInv
  <2>2. ProperState(state)
    BY DEF IInv, StateInv
  <2>3. op.ids \intersect running = {}
    BY <1>1, <1>2, CallKinds DEF IInv, CallsInv
  <2>4. ProperState(v)
    BY <2>2, TerminalsRemoved, WorkspaceClosed DEF Removed
  <2>5. ASSUME ~tangled
        PROVE  /\ state.workspaces # <<>> => v.workspaces # <<>>
               /\ \A S : S \subseteq running /\ OwnTabs(state.workspaces, state.terminals, S)
                            => OwnTabs(v.workspaces, v.terminals, S)
    <3>1. SoundState(state)
      BY <2>5 DEF IInv, SoundInv
    <3>2. CASE op.workspace # NoId
      <4>1. KeepsOrder(state, v)
        BY <2>2, <3>1, <3>2, WorkspaceClosed DEF Removed
      <4>. HIDE DEF v
      <4>. QED BY <4>1 DEF KeepsOrder
    <3>3. CASE op.workspace = NoId
      <4>1. v = RemoveTerminals(state, op.ids)
        BY <3>3 DEF Removed
      <4>. HIDE DEF v
      <4>2. \A S : S \subseteq running => op.ids \intersect S = {}
        BY <2>3
      <4>. QED BY <2>2, <4>1, <4>2, TerminalsRemoved
    <3>. QED BY <3>2, <3>3
  <2>. HIDE DEF v
  <2>. QED BY <1>1, <2>1, <2>4, <2>5, ChangesRest
<1>3. CASE ~op.alive
  <2>1. UNCHANGED <<state, pending>>
    BY <1>3 DEF CloseReturns
  <2>. QED BY <1>1, <2>1, CallsRest, OthersRest
<1>. QED BY <1>2, <1>3

\* All steps of the calls.
LEMMA RemoteRests ==
    ASSUME IInv, RInv, Remote PROVE RInv'
BY AskingRests, ServerCreatedRests, CreateReturnedRests, CreateFailedRests, FileReturnedRests,
   CloseReturnedRests, ServerClosedRests
   DEF Remote

\* A page that shows the layout, and knows that as persisted, can be restored.
LEMMA LayoutRestorable ==
    ASSUME IInv, NEW q \in Seq(Id), ToSet(q) \subseteq 1..created, Injective(q),
           Apart(layout.workspaces), ~Tangles(q, layout),
           UNCHANGED <<created, running, layout>>,
           state' = Reconstruct(q, layout), persisted' = Serialize(state')
    PROVE  Restorable(q)'
<1>. DEFINE v == Reconstruct(q, layout)
            S == (ToSet(q) \ Shown(layout)) \intersect running
<1>1. ProperLayout(layout)
  <2>1. layout \in Remembered
    BY DEF Remembered
  <2>. QED BY <2>1 DEF IInv, LayoutsInv, Stored
<1>2. v.terminals = q /\ SoundState(v) /\ OwnTabs(v.workspaces, q, S)
  BY <1>1, Reconstructed
<1>3. state' = v /\ persisted' = Serialize(v) /\ v = Reconstruct(q, layout)
  OBVIOUS
<1>. HIDE DEF v
<1>. QED BY <1>2, <1>3 DEF Restorable, S

\* A load shows what it read; that is the layout if the revision is current.
LEMMA HydratesRests ==
    ASSUME IInv, RInv, Hydrates PROVE RInv'
<1>. DEFINE v == Reconstruct(listed.value, Hydration)
<1>1. /\ phase = "loading" /\ phase' = "ready" /\ read.read
      /\ state' = v /\ persisted' = Serialize(state')
      /\ tangled' = (tangled \/ Tangles(listed.value, Hydration))
      /\ saves' \in {saves, saves \union {Save(persisted', revision)}}
      /\ UNCHANGED <<created, running, layout, rev, revision, pending>>
  BY DEF Hydrates, Hydration, serverVars
<1>2. /\ listed.value \in Seq(Id) /\ Injective(listed.value) /\ ToSet(listed.value) \subseteq 1..created
  BY DEF IInv, LoadInv
<1>3. revision = rev => read.value = layout
  BY <1>1 DEF RInv, LoadingInv
<1>4. RevisionsInv'
  <2>1. Save(persisted', revision).step = "put" /\ Save(persisted', revision).rev = revision
    BY DEF Save
  <2>. QED BY <1>1, <2>1 DEF RInv, RevisionsInv
<1>5. v.workspaces # <<>>
  <2>1. Hydration \in Remembered
    BY <1>1 DEF Hydration, Remembered
  <2>2. ProperLayout(Hydration)
    BY <2>1 DEF IInv, LayoutsInv, Stored
  <2>. QED BY <1>2, <2>2, Reconstructed
<1>6. ASSUME ~tangled', revision = rev, layout # NoLayout PROVE \E first : Restorable(first)'
  <2>1. Hydration = layout
    BY <1>3, <1>6 DEF Hydration
  <2>2. Apart(layout.workspaces) /\ ~Tangles(listed.value, layout)
    BY <1>1, <1>6, <2>1 DEF IInv, SoundInv, Remembered
  <2>3. PICK q : q = listed.value
    OBVIOUS
  <2>4. /\ q \in Seq(Id) /\ Injective(q) /\ ToSet(q) \subseteq 1..created /\ ~Tangles(q, layout)
        /\ state' = Reconstruct(q, layout)
    BY <1>1, <1>2, <2>1, <2>2, <2>3
  <2>5. Restorable(q)'
    BY <1>1, <2>2, <2>4, LayoutRestorable
  <2>. QED BY <2>5
<1>. HIDE DEF v
<1>7. LoadingInv' /\ SavesInv'
  BY <1>1, <1>5 DEF LoadingInv, SavesInv
<1>8. PersistedInv'
  BY <1>1, <1>6 DEF PersistedInv
<1>. QED BY <1>4, <1>7, <1>8 DEF RInv

\* A page that starts to load has no calls or saves of its own, and no
\* revision.
LEMMA ReloadsRest ==
    ASSUME IInv, RInv, Reloads PROVE RInv'
<1>1. /\ phase' = "loading" /\ persisted' = NoLayout /\ pending' = NoLayout /\ revision' = -1
      /\ ops' = {[op EXCEPT !.alive = FALSE] : op \in ops}
      /\ UNCHANGED <<layout, rev>>
  BY DEF Reloads, serverVars, NoRevision
<1>2. PICK sent \in SUBSET ({pending} \ {NoLayout}) :
         saves' = {Left(c) : c \in {d \in saves : d.step = "put"} \union {Save(l, revision) : l \in sent}}
  BY DEF Reloads
<1>3. rev \in Nat /\ revision \in Int /\ revision <= rev /\ \A c \in saves : c.rev \in Int /\ c.rev <= rev
  BY DEF RInv, RevisionsInv
<1>4. ASSUME NEW c \in saves' PROVE ~c.alive /\ c.step = "put" /\ c.rev \in Int /\ c.rev <= rev
  <2>1. \A d : Left(d).step = "put" /\ Left(d).rev = d.rev /\ ~Left(d).alive
    BY DEF Left
  <2>2. \A l : Save(l, revision).rev = revision
    BY DEF Save
  <2>. QED BY <1>2, <1>3, <2>1, <2>2
<1>5. ASSUME NEW o \in ops' PROVE ~o.alive
  <2>1. PICK op \in ops : o = [op EXCEPT !.alive = FALSE]
    BY <1>1
  <2>2. op \in Creations \/ op \in Closings \/ op \in Openings
    BY DEF IInv, CallsInv, CallOK
  <2>. QED BY <2>1, <2>2 DEF Creations, Closings, Openings
<1>6. RevisionsInv'
  BY <1>1, <1>3, <1>4 DEF RevisionsInv
<1>7. LoadingInv' /\ SavesInv' /\ PersistedInv'
  BY <1>1, <1>3, <1>4, <1>5 DEF LoadingInv, SavesInv, PersistedInv
<1>. QED BY <1>6, <1>7 DEF RInv

\* All steps of loading.
LEMMA LoadingRests ==
    ASSUME IInv, RInv, Loading PROVE RInv'
<1>1. CASE ReadsTerminals
  <2>1. UNCHANGED <<created, running, layout, rev, phase, read, state, persisted, revision, pending, saves, tangled, ops>>
    BY <1>1 DEF ReadsTerminals, serverVars, saveVars, knownVars, historyVars
  <2>. QED BY <2>1, OthersRest DEF RInv, LoadingInv
<1>2. CASE ReadsLayout
  <2>1. /\ phase' = "loading" /\ phase = "loading" /\ read'.read /\ read'.value = layout' /\ revision' = rev
        /\ UNCHANGED <<layout, rev, pending, persisted, saves, ops>>
    BY <1>2 DEF ReadsLayout, serverVars, Read
  <2>. QED BY <2>1 DEF RInv, RevisionsInv, LoadingInv, SavesInv, PersistedInv
<1>3. CASE CreatesFirst
  <2>1. phase' = "loading" /\ phase = "loading"
        /\ UNCHANGED <<layout, rev, read, revision, pending, persisted, saves, ops>>
    BY <1>3 DEF CreatesFirst, saveVars, knownVars
  <2>. QED BY <2>1 DEF RInv, RevisionsInv, LoadingInv, SavesInv, PersistedInv
<1>4. CASE LoadFails
  <2>1. /\ phase = "loading" /\ phase' = "ready" /\ revision' = -1
        /\ UNCHANGED <<layout, rev, persisted, pending, saves>>
    BY <1>4 DEF LoadFails, serverVars, NoRevision
  <2>. QED BY <2>1 DEF RInv, RevisionsInv, LoadingInv, SavesInv, PersistedInv
<1>. QED BY <1>1, <1>2, <1>3, <1>4, HydratesRests, ReloadsRest DEF Loading

-----------------------------------------------------------------------------
(* Saves.                                                                   *)

\* What waits is sent.
LEMMA SentRests ==
    ASSUME IInv, RInv, Saves PROVE RInv'
<1>1. /\ pending # NoLayout /\ pending' = NoLayout /\ saves' = saves \union {Save(pending, revision)}
      /\ UNCHANGED <<created, running, layout, rev, phase, read, state, persisted, revision, ops, tangled>>
  BY DEF Saves, serverVars, loadVars, knownVars, historyVars
<1>2. Save(pending, revision).step = "put" /\ Save(pending, revision).rev = revision
  BY DEF Save
<1>3. RevisionsInv'
  BY <1>1, <1>2 DEF RInv, RevisionsInv
<1>4. phase # "loading"
  BY <1>1 DEF RInv, LoadingInv
<1>5. LoadingInv' /\ SavesInv'
  BY <1>1, <1>4 DEF RInv, LoadingInv, SavesInv
<1>6. \A first : Restorable(first) => Restorable(first)'
  BY <1>1 DEF Restorable
<1>. QED BY <1>1, <1>3, <1>5, <1>6 DEF RInv, PersistedInv

\* When the server stores a layout no page has its revision.
LEMMA ServerSavedRests ==
    ASSUME IInv, RInv, NEW c \in saves, ServerSaves(c) PROVE RInv'
<1>1. UNCHANGED <<created, running, phase, read, state, persisted, revision, pending, ops, tangled>>
  BY DEF ServerSaves, loadVars, knownVars, historyVars
<1>2. PICK step, l, r :
         /\ Answers(c, step, l, r) /\ r = rev' /\ l = layout'
         /\ \/ rev' = rev + 1
            \/ UNCHANGED <<layout, rev>>
  BY DEF ServerSaves, Stores
<1>3. rev \in Nat /\ revision \in Int /\ revision <= rev
  BY DEF RInv, RevisionsInv
<1>4. ASSUME NEW d \in saves'
      PROVE  /\ d.rev \in Int /\ d.rev <= rev'
             /\ d.step # "put" => d.alive /\ (d.rev = rev' => d.layout = layout')
             /\ d.alive => \E b \in saves : b.alive
  <2>1. CASE d \in saves
    <3>1. d.rev \in Int /\ d.rev <= rev /\ (d.step # "put" => d.alive /\ (d.rev = rev => d.layout = layout))
      BY <2>1 DEF RInv, RevisionsInv
    <3>. QED BY <1>2, <1>3, <2>1, <3>1
  <2>2. CASE c.alive /\ d = Response(c, step, l, r)
    <3>1. d.rev = r /\ d.layout = l /\ d.alive = c.alive
      BY <2>2 DEF Response
    <3>. QED BY <1>2, <1>3, <2>2, <3>1
  <2>. QED BY <1>2, <2>1, <2>2 DEF Answers
<1>5. RevisionsInv'
  BY <1>1, <1>2, <1>3, <1>4 DEF RevisionsInv
<1>6. LoadingInv' /\ SavesInv'
  BY <1>1, <1>2, <1>3, <1>4 DEF RInv, LoadingInv, SavesInv
<1>7. CASE rev' = rev + 1
  <2>1. revision' # rev'
    BY <1>1, <1>3, <1>7
  <2>. QED BY <1>5, <1>6, <2>1 DEF RInv, PersistedInv
<1>8. CASE UNCHANGED <<layout, rev>>
  <2>1. \A first : Restorable(first) => Restorable(first)'
    BY <1>1, <1>8 DEF Restorable
  <2>. QED BY <1>1, <1>5, <1>6, <1>8, <2>1 DEF RInv, PersistedInv
<1>. QED BY <1>2, <1>7, <1>8

\* The page knows what it saved, or shows what another device saved.
LEMMA SaveReturnedRests ==
    ASSUME IInv, RInv, NEW c \in saves, SaveReturns(c) PROVE RInv'
<1>1. /\ c.step # "put" /\ saves' = saves \ {c} /\ revision' = c.rev
      /\ UNCHANGED <<created, running, layout, rev, phase, read, pending, ops>>
  BY DEF SaveReturns, serverVars, loadVars
<1>2. /\ c.alive /\ c.rev \in Int /\ c.rev <= rev /\ (c.rev = rev => c.layout = layout)
  BY <1>1 DEF RInv, RevisionsInv
<1>3. phase # "loading"
  BY <1>2 DEF RInv, LoadingInv
<1>4. RevisionsInv' /\ LoadingInv'
  BY <1>1, <1>2, <1>3 DEF RInv, RevisionsInv, LoadingInv
<1>5. CASE persisted' = c.layout /\ UNCHANGED <<state, tangled>>
  <2>1. SavesInv'
    BY <1>1, <1>2, <1>5 DEF RInv, SavesInv
  <2>2. PersistedInv'
    BY <1>1, <1>2, <1>5 DEF PersistedInv
  <2>. QED BY <1>4, <2>1, <2>2 DEF RInv
<1>6. CASE /\ state' = Reconstruct(state.terminals, c.layout) /\ persisted' = Serialize(state')
           /\ tangled' = (tangled \/ Tangles(state.terminals, c.layout))
  <2>1. /\ ProperLayout(c.layout) /\ ProperState(state) /\ Below(state.workspaces, created)
        /\ ~tangled => Apart(c.layout.workspaces)
    <3>1. c.layout \in Remembered
      BY DEF Remembered
    <3>. QED BY <3>1 DEF IInv, StateInv, LayoutsInv, SoundInv, Stored
  <2>2. state.terminals \in Seq(Id) /\ ToSet(state.terminals) \subseteq 1..created
    BY <2>1 DEF ProperState, States, Below, Shown
  <2>3. state'.workspaces # <<>>
    BY <1>6, <2>1, <2>2, Reconstructed
  <2>4. SavesInv'
    BY <2>3 DEF SavesInv
  <2>5. ASSUME ~tangled', c.rev = rev PROVE \E first : Restorable(first)'
    <3>1. c.layout = layout
      BY <1>2, <2>5
    <3>2. /\ Injective(state.terminals) /\ Apart(layout.workspaces) /\ ~Tangles(state.terminals, layout)
          /\ state' = Reconstruct(state.terminals, layout)
      BY <1>6, <2>1, <2>5, <3>1 DEF IInv, SoundInv, SoundState
    <3>3. PICK q : q = state.terminals
      OBVIOUS
    <3>4. /\ q \in Seq(Id) /\ Injective(q) /\ ToSet(q) \subseteq 1..created /\ ~Tangles(q, layout)
          /\ state' = Reconstruct(q, layout)
      BY <2>2, <3>2, <3>3
    <3>5. Restorable(q)'
      BY <1>1, <1>6, <3>2, <3>4, LayoutRestorable
    <3>. QED BY <3>5
  <2>6. PersistedInv'
    BY <1>1, <2>5 DEF PersistedInv
  <2>. QED BY <1>4, <2>4, <2>6 DEF RInv
<1>7. \/ persisted' = c.layout /\ UNCHANGED <<state, tangled>>
      \/ /\ state' = Reconstruct(state.terminals, c.layout) /\ persisted' = Serialize(state')
         /\ tangled' = (tangled \/ Tangles(state.terminals, c.layout))
  BY DEF SaveReturns
<1>. QED BY <1>5, <1>6, <1>7

\* A save that fails changes nothing that the page knows.
LEMMA SaveFailedRests ==
    ASSUME IInv, RInv, NEW c \in saves, SaveFails(c) PROVE RInv'
<1>1. /\ saves' = saves \ {c}
      /\ UNCHANGED <<created, running, layout, rev, phase, read, state, persisted, revision, pending, ops, tangled>>
  BY DEF SaveFails, serverVars, loadVars, knownVars, historyVars
<1>2. RevisionsInv' /\ LoadingInv' /\ SavesInv'
  BY <1>1 DEF RInv, RevisionsInv, LoadingInv, SavesInv
<1>3. \A first : Restorable(first) => Restorable(first)'
  BY <1>1 DEF Restorable
<1>. QED BY <1>1, <1>2, <1>3 DEF RInv, PersistedInv

\* All steps of the saves.
LEMMA SavingRests ==
    ASSUME IInv, RInv, Saving PROVE RInv'
BY SentRests, ServerSavedRests, SaveReturnedRests, SaveFailedRests DEF Saving

\* Another device's layout makes the page's revision stale.
LEMMA OtherDeviceRests ==
    ASSUME IInv, RInv, OtherDevice PROVE RInv'
<1>1. \E v : OtherSaves(v)
  BY DEF OtherDevice
<1>2. /\ rev' = rev + 1 /\ (tangled => tangled')
      /\ UNCHANGED <<phase, read, state, persisted, revision, pending, saves, ops>>
  BY <1>1 DEF OtherSaves, Stores, loadVars, knownVars
<1>3. rev \in Nat /\ revision \in Int /\ revision <= rev
  BY DEF RInv, RevisionsInv
<1>4. rev' \in Nat /\ revision' <= rev' /\ revision' # rev'
  BY <1>2, <1>3
<1>5. \A c \in saves : c.rev \in Int /\ c.rev <= rev' /\ c.rev # rev' /\ (c.step # "put" => c.alive)
  BY <1>2, <1>3 DEF RInv, RevisionsInv
<1>6. RevisionsInv'
  BY <1>2, <1>3, <1>4, <1>5 DEF RevisionsInv
<1>. QED BY <1>2, <1>4, <1>6 DEF RInv, LoadingInv, SavesInv, PersistedInv

\* Every step keeps what a load would show.
LEMMA NextRests ==
    ASSUME IInv, RInv, [Next]_vars PROVE RInv'
<1>1. CASE Next
  BY <1>1, LoadingRests, LocalRests, RemoteRests, SavingRests, OtherDeviceRests DEF Next
<1>2. CASE UNCHANGED vars
  <2>1. UNCHANGED <<created, running, layout, rev, phase, read, state, persisted, revision, pending, saves, tangled, ops>>
    BY <1>2 DEF vars, serverVars, loadVars, saveVars, knownVars, historyVars
  <2>. QED BY <2>1, OthersRest DEF RInv, LoadingInv
<1>. QED BY <1>1, <1>2

\* At the start the page loads, and nothing waits.
LEMMA InitRests == Init => RInv
<1>1. Init => /\ phase = "loading" /\ pending = NoLayout /\ persisted = NoLayout /\ revision = -1
              /\ rev \in {0, 1} /\ saves = {} /\ ops = {}
  BY DEF Init, Starts, NoRevision
<1>. QED BY <1>1 DEF RInv, RevisionsInv, LoadingInv, SavesInv, PersistedInv

\* A page at rest shows what a load would show.
LEMMA RestingRestores ==
    ASSUME IInv, RInv, ~tangled, phase = "ready", Serialize(state) = persisted, revision = rev,
           layout # NoLayout, running = ToSet(state.terminals),
           state.terminals = Listed \/ Unrepresented(Listed, layout.workspaces) = <<>>
    PROVE  LET back == Reconstruct(Listed, layout)
           IN  /\ Serialize(back) = Serialize(state)
               /\ back.active = state.active
               /\ \A i \in DOMAIN state.workspaces :
                     back.workspaces[i].activeTab = state.workspaces[i].activeTab
<1>. DEFINE back == Reconstruct(Listed, layout)
            l == Serialize(state)
<1>1. /\ ProperState(state) /\ SoundState(state) /\ ProperLayout(layout) /\ l = persisted
  <2>1. layout \in Remembered
    BY DEF Remembered
  <2>. QED BY <2>1 DEF IInv, StateInv, SoundInv, LayoutsInv, Stored
<1>2. Listed \in Seq(Id) /\ Injective(Listed) /\ ToSet(Listed) = running
  BY ListedTerminals DEF IInv
<1>3. Shown(state) = running
  BY <1>1 DEF ProperState, SoundState
<1>4. state.workspaces # <<>>
  <2>1. persisted # NoLayout
    <3>1. ASSUME NEW first, Restorable(first) PROVE persisted # NoLayout
      <4>. DEFINE v == Reconstruct(first, layout)
      <4>1. first \in Seq(Id) /\ persisted = Serialize(v)
        BY <3>1 DEF Restorable
      <4>2. ProperState(v) /\ v.workspaces # <<>>
        BY <1>1, <4>1, Reconstructed
      <4>. HIDE DEF v
      <4>. QED BY <4>1, <4>2, SomethingSaved
    <3>. QED BY <3>1 DEF RInv, PersistedInv
  <2>. QED BY <2>1 DEF RInv, SavesInv
<1>5. /\ DOMAIN l.workspaces = DOMAIN state.workspaces
      /\ \A i \in DOMAIN state.workspaces : Alike(state.workspaces[i], l.workspaces[i])
      /\ Shown(l) = Shown(state) /\ l.active = state.active
  BY <1>1, <1>4, SavedAlike
<1>6. CASE persisted = layout
  <2>1. /\ back.workspaces = l.workspaces /\ back.active = l.active /\ Serialize(back) = l
    BY <1>1, <1>2, <1>3, <1>4, <1>6, SavedRestored
  <2>. HIDE DEF back, l
  <2>2. \A i \in DOMAIN state.workspaces : back.workspaces[i].activeTab = state.workspaces[i].activeTab
    BY <1>5, <2>1 DEF Alike
  <2>. QED BY <1>5, <2>1, <2>2 DEF back, l
<1>7. ASSUME NEW first, Restorable(first)
      PROVE  LET b == Reconstruct(Listed, layout)
             IN  /\ Serialize(b) = l
                 /\ b.active = state.active
                 /\ \A i \in DOMAIN state.workspaces :
                       b.workspaces[i].activeTab = state.workspaces[i].activeTab
  <2>. DEFINE v == Reconstruct(first, layout)
  <2>1. /\ first \in Seq(Id) /\ SoundState(v) /\ l = Serialize(v)
        /\ OwnTabs(state.workspaces, state.terminals, (ToSet(first) \ Shown(layout)) \intersect running)
    BY <1>1, <1>7 DEF Restorable
  <2>2. ProperState(v) /\ v.terminals = first /\ v.workspaces # <<>>
    BY <1>1, <2>1, Reconstructed
  <2>3. /\ DOMAIN l.workspaces = DOMAIN v.workspaces
        /\ \A i \in DOMAIN v.workspaces : Alike(v.workspaces[i], l.workspaces[i])
        /\ Shown(l) = Shown(v) /\ l.active = v.active
    BY <2>1, <2>2, SavedAlike
  <2>4. ToSet(first) = running
    <3>. HIDE DEF v, l
    <3>1. Shown(v) = ToSet(first)
      BY <2>1, <2>2 DEF ProperState, SoundState
    <3>. QED BY <1>3, <1>5, <2>3, <3>1
  <2>5. (ToSet(first) \ Shown(layout)) \intersect running = ToSet(first) \ Shown(layout)
    BY <2>4
  <2>6. state.terminals = Listed \/ Without(Listed, Shown(layout)) = <<>>
    BY DEF Unrepresented, Shown
  <2>7. /\ back.workspaces = v.workspaces /\ back.active = v.active
        /\ Serialize(back) = Serialize(v)
    BY <1>1, <1>2, <2>1, <2>4, <2>5, <2>6, RestoredAgain
  <2>. HIDE DEF back, l, v
  <2>8. \A i \in DOMAIN state.workspaces : back.workspaces[i].activeTab = state.workspaces[i].activeTab
    BY <1>5, <2>3, <2>7 DEF Alike
  <2>9. Serialize(back) = l /\ back.active = state.active
    BY <1>5, <2>1, <2>3, <2>7
  <2>. QED BY <2>8, <2>9 DEF back
<1>8. persisted = layout \/ \E first : Restorable(first)
  BY DEF RInv, PersistedInv
<1>. QED BY <1>6, <1>7, <1>8

\* When the page rests, reloading it shows the same workspaces, tabs, panes,
\* sizes and focus, without the editors.
THEOREM ReloadIsFaithful == Spec => []ReloadRestores
<1>1. Init => IInv /\ RInv
  BY InitHolds, InitRests
<1>2. (IInv /\ RInv) /\ [Next]_vars => (IInv /\ RInv)'
  BY NextKeeps, NextRests
<1>3. IInv /\ RInv => ReloadRestores
  BY RestingRestores DEF ReloadRestores
<1>. QED BY <1>1, <1>2, <1>3, PTL DEF Spec
=============================================================================
