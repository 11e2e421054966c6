--------------------------- MODULE PlanningProofs ---------------------------
(***************************************************************************)
(* Proofs about Planning, for any sources, goals, reservations, categories *)
(* and months.                                                             *)
(*                                                                         *)
(* Budgets: limits of one month are never on one branch.  The ancestors of *)
(* a category are the least set closed under parents, which says what a    *)
(* move, a deletion and an import do to every branch; a copy is a fold     *)
(* that keeps its limits apart at every step.                              *)
(*                                                                         *)
(* Goals: money is pledged once.  A reservation is unique to its goal and  *)
(* source, so each step changes what one source is asked for by one        *)
(* reservation at most, the one that was measured.  What backs the         *)
(* reservations is shared out exactly: the parts are the rises of one      *)
(* rounded share, which starts at nothing and ends at all there is.        *)
(***************************************************************************)
EXTENDS Planning, Sums

-----------------------------------------------------------------------------
(* The tree of categories.                                                 *)

Rooted(cats) == \A d \in Known(cats) : Parent(cats, d) \in Known(cats) \union {NoCategory}
Closed(cats, S) == \A d \in S : Parent(cats, d) # NoCategory => Parent(cats, d) \in S

\* One step up from each of a set of categories.
Above(cats, S) == S \union {Parent(cats, d) : d \in {e \in S : Parent(cats, e) # NoCategory}}

Climbs(cats, c, up, n) == up = [k \in 0..n |-> IF k = 0 THEN {c} ELSE Above(cats, up[k - 1])]

LEMMA ClimbExists ==
  ASSUME NEW cats, NEW c, NEW n \in Nat
  PROVE  \E up : Climbs(cats, c, up, n)
<1> DEFINE Good == {m \in Nat : \E up : Climbs(cats, c, up, m)}
<1>1. 0 \in Good
  <2>1. Climbs(cats, c, [k \in 0..0 |-> {c}], 0)
    BY DEF Climbs
  <2> QED
    BY <2>1
<1>2. ASSUME NEW m \in Nat, m \in Good
      PROVE  m + 1 \in Good
  <2>1. PICK up : Climbs(cats, c, up, m)
    BY <1>2
  <2> DEFINE next == [k \in 0..(m + 1) |-> IF k = m + 1 THEN Above(cats, up[m]) ELSE up[k]]
  <2>2. \A k \in 0..m : up[k] = IF k = 0 THEN {c} ELSE Above(cats, up[k - 1])
    BY <2>1 DEF Climbs
  <2>3. \A k \in 0..(m + 1) :
          (IF k = m + 1 THEN Above(cats, up[m]) ELSE up[k])
            = IF k = 0 THEN {c} ELSE Above(cats, next[k - 1])
    <3> TAKE k \in 0..(m + 1)
    <3>1. CASE k = 0
      BY <3>1, <2>2
    <3>2. CASE k = m + 1
      <4>1. next[k - 1] = up[m] /\ k # 0
        BY <3>2
      <4> QED
        BY <3>2, <4>1
    <3>3. CASE k # 0 /\ k # m + 1
      <4>1. k \in 0..m /\ k - 1 \in 0..(m + 1) /\ k - 1 # m + 1
        BY <3>3
      <4>2. next[k - 1] = up[k - 1] /\ up[k] = Above(cats, up[k - 1])
        BY <3>3, <4>1, <2>2
      <4> QED
        BY <3>3, <4>2
    <3> QED
      BY <3>1, <3>2, <3>3
  <2>4. next = [k \in 0..(m + 1) |-> IF k = 0 THEN {c} ELSE Above(cats, next[k - 1])]
    BY <2>3
  <2>5. Climbs(cats, c, next, m + 1)
    BY <2>4 DEF Climbs
  <2> QED
    BY <2>5
<1> HIDE DEF Good
<1>3. n \in Good
  BY <1>1, <1>2, NumberInduction
<1> QED
  BY <1>3 DEF Good

LEMMA AncestorsClimb ==
  ASSUME NEW cats, NEW c
  PROVE  \E up : /\ Climbs(cats, c, up, Cardinality(Categories))
                 /\ Ancestors(cats, c) = up[Cardinality(Categories)]
<1> DEFINE N == Cardinality(Categories)
           Up == CHOOSE up : up = [n \in 0..N |->
                    IF n = 0 THEN {c}
                    ELSE up[n - 1] \union {Parent(cats, d) : d \in {e \in up[n - 1] : Parent(cats, e) # NoCategory}}]
<1>1. \E up : up = [n \in 0..N |->
                    IF n = 0 THEN {c}
                    ELSE up[n - 1] \union {Parent(cats, d) : d \in {e \in up[n - 1] : Parent(cats, e) # NoCategory}}]
  <2>1. N \in Nat
    BY CategoriesAreFinite, FS_CardinalityType
  <2> HIDE DEF N
  <2>2. PICK up : Climbs(cats, c, up, N)
    BY <2>1, ClimbExists
  <2>3. up = [n \in 0..N |->
                    IF n = 0 THEN {c}
                    ELSE up[n - 1] \union {Parent(cats, d) : d \in {e \in up[n - 1] : Parent(cats, e) # NoCategory}}]
    BY <2>2 DEF Climbs, Above
  <2> QED
    BY ONLY <2>3, Zenon
<1>2. Up = [n \in 0..N |->
                    IF n = 0 THEN {c}
                    ELSE Up[n - 1] \union {Parent(cats, d) : d \in {e \in Up[n - 1] : Parent(cats, e) # NoCategory}}]
  <2> HIDE DEF N
  <2> QED
    BY ONLY <1>1, Zenon
<1>3. Ancestors(cats, c) = Up[N]
  BY DEF Ancestors
<1> HIDE DEF Up
<1>4. Climbs(cats, c, Up, N)
  BY <1>2 DEF Climbs, Above
<1> QED
  BY <1>3, <1>4

\* The categories above one, and itself, are the smallest set that holds it and
\* the parents of its members: as many steps up as there are categories reach
\* them all.
LEMMA AncestorsAre ==
  ASSUME NEW cats, Rooted(cats), NEW c \in Known(cats)
  PROVE  /\ c \in Ancestors(cats, c)
         /\ Ancestors(cats, c) \subseteq Known(cats)
         /\ Closed(cats, Ancestors(cats, c))
         /\ \A S : c \in S /\ Closed(cats, S) => Ancestors(cats, c) \subseteq S
<1> DEFINE N == Cardinality(Categories)
<1>0. N \in Nat /\ IsFiniteSet(Categories) /\ Known(cats) \subseteq Categories
  BY CategoriesAreFinite, FS_CardinalityType DEF Known
<1>1. PICK up : Climbs(cats, c, up, N) /\ Ancestors(cats, c) = up[N]
  BY AncestorsClimb
<1>2. up[0] = {c} /\ \A n \in Nat : n + 1 \in 0..N => up[n + 1] = Above(cats, up[n])
  <2> HIDE DEF N
  <2>1. \A k \in 0..N : up[k] = IF k = 0 THEN {c} ELSE Above(cats, up[k - 1])
    BY <1>1 DEF Climbs
  <2>2. 0 \in 0..N
    BY <1>0
  <2>3. up[0] = {c}
    BY <2>1, <2>2
  <2>4. ASSUME NEW n \in Nat, n + 1 \in 0..N
        PROVE  up[n + 1] = Above(cats, up[n])
    <3>1. n + 1 # 0 /\ (n + 1) - 1 = n
      OBVIOUS
    <3> QED
      BY <2>1, <2>4, <3>1
  <2> QED
    BY <2>3, <2>4
<1> HIDE DEF N
<1>3. \A n \in Nat : n \in 0..N => c \in up[n] /\ up[n] \subseteq Known(cats)
  <2> DEFINE Good == {n \in Nat : n \in 0..N => c \in up[n] /\ up[n] \subseteq Known(cats)}
  <2>1. 0 \in Good
    BY <1>2
  <2>2. ASSUME NEW n \in Nat, n \in Good
        PROVE  n + 1 \in Good
    <3> SUFFICES ASSUME n + 1 \in 0..N
                 PROVE  c \in up[n + 1] /\ up[n + 1] \subseteq Known(cats)
      OBVIOUS
    <3>1. n \in 0..N /\ up[n + 1] = Above(cats, up[n])
      BY <1>0, <1>2
    <3> QED
      BY <2>2, <3>1 DEF Above, Rooted
  <2> HIDE DEF Good
  <2>3. \A n \in Nat : n \in Good
    BY <2>1, <2>2, NumberInduction
  <2> QED
    BY <2>3 DEF Good
<1>4. \A n \in Nat : n \in 0..N => Closed(cats, up[n]) \/ Cardinality(up[n]) >= n + 1
  <2> DEFINE Good == {n \in Nat : n \in 0..N => Closed(cats, up[n]) \/ Cardinality(up[n]) >= n + 1}
  <2>1. 0 \in Good
    <3>1. Cardinality({c}) = 1
      BY FS_Singleton
    <3> QED
      BY <1>2, <3>1
  <2>2. ASSUME NEW n \in Nat, n \in Good
        PROVE  n + 1 \in Good
    <3> SUFFICES ASSUME n + 1 \in 0..N
                 PROVE  Closed(cats, up[n + 1]) \/ Cardinality(up[n + 1]) >= (n + 1) + 1
      OBVIOUS
    <3>1. n \in 0..N /\ up[n + 1] = Above(cats, up[n])
      BY <1>0, <1>2
    <3>2. up[n] \subseteq Known(cats) /\ up[n + 1] \subseteq Known(cats)
      BY <1>3, <3>1
    <3>3. CASE Closed(cats, up[n])
      <4>1. up[n + 1] = up[n]
        BY <3>1, <3>3 DEF Closed, Above
      <4> QED
        BY <3>3, <4>1
    <3>4. CASE ~Closed(cats, up[n])
      <4>1. PICK d \in up[n] : Parent(cats, d) # NoCategory /\ Parent(cats, d) \notin up[n]
        BY <3>4 DEF Closed
      <4>2. up[n] \union {Parent(cats, d)} \subseteq up[n + 1]
        BY <3>1, <4>1 DEF Above
      <4>3. IsFiniteSet(up[n]) /\ IsFiniteSet(up[n + 1])
        BY <1>0, <3>2, FS_Subset
      <4>4. Cardinality(up[n] \union {Parent(cats, d)}) = Cardinality(up[n]) + 1
        BY <4>1, <4>3, FS_AddElement
      <4>5. Cardinality(up[n] \union {Parent(cats, d)}) =< Cardinality(up[n + 1])
        BY <4>2, <4>3, FS_Subset
      <4>6. Cardinality(up[n]) >= n + 1 /\ Cardinality(up[n]) \in Nat /\ Cardinality(up[n + 1]) \in Nat
        BY <2>2, <3>1, <3>4, <4>3, FS_CardinalityType
      <4> QED
        BY <4>4, <4>5, <4>6
    <3> QED
      BY <3>3, <3>4
  <2> HIDE DEF Good
  <2>3. \A n \in Nat : n \in Good
    BY <2>1, <2>2, NumberInduction
  <2> QED
    BY <2>3 DEF Good
<1>5. Closed(cats, up[N])
  <2>1. up[N] \subseteq Categories
    BY <1>0, <1>3
  <2>2. Cardinality(up[N]) =< N /\ Cardinality(up[N]) \in Nat
    BY <1>0, <2>1, FS_Subset, FS_CardinalityType DEF N
  <2> QED
    BY <1>0, <1>4, <2>2
<1>6. ASSUME NEW S, c \in S, Closed(cats, S)
      PROVE  up[N] \subseteq S
  <2> DEFINE Good == {n \in Nat : n \in 0..N => up[n] \subseteq S}
  <2>1. 0 \in Good
    BY <1>2, <1>6
  <2>2. ASSUME NEW n \in Nat, n \in Good
        PROVE  n + 1 \in Good
    <3> SUFFICES ASSUME n + 1 \in 0..N
                 PROVE  up[n + 1] \subseteq S
      OBVIOUS
    <3>1. n \in 0..N /\ up[n + 1] = Above(cats, up[n])
      BY <1>0, <1>2
    <3> QED
      BY <1>6, <2>2, <3>1 DEF Above, Closed
  <2> HIDE DEF Good
  <2>3. \A n \in Nat : n \in Good
    BY <2>1, <2>2, NumberInduction
  <2> QED
    BY <1>0, <2>3 DEF Good
<1> QED
  BY <1>0, <1>1, <1>3, <1>5, <1>6

\* What follows from it.
LEMMA AncestorsOfAncestors ==
  ASSUME NEW cats, Rooted(cats), NEW c \in Known(cats), NEW d \in Ancestors(cats, c)
  PROVE  d \in Known(cats) /\ Ancestors(cats, d) \subseteq Ancestors(cats, c)
BY AncestorsAre

LEMMA AncestorsOfParent ==
  ASSUME NEW cats, Rooted(cats), NEW c \in Known(cats)
  PROVE  IF Parent(cats, c) = NoCategory THEN Ancestors(cats, c) = {c}
         ELSE /\ Parent(cats, c) \in Known(cats)
              /\ Ancestors(cats, c) = {c} \union Ancestors(cats, Parent(cats, c))
<1>1. CASE Parent(cats, c) = NoCategory
  <2>1. Closed(cats, {c})
    BY <1>1 DEF Closed
  <2> QED
    BY <1>1, <2>1, AncestorsAre
<1>2. CASE Parent(cats, c) # NoCategory
  <2> DEFINE p == Parent(cats, c)
  <2>1. p \in Known(cats)
    BY <1>2 DEF Rooted
  <2>2. p \in Ancestors(cats, p) /\ Closed(cats, Ancestors(cats, p))
    BY <2>1, AncestorsAre
  <2>3. Closed(cats, {c} \union Ancestors(cats, p))
    BY <2>2 DEF Closed
  <2>4. Ancestors(cats, c) \subseteq {c} \union Ancestors(cats, p)
    BY <2>3, AncestorsAre
  <2>5. p \in Ancestors(cats, c) /\ c \in Ancestors(cats, c)
    BY <1>2, AncestorsAre DEF Closed
  <2>6. Ancestors(cats, p) \subseteq Ancestors(cats, c)
    BY <2>5, AncestorsOfAncestors
  <2> QED
    BY <1>2, <2>1, <2>4, <2>5, <2>6
<1> QED
  BY <1>1, <1>2

\* A tree with fewer edges leaves a category with fewer above it.
LEMMA FewerAncestors ==
  ASSUME NEW cats, Rooted(cats), NEW old, Rooted(old), NEW c \in Known(cats) \intersect Known(old),
         \A d \in Ancestors(old, c) : d \in Known(cats) /\ Parent(cats, d) # NoCategory
                                         => Parent(cats, d) = Parent(old, d)
  PROVE  Ancestors(cats, c) \subseteq Ancestors(old, c)
<1> DEFINE S == Ancestors(old, c) \intersect Known(cats)
<1>1. c \in Ancestors(old, c) /\ Closed(old, Ancestors(old, c))
  BY AncestorsAre
<1>2. Closed(cats, S)
  <2> SUFFICES ASSUME NEW d \in S, Parent(cats, d) # NoCategory
               PROVE  Parent(cats, d) \in S
    BY DEF Closed
  <2>1. Parent(cats, d) = Parent(old, d) /\ Parent(cats, d) \in Known(cats)
    BY DEF Rooted
  <2> QED
    BY <1>1, <2>1 DEF Closed
<1> QED
  BY <1>1, <1>2, AncestorsAre

\* A category's ancestors do not depend on what is not among them.
LEMMA SameAncestors ==
  ASSUME NEW cats, Rooted(cats), NEW old, Rooted(old), NEW c \in Known(cats) \intersect Known(old),
         \A d \in Ancestors(old, c) : d \in Known(cats) /\ Parent(cats, d) = Parent(old, d)
  PROVE  Ancestors(cats, c) = Ancestors(old, c)
<1>1. Ancestors(cats, c) \subseteq Ancestors(old, c)
  BY FewerAncestors
<1>2. Closed(old, Ancestors(cats, c)) /\ c \in Ancestors(cats, c)
  BY <1>1, AncestorsAre DEF Closed
<1> QED
  BY <1>1, <1>2, AncestorsAre

\* In a forest no category is above its parent, and moving one under a category
\* that is not below it leaves a forest.
LEMMA MovedForest ==
  ASSUME NEW cats, Rooted(cats), NEW old, IsForest(old), NEW c \in Known(cats),
         Known(cats) = Known(old) \union {c},
         \A d \in Known(cats) \ {c} : Parent(cats, d) = Parent(old, d),
         Parent(cats, c) # NoCategory => c \notin Ancestors(cats, Parent(cats, c))
  PROVE  IsForest(cats)
<1>1. Rooted(old)
  BY DEF IsForest, Rooted
<1> SUFFICES ASSUME NEW d \in Known(cats) \ {c}, Parent(cats, d) # NoCategory,
                    d \in Ancestors(cats, Parent(cats, d))
             PROVE  FALSE
  BY DEF IsForest, Rooted
<1> DEFINE q == Parent(cats, d)
<1>2. q = Parent(old, d) /\ q \in Known(old) /\ q \in Known(cats)
  BY DEF IsForest
<1>3. c \in Ancestors(cats, q)
  <2> SUFFICES ASSUME c \notin Ancestors(cats, q)
               PROVE  FALSE
    OBVIOUS
  <2>1. \A e \in Ancestors(cats, q) : e \in Known(old) /\ Parent(cats, e) = Parent(old, e)
    BY <1>2, AncestorsAre
  <2>2. Ancestors(old, q) = Ancestors(cats, q)
    BY <1>1, <1>2, <2>1, SameAncestors
  <2> QED
    BY <1>2, <2>2 DEF IsForest
<1>4. d \in Ancestors(cats, c)
  <2> DEFINE S == {e \in Ancestors(cats, q) : d \in Ancestors(cats, e)}
  <2>1. q \in S
    BY <1>2, AncestorsAre
  <2>2. Closed(cats, S)
    <3> SUFFICES ASSUME NEW e \in S, Parent(cats, e) # NoCategory
                 PROVE  Parent(cats, e) \in S
      BY DEF Closed
    <3>1. e \in Known(cats) /\ Parent(cats, e) \in Ancestors(cats, q)
      BY <1>2, AncestorsAre DEF Closed
    <3>2. Ancestors(cats, e) = {e} \union Ancestors(cats, Parent(cats, e))
      BY <3>1, AncestorsOfParent
    <3>3. CASE d = e
      BY <3>1, <3>3
    <3>4. CASE d # e
      BY <3>1, <3>2, <3>4
    <3> QED
      BY <3>3, <3>4
  <2> QED
    BY <1>2, <1>3, <2>1, <2>2, AncestorsAre
<1> DEFINE p == Parent(cats, c)
<1>5. p # NoCategory /\ p \in Known(cats) /\ d \in Ancestors(cats, p)
  BY <1>4, AncestorsOfParent
<1>6. Ancestors(cats, d) = {d} \union Ancestors(cats, q) /\ Ancestors(cats, d) \subseteq Ancestors(cats, p)
  BY <1>5, AncestorsOfParent, AncestorsOfAncestors
<1> QED
  BY <1>3, <1>5, <1>6

-----------------------------------------------------------------------------
(* The limits.                                                             *)

Apart(cats, S) == \A c, d \in S : c # d => d \notin Ancestors(cats, c)

BudgetsInv ==
    /\ tree \in [Categories -> CategoryRows \union {NoCategory}]
    /\ limits \in [Months -> SUBSET Known(tree)]
    /\ drafted # NoCategory => drafted.category \in Known(tree)
    /\ IsForest(tree)
    /\ \A m \in Months : Apart(tree, limits[m])

LEMMA ApartMeans ==
  ASSUME NEW cats, NEW S \in SUBSET Known(cats)
  PROVE  Apart(cats, S) <=> \A c, d \in S : c # d => c \notin Descendants(cats, d)
BY DEF Apart, Descendants

\* One more limit on a category whose family has none.
LEMMA OneMoreApart ==
  ASSUME NEW S \in SUBSET Known(tree), Apart(tree, S), NEW c \in Known(tree),
         Family(tree, c) \intersect S = {}
  PROVE  Apart(tree, S \union {c})
BY DEF Apart, Family, Descendants

\* Limits stay apart in a tree that leaves every category with no more above it.
LEMMA FewerApart ==
  ASSUME NEW cats, NEW old, NEW S, Apart(old, S),
         \A c \in S : Ancestors(cats, c) \subseteq Ancestors(old, c)
  PROVE  Apart(cats, S)
BY DEF Apart

Pick(c, kept) ==
    IF tree[c].type # "INCOME" /\ Family(tree, c) \intersect kept = {} THEN kept \union {c} ELSE kept

\* Copying the limits of a month beside those of another keeps them apart.
LEMMA CopyIsApart ==
  ASSUME BudgetsInv, NEW m \in Months, m - 1 \in Months, CopyPrevious(m)
  PROVE  limits' \in [Months -> SUBSET Known(tree)] /\ \A n \in Months : Apart(tree, limits'[n])
<1> DEFINE S == limits[m - 1]
           base == limits[m]
           g == CHOOSE iter : iter = [s \in SUBSET S |->
                    IF s = {} THEN base ELSE Pick(First(s), iter[s \ {First(s)}])]
           step == [c \in Categories |-> [kept \in SUBSET Known(tree) |-> Pick(c, kept)]]
<1>1. S \subseteq Known(tree) /\ base \in SUBSET Known(tree) /\ S \subseteq Categories
  BY DEF BudgetsInv, Known
<1>2. IsFiniteSet(S)
  BY <1>1, CategoriesAreFinite, FS_Subset
<1>3. \A c \in Known(tree), kept \in SUBSET Known(tree) : Pick(c, kept) \in SUBSET Known(tree)
  BY DEF Pick
<1>4. \E h : h = [s \in SUBSET S |-> IF s = {} THEN base ELSE Pick(First(s), h[s \ {First(s)}])]
  <2> HIDE DEF S, base, step
  <2>1. PICK h : Folds(step, base, h, S)
    BY <1>2, FoldsExists
  <2>2. \A s \in SUBSET S : h[s] = IF s = {} THEN base ELSE step[First(s)][h[s \ {First(s)}]]
    BY <2>1, FoldsIs
  <2> DEFINE Good == {s \in SUBSET S : /\ h[s] \in SUBSET Known(tree)
                                       /\ h[s] = IF s = {} THEN base ELSE Pick(First(s), h[s \ {First(s)}])}
  <2>3. ASSUME NEW s \in SUBSET S, \A u \in SUBSET s : u # s => u \in Good
        PROVE  s \in Good
    <3>1. CASE s = {}
      BY <1>1, <2>2, <3>1
    <3>2. CASE s # {}
      <4>1. First(s) \in s /\ First(s) \in Known(tree) /\ First(s) \in Categories
        BY <1>1, <3>2, FirstIsMember
      <4>2. s \ {First(s)} \in Good
        BY <2>3, <4>1
      <4>3. h[s \ {First(s)}] \in SUBSET Known(tree)
        BY <4>2
      <4>4. h[s] = Pick(First(s), h[s \ {First(s)}])
        BY <2>2, <3>2, <4>1, <4>3 DEF step
      <4> QED
        BY <1>3, <3>2, <4>1, <4>3, <4>4
    <3> QED
      BY <3>1, <3>2
  <2> HIDE DEF Good
  <2>4. \A s \in SUBSET S : s \in Good
    BY <1>2, <2>3, SubsetInduction
  <2>5. \A s \in SUBSET S : h[s] = IF s = {} THEN base ELSE Pick(First(s), h[s \ {First(s)}])
    BY <2>4 DEF Good
  <2>6. h = [s \in SUBSET S |-> h[s]]
    BY <2>1 DEF Folds
  <2>7. h = [s \in SUBSET S |-> IF s = {} THEN base ELSE Pick(First(s), h[s \ {First(s)}])]
    BY <2>5, <2>6
  <2> QED
    BY ONLY <2>7, Zenon
<1>5. g = [s \in SUBSET S |-> IF s = {} THEN base ELSE Pick(First(s), g[s \ {First(s)}])]
  <2> HIDE DEF S, base, step
  <2> QED
    BY ONLY <1>4, Zenon
<1>6. limits' = [limits EXCEPT ![m] = g[S]]
  BY DEF CopyPrevious, FoldSet, MapThenFoldSet, First, Pick
<1> HIDE DEF S, base, step, g
<1> DEFINE Good == {s \in SUBSET S : g[s] \in SUBSET Known(tree) /\ Apart(tree, g[s])}
<1>7. ASSUME NEW s \in SUBSET S, \A u \in SUBSET s : u # s => u \in Good
      PROVE  s \in Good
  <2>0. g[s] = IF s = {} THEN base ELSE Pick(First(s), g[s \ {First(s)}])
    BY <1>5
  <2>1. CASE s = {}
    BY <1>1, <2>0, <2>1 DEF BudgetsInv, base
  <2>2. CASE s # {}
    <3>1. First(s) \in s /\ First(s) \in Known(tree)
      BY <1>1, <2>2, FirstIsMember
    <3>2. s \ {First(s)} \in Good
      BY <1>7, <3>1
    <3>3. g[s \ {First(s)}] \in SUBSET Known(tree) /\ Apart(tree, g[s \ {First(s)}])
      BY <3>2
    <3>4. g[s] \in SUBSET Known(tree) /\ Apart(tree, g[s])
      <4> DEFINE kept == g[s \ {First(s)}]
                 c == First(s)
      <4>1. g[s] = Pick(c, kept) /\ kept \in SUBSET Known(tree) /\ Apart(tree, kept) /\ c \in Known(tree)
        BY <2>0, <2>2, <3>1, <3>3
      <4> HIDE DEF kept, c
      <4>2. CASE Family(tree, c) \intersect kept = {}
        BY <4>1, <4>2, OneMoreApart DEF Pick
      <4>3. CASE Family(tree, c) \intersect kept # {}
        BY <4>1, <4>3 DEF Pick
      <4> QED
        BY <4>2, <4>3
    <3> QED
      BY <3>4
  <2> QED
    BY <2>1, <2>2
<1> HIDE DEF Good
<1>8. S \in Good
  BY <1>2, <1>7, SubsetInduction
<1>9. g[S] \in SUBSET Known(tree) /\ Apart(tree, g[S])
  BY <1>8 DEF Good
<1> QED
  BY <1>6, <1>9 DEF BudgetsInv

LEMMA BudgetsBegin == BudgetsInit => BudgetsInv
<1> SUFFICES ASSUME BudgetsInit
             PROVE  BudgetsInv
  OBVIOUS
<1>1. Known(tree) = {}
  BY DEF BudgetsInit, Known
<1> QED
  BY <1>1 DEF BudgetsInit, BudgetsInv, IsForest, Apart

\* A step that leaves the limits, and in the tree no more above any category
\* that stays than before, keeps them apart.
LEMMA TreeStep ==
  ASSUME BudgetsInv, UNCHANGED limits, NEW cats, tree' = cats,
         cats \in [Categories -> CategoryRows \union {NoCategory}],
         IsForest(cats),
         \A m \in Months : limits[m] \subseteq Known(cats) /\ Apart(cats, limits[m]),
         drafted' # NoCategory => drafted'.category \in Known(cats)
  PROVE  BudgetsInv'
BY DEF BudgetsInv

LEMMA SaveCategoryStep ==
  ASSUME BudgetsInv, NEW c \in Categories, NEW type \in Types,
         NEW parent \in Categories \union {NoCategory}, SaveCategory(c, type, parent)
  PROVE  BudgetsInv'
<1> DEFINE cats == [tree EXCEPT ![c] = Category(type, parent)]
<1>0. Rooted(tree) /\ Known(tree) \subseteq Categories
  BY DEF BudgetsInv, IsForest, Rooted, Known
<1>1. Category(type, parent) \in CategoryRows /\ Category(type, parent) # NoCategory
  BY CategoriesAreFinite DEF Category, CategoryRows
<1>2. cats \in [Categories -> CategoryRows \union {NoCategory}]
  BY <1>1 DEF BudgetsInv
<1>3. /\ Known(cats) = Known(tree) \union {c}
      /\ \A d \in Known(cats) \ {c} : cats[d] = tree[d] /\ Parent(cats, d) = Parent(tree, d)
      /\ Parent(cats, c) = parent
  BY <1>1 DEF BudgetsInv, Known, Parent, Category
<1>4. parent # NoCategory => parent \in Known(tree) /\ c \notin Ancestors(cats, parent)
  BY DEF SaveCategory
<1>5. tree' = cats /\ UNCHANGED <<limits, drafted>>
  BY DEF SaveCategory
<1>6. tree[c] # NoCategory => LimitsStayApart(cats, c)
  BY DEF SaveCategory
<1> HIDE DEF cats
<1>7. Rooted(cats)
  BY <1>0, <1>3, <1>4 DEF Rooted
<1>8. IsForest(cats)
  BY <1>3, <1>4, <1>7, MovedForest DEF BudgetsInv
<1>9. ASSUME NEW m \in Months
      PROVE  limits[m] \subseteq Known(cats) /\ Apart(cats, limits[m])
  <2>0. limits[m] \subseteq Known(tree) /\ limits[m] \subseteq Known(cats) /\ Apart(tree, limits[m])
    BY <1>3, <1>9 DEF BudgetsInv
  <2>1. CASE tree[c] # NoCategory /\ Parent(cats, c) # Parent(tree, c)
    <3>1. \A b, d \in limits[m] : b # d => b \notin Descendants(cats, d)
      BY <1>6, <1>9, <2>1 DEF LimitsStayApart
    <3> QED
      BY <2>0, <3>1, ApartMeans
  <2>2. CASE tree[c] = NoCategory \/ Parent(cats, c) = Parent(tree, c)
    <3>1. ASSUME NEW d \in limits[m]
          PROVE  Ancestors(cats, d) = Ancestors(tree, d)
      <4>1. d \in Known(tree) /\ d \in Known(cats) /\ Ancestors(tree, d) \subseteq Known(tree)
        BY <1>0, <2>0, <3>1, AncestorsAre
      <4>2. \A e \in Ancestors(tree, d) : e \in Known(cats) /\ Parent(cats, e) = Parent(tree, e)
        BY <1>3, <2>2, <4>1 DEF Known
      <4> QED
        BY <1>0, <1>7, <4>1, <4>2, SameAncestors
    <3> QED
      BY <2>0, <3>1, FewerApart
  <2> QED
    BY <2>1, <2>2
<1>10. drafted' # NoCategory => drafted'.category \in Known(cats)
  BY <1>3, <1>5 DEF BudgetsInv
<1> QED
  BY <1>2, <1>5, <1>8, <1>9, <1>10, TreeStep

LEMMA DeleteCategoryStep ==
  ASSUME BudgetsInv, NEW c \in Categories, DeleteCategory(c)
  PROVE  BudgetsInv'
<1> DEFINE cats == [d \in Categories |->
                   IF d = c \/ tree[d] = NoCategory THEN NoCategory
                   ELSE IF tree[d].parent = c THEN [tree[d] EXCEPT !.parent = NoCategory] ELSE tree[d]]
<1>0. Rooted(tree) /\ Known(tree) \subseteq Categories
  BY DEF BudgetsInv, IsForest, Rooted, Known
<1>1. ASSUME NEW d \in Categories
      PROVE  /\ cats[d] \in CategoryRows \union {NoCategory}
             /\ cats[d] # NoCategory <=> d # c /\ tree[d] # NoCategory
             /\ cats[d] # NoCategory => cats[d].parent = IF tree[d].parent = c THEN NoCategory ELSE tree[d].parent
  <2>1. CASE d = c \/ tree[d] = NoCategory
    BY <2>1
  <2>2. CASE d # c /\ tree[d] # NoCategory
    <3>1. tree[d] \in CategoryRows
      BY <2>2 DEF BudgetsInv
    <3>2. /\ [tree[d] EXCEPT !.parent = NoCategory] \in CategoryRows
          /\ [tree[d] EXCEPT !.parent = NoCategory].parent = NoCategory
      BY <3>1 DEF CategoryRows
    <3> QED
      BY <2>2, <3>1, <3>2, CategoriesAreFinite
  <2> QED
    BY <2>1, <2>2
<1>2. cats \in [Categories -> CategoryRows \union {NoCategory}]
  BY <1>1
<1>3. tree' = cats /\ UNCHANGED limits
  BY DEF DeleteCategory
<1>4. (drafted' # NoCategory) => drafted' = drafted /\ drafted.category # c
  BY DEF DeleteCategory
<1>5. \A m \in Months : c \notin limits[m]
  BY DEF DeleteCategory, IsLimited
<1> HIDE DEF cats
<1>6. /\ Known(cats) = Known(tree) \ {c}
      /\ \A d \in Known(cats) : Parent(cats, d) = IF Parent(tree, d) = c THEN NoCategory ELSE Parent(tree, d)
  BY <1>1 DEF Known, Parent
<1>7. Rooted(cats)
  BY <1>0, <1>6 DEF Rooted
<1>8. \A d \in Known(cats) : Ancestors(cats, d) \subseteq Ancestors(tree, d)
  <2> TAKE d \in Known(cats)
  <2> QED
    BY <1>0, <1>6, <1>7, FewerAncestors
<1>9. IsForest(cats)
  <2> SUFFICES ASSUME NEW d \in Known(cats), Parent(cats, d) # NoCategory
               PROVE  d \notin Ancestors(cats, Parent(cats, d))
    BY <1>7 DEF IsForest, Rooted
  <2>1. Parent(cats, d) = Parent(tree, d) /\ Parent(cats, d) \in Known(cats) /\ d \in Known(tree)
    BY <1>6, <1>7 DEF Rooted
  <2>2. d \notin Ancestors(tree, Parent(tree, d))
    BY <2>1 DEF BudgetsInv, IsForest
  <2> QED
    BY <1>8, <2>1, <2>2
<1>10. ASSUME NEW m \in Months
       PROVE  limits[m] \subseteq Known(cats) /\ Apart(cats, limits[m])
  <2>1. limits[m] \subseteq Known(tree) /\ Apart(tree, limits[m])
    BY <1>10 DEF BudgetsInv
  <2>2. limits[m] \subseteq Known(cats)
    BY <1>5, <1>6, <1>10, <2>1
  <2>3. \A d \in limits[m] : Ancestors(cats, d) \subseteq Ancestors(tree, d)
    BY <1>8, <2>2
  <2> QED
    BY <2>1, <2>2, <2>3, FewerApart
<1>11. drafted' # NoCategory => drafted'.category \in Known(cats)
  BY <1>4, <1>6 DEF BudgetsInv
<1> QED
  BY <1>2, <1>3, <1>9, <1>10, <1>11, TreeStep

LEMMA ImportStep ==
  ASSUME BudgetsInv, NEW file \in Files, ImportCategories(file)
  PROVE  BudgetsInv'
<1> DEFINE cats == Merged(file)
<1>0. Rooted(tree) /\ Known(tree) \subseteq Categories
  BY DEF BudgetsInv, IsForest, Rooted, Known
<1>1. tree' = cats /\ UNCHANGED <<limits, drafted>> /\ IsForest(cats)
  BY DEF ImportCategories
<1>2. cats \in [Categories -> CategoryRows \union {NoCategory}]
  BY CategoriesAreFinite DEF Merged, BudgetsInv
<1>3. \A d \in Known(tree) : d \in Known(cats) /\ cats[d] = tree[d] /\ Parent(cats, d) = Parent(tree, d)
  BY DEF Merged, Known, Parent
<1>4. Rooted(cats)
  BY <1>1 DEF IsForest, Rooted
<1> HIDE DEF cats
<1>5. ASSUME NEW d \in Known(tree)
      PROVE  Ancestors(cats, d) = Ancestors(tree, d)
  <2>1. \A e \in Ancestors(tree, d) : e \in Known(cats) /\ Parent(cats, e) = Parent(tree, e)
    BY <1>0, <1>3, AncestorsAre
  <2> QED
    BY <1>0, <1>3, <1>4, <2>1, SameAncestors
<1>6. ASSUME NEW m \in Months
      PROVE  limits[m] \subseteq Known(cats) /\ Apart(cats, limits[m])
  <2>1. limits[m] \subseteq Known(tree) /\ Apart(tree, limits[m])
    BY <1>6 DEF BudgetsInv
  <2>2. \A d \in limits[m] : Ancestors(cats, d) \subseteq Ancestors(tree, d)
    BY <1>5, <2>1
  <2> QED
    BY <1>3, <2>1, <2>2, FewerApart
<1>7. drafted' # NoCategory => drafted'.category \in Known(cats)
  BY <1>1, <1>3 DEF BudgetsInv
<1> QED
  BY <1>1, <1>2, <1>6, <1>7, TreeStep

LEMMA SaveBudgetStep ==
  ASSUME BudgetsInv, NEW m \in Months, NEW month \in Months, NEW old \in Categories \union {NoCategory},
         SaveBudget(m, old, month)
  PROVE  BudgetsInv'
<1> DEFINE c == drafted.category
           kept == IF month = m THEN limits[m] \ {old} ELSE limits[m]
<1>1. c \in Known(tree) /\ UNCHANGED tree /\ drafted' = NoCategory
  BY DEF SaveBudget, BudgetsInv
<1>2. \A n \in Months : limits[n] \subseteq Known(tree) /\ Apart(tree, limits[n])
  BY DEF BudgetsInv
<1>3. kept \subseteq limits[m] /\ Apart(tree, kept)
  BY <1>2 DEF Apart
<1>4. Family(tree, c) \intersect kept = {}
  <2>1. NoCategory \notin limits[m]
    BY <1>2, CategoriesAreFinite DEF Known
  <2> QED
    BY <2>1 DEF SaveBudget, IsFree
<1>5. \A n \in Months : limits'[n] = IF n = m THEN kept \union {c}
                                     ELSE IF n = month THEN limits[n] \ {old} ELSE limits[n]
  BY DEF SaveBudget
<1>6. limits' = [n \in Months |-> limits'[n]]
  BY DEF SaveBudget
<1> HIDE DEF c, kept
<1>7. kept \in SUBSET Known(tree)
  BY <1>2, <1>3
<1>8. Apart(tree, kept \union {c})
  BY <1>1, <1>3, <1>4, <1>7, OneMoreApart
<1>9. \A n \in Months : limits'[n] \in SUBSET Known(tree) /\ Apart(tree, limits'[n])
  <2> TAKE n \in Months
  <2>1. CASE n = m
    BY <1>1, <1>5, <1>7, <1>8, <2>1
  <2>2. CASE n # m
    <3>1. limits'[n] \subseteq limits[n]
      BY <1>5, <2>2
    <3> QED
      BY <1>2, <3>1 DEF Apart
  <2> QED
    BY <2>1, <2>2
<1>10. limits' \in [Months -> SUBSET Known(tree)]
  BY <1>6, <1>9
<1> QED
  BY <1>1, <1>9, <1>10 DEF BudgetsInv

LEMMA BudgetsStep ==
  ASSUME BudgetsInv, BudgetsNext
  PROVE  BudgetsInv'
<1>1. ASSUME NEW c \in Categories, DraftBudget(c)
      PROVE  BudgetsInv'
  BY <1>1 DEF BudgetsInv, DraftBudget, Known
<1>2. ASSUME DeleteAllCategories
      PROVE  BudgetsInv'
  <2>1. Known(tree') = {} /\ UNCHANGED limits /\ drafted' = NoCategory
    BY <1>2 DEF DeleteAllCategories, Known
  <2>2. tree' \in [Categories -> CategoryRows \union {NoCategory}] /\ IsForest(tree')
    BY <1>2, <2>1 DEF DeleteAllCategories, IsForest
  <2>3. \A m \in Months : limits[m] = {}
    BY <1>2 DEF DeleteAllCategories
  <2> QED
    BY <2>1, <2>2, <2>3 DEF BudgetsInv, Apart
<1>3. ASSUME NEW c \in Categories, NEW m \in Months, DeleteBudget(c, m)
      PROVE  BudgetsInv'
  <2>1. \A n \in Months : limits'[n] \subseteq limits[n]
    BY <1>3 DEF BudgetsInv, DeleteBudget
  <2>2. limits' \in [Months -> SUBSET Known(tree)] /\ UNCHANGED <<tree, drafted>>
    BY <1>3 DEF BudgetsInv, DeleteBudget
  <2> QED
    BY <2>1, <2>2 DEF BudgetsInv, Apart
<1>4. ASSUME NEW m \in Months, CopyPrevious(m)
      PROVE  BudgetsInv'
  <2>1. limits' \in [Months -> SUBSET Known(tree)] /\ \A n \in Months : Apart(tree, limits'[n])
    <3>1. m - 1 \in Months
      BY <1>4 DEF CopyPrevious
    <3> QED
      BY <1>4, <3>1, CopyIsApart
  <2> QED
    BY <1>4, <2>1 DEF BudgetsInv, CopyPrevious
<1> QED
  BY <1>1, <1>2, <1>3, <1>4, SaveCategoryStep, DeleteCategoryStep, ImportStep, SaveBudgetStep
  DEF BudgetsNext

LEMMA BudgetsInvMeans == BudgetsInv => LimitsAreApart
<1> SUFFICES ASSUME BudgetsInv
             PROVE  LimitsAreApart
  OBVIOUS
<1>1. \A m \in Months : limits[m] \in SUBSET Known(tree) /\ Apart(tree, limits[m])
  BY DEF BudgetsInv
<1> QED
  BY <1>1, ApartMeans DEF BudgetsInv, LimitsAreApart

\* However categories are moved, deleted and imported, and limits set, changed
\* and copied, no limited category of a month is above another, and the
\* categories are a forest (planning/models.py, CategoryBudget.clean).
THEOREM OneLimitPerBranch == Spec => []LimitsAreApart
<1>1. Init => BudgetsInv
  BY BudgetsBegin DEF Init
<1>2. BudgetsInv /\ [Next]_vars => BudgetsInv'
  <2>1. BudgetsInv /\ UNCHANGED budgetVars => BudgetsInv'
    BY DEF BudgetsInv, budgetVars
  <2> QED
    BY <2>1, BudgetsStep DEF Next, vars
<1> QED
  BY <1>1, <1>2, BudgetsInvMeans, PTL DEF Spec

-----------------------------------------------------------------------------
(* The reservations of a source.                                           *)

Kept(rows) == {a \in AllocationIds : rows[a] # None}
AmountIn(rows) == [a \in AllocationIds |-> IF rows[a] = None THEN 0 ELSE rows[a].amount]
Total(rows, S) == SumFunctionOnSet(AmountIn(rows), S)
Pledges(rows, gs, s) == {a \in Kept(rows) : rows[a].source = s /\ gs[rows[a].goal] = "active"}

AreRows(rows) == rows \in [AllocationIds -> Allocation \union {None}]

LEMMA KeptRows ==
  ASSUME NEW rows, AreRows(rows), NEW a \in Kept(rows)
  PROVE  /\ rows[a] \in Allocation /\ rows[a].amount \in Nat /\ rows[a].amount > 0
         /\ rows[a].goal \in GoalIds /\ rows[a].source \in Sources
         /\ AmountIn(rows)[a] = rows[a].amount
<1>1. a \in AllocationIds /\ rows[a] # None /\ rows[a] \in Allocation
  BY DEF AreRows, Kept
<1>2. rows[a].goal \in GoalIds /\ rows[a].source \in Sources /\ rows[a].amount \in Amounts
  BY <1>1 DEF Allocation
<1>3. rows[a].amount \in Nat /\ rows[a].amount > 0
  <2>1. \A n \in Amounts : n \in Nat /\ n # 0
    BY AmountsArePositive
  <2>2. \A n \in Nat : n # 0 => n > 0
    OBVIOUS
  <2> QED
    BY <1>2, <2>1, <2>2
<1> QED
  BY <1>1, <1>2, <1>3 DEF AmountIn

LEMMA AmountsAreNumbers ==
  ASSUME NEW rows, AreRows(rows)
  PROVE  \A a \in AllocationIds : AmountIn(rows)[a] \in Nat /\ AmountIn(rows)[a] \in Int
<1> TAKE a \in AllocationIds
<1>1. CASE a \in Kept(rows)
  BY <1>1, KeptRows
<1>2. CASE a \notin Kept(rows)
  BY <1>2 DEF Kept, AmountIn
<1> QED
  BY <1>1, <1>2

LEMMA TotalIsNumber ==
  ASSUME NEW rows, AreRows(rows), NEW S \in SUBSET AllocationIds
  PROVE  Total(rows, S) \in Nat
<1>1. PICK f : f = AmountIn(rows)
  OBVIOUS
<1>2. \A a \in AllocationIds : f[a] \in Nat
  BY <1>1, AmountsAreNumbers
<1>3. SumFunctionOnSet(f, S) \in Nat
  BY <1>2, AllocationsAreNumbered, SumIsNat
<1> QED
  BY <1>1, <1>3 DEF Total

\* A sum over fewer rows, as they were.
LEMMA TotalOfFewer ==
  ASSUME NEW rows, AreRows(rows), NEW old, AreRows(old), NEW S \in SUBSET AllocationIds,
         NEW T \in SUBSET S, \A a \in T : rows[a] = old[a]
  PROVE  Total(rows, T) =< Total(old, S)
<1>1. PICK f : f = AmountIn(rows)
  OBVIOUS
<1>2. PICK g : g = AmountIn(old)
  OBVIOUS
<1>3. \A a \in AllocationIds : f[a] \in Int /\ g[a] \in Nat
  BY <1>1, <1>2, AmountsAreNumbers
<1>4. \A a \in T : f[a] = g[a]
  BY <1>1, <1>2 DEF AmountIn
<1>5. IsFiniteSet(S) /\ IsFiniteSet(T)
  BY AllocationsAreNumbered, FS_Subset
<1>6. SumFunctionOnSet(f, T) = SumFunctionOnSet(g, T)
  <2>1. \A a \in T : f[a] = g[a] /\ f[a] \in Int
    BY <1>3, <1>4
  <2> QED
    BY <1>5, <2>1, SumOfSame
<1>7. SumFunctionOnSet(g, T) =< SumFunctionOnSet(g, S)
  <2>1. \A a \in S : g[a] \in Nat
    BY <1>3
  <2> QED
    BY <1>5, <2>1, SumOfFewer
<1> QED
  BY <1>1, <1>2, <1>6, <1>7 DEF Total

LEMMA TotalWith ==
  ASSUME NEW rows, AreRows(rows), NEW S \in SUBSET AllocationIds, NEW a \in S
  PROVE  Total(rows, S) = AmountIn(rows)[a] + Total(rows, S \ {a})
<1>1. PICK f : f = AmountIn(rows)
  OBVIOUS
<1>2. \A b \in S : f[b] \in Int
  BY <1>1, AmountsAreNumbers
<1>3. IsFiniteSet(S)
  BY AllocationsAreNumbered, FS_Subset
<1>4. SumFunctionOnSet(f, S) = f[a] + SumFunctionOnSet(f, S \ {a})
  BY <1>2, <1>3, SumLess
<1> QED
  BY <1>1, <1>4 DEF Total

LEMMA TotalOfNothing == \A rows : Total(rows, {}) = 0
BY SumOfNothing DEF Total

\* What a set of reservations takes, as the model adds it up.
LEMMA ReservingRows ==
  ASSUME NEW rows, AreRows(rows), NEW S \in SUBSET Kept(rows)
  PROVE  SumFunction([a \in S |-> rows[a].amount]) = Total(rows, S)
<1>1. PICK f : f = [a \in S |-> rows[a].amount]
  OBVIOUS
<1>2. PICK g : g = AmountIn(rows)
  OBVIOUS
<1>3. \A a \in S : f[a] = g[a] /\ f[a] \in Int
  BY <1>1, <1>2, KeptRows
<1>4. IsFiniteSet(S) /\ DOMAIN f = S
  BY <1>1, AllocationsAreNumbered, FS_Subset DEF Kept
<1>5. SumFunctionOnSet(f, S) = SumFunctionOnSet(g, S)
  BY <1>3, <1>4, SumOfSame
<1>6. SumFunction(f) = SumFunctionOnSet(f, S)
  BY <1>4 DEF SumFunction
<1> QED
  BY <1>1, <1>2, <1>5, <1>6 DEF Total

GoalsInv ==
    /\ balance \in [Sources -> Int]
    /\ goals \in [GoalIds -> {"active", "archived", None}]
    /\ AreRows(allocations)
    /\ allocated \in Nat /\ \A a \in Held : a =< allocated
    /\ settings \in [Sources -> [enabled : BOOLEAN, reserved : Nat]]
    /\ loaded \in Loaded \union {None}
    /\ loaded # None => goals[loaded.goal] # None
    /\ \A a \in Held : goals[allocations[a].goal] # None
    /\ \A a, b \in Held : /\ allocations[a].goal = allocations[b].goal
                          /\ allocations[a].source = allocations[b].source
                          => a = b

LEMMA DeclaredIs ==
  ASSUME AreRows(allocations)
  PROVE  /\ Held = Kept(allocations)
         /\ \A s : ActiveOn(s) = Pledges(allocations, goals, s)
         /\ \A s : ActiveOn(s) \in SUBSET Kept(allocations)
         /\ \A s : Declared(s) = Total(allocations, Pledges(allocations, goals, s))
         /\ \A g, s, a : Others(g, s, a) = Total(allocations, Pledges(allocations, goals, s) \ {a})
<1>1. Held = Kept(allocations)
  BY DEF Held, Kept
<1>2. \A s : ActiveOn(s) = Pledges(allocations, goals, s) /\ ActiveOn(s) \in SUBSET Kept(allocations)
  BY <1>1 DEF ActiveOn, Pledges
<1>3. \A S \in SUBSET Kept(allocations) : Reserving(S) = Total(allocations, S)
  BY ReservingRows DEF Reserving
<1> QED
  BY <1>1, <1>2, <1>3 DEF Declared, Others

LEMMA PositiveIs == \A n \in Int : Positive(n) = IF n > 0 THEN n ELSE 0
<1> TAKE n \in Int
<1> DEFINE m == IF n > 0 THEN n ELSE 0
<1>1. m \in {n, 0} /\ \A y \in {n, 0} : m >= y
  OBVIOUS
<1>2. \A x \in {n, 0} : (\A y \in {n, 0} : x >= y) => x = m
  BY <1>1
<1> HIDE DEF m
<1>3. (CHOOSE x \in {n, 0} : \A y \in {n, 0} : x >= y) = m
  BY <1>1, <1>2
<1> QED
  BY <1>3 DEF Positive, Max, m

\* A step that takes no more of any source than before.
LEMMA NoMorePledged ==
  ASSUME AreRows(allocations), AreRows(allocations'), NEW s \in Sources,
         Pledges(allocations', goals', s) \subseteq Pledges(allocations, goals, s),
         \A a \in Pledges(allocations', goals', s) : allocations'[a] = allocations[a]
  PROVE  ~(Declared(s)' > Declared(s))
<1> DEFINE S == Pledges(allocations, goals, s)
           T == Pledges(allocations', goals', s)
<1>1. S \in SUBSET AllocationIds /\ T \in SUBSET S /\ \A a \in T : allocations'[a] = allocations[a]
  BY DEF Pledges, Kept
<1>2. Declared(s) = Total(allocations, S)
  BY DeclaredIs
<1>3. Declared(s)' = Total(allocations', T)
  <2>1. Held' = Kept(allocations')
    BY DEF Held, Kept
  <2>2. ActiveOn(s)' = T /\ T \in SUBSET Kept(allocations')
    BY <2>1 DEF ActiveOn, Pledges
  <2>3. SumFunction([a \in T |-> allocations'[a].amount]) = Total(allocations', T)
    BY <2>2, ReservingRows
  <2> QED
    BY <2>2, <2>3 DEF Declared, Reserving
<1> HIDE DEF S, T
<1>4. Total(allocations', T) =< Total(allocations, S)
  BY <1>1, TotalOfFewer
<1>5. Total(allocations', T) \in Nat /\ Total(allocations, S) \in Nat
  <2>1. T \in SUBSET AllocationIds
    BY <1>1
  <2> QED
    BY <1>1, <2>1, TotalIsNumber
<1> QED
  BY <1>2, <1>3, <1>4, <1>5

\* A reservation that is saved leaves its source within its balance, and takes
\* no more of the others.
LEMMA ReserveStep ==
  ASSUME GoalsInv, AreRows(allocations'), NEW g \in GoalIds, NEW s \in Sources, NEW a, NEW n \in Amounts,
         Reserve(g, s, a, n), UNCHANGED balance, NEW s0 \in Sources,
         \A b \in Held \ {a} : goals'[allocations[b].goal] = goals[allocations[b].goal],
         Declared(s0)' > Declared(s0)
  PROVE  Declared(s0)' =< Positive(balance[s0])'
<1> DEFINE S == Pledges(allocations, goals, s0)
           T == Pledges(allocations', goals', s0)
<1>1. /\ a \in AllocationIds /\ MayReserve(g, s, a, n)
      /\ allocations' = [allocations EXCEPT ![a] = [goal |-> g, source |-> s, amount |-> n]]
  BY DEF Reserve
<1>2. AreRows(allocations) /\ balance[s0] \in Int
  BY DEF GoalsInv
<1>3. /\ allocations'[a] = [goal |-> g, source |-> s, amount |-> n]
      /\ allocations'[a] # None
      /\ \A b \in AllocationIds \ {a} : allocations'[b] = allocations[b]
  <2>1. [goal |-> g, source |-> s, amount |-> n] \in Allocation
    BY DEF Allocation
  <2> QED
    BY <1>1, <1>2, <2>1, NoneIsNothing DEF AreRows
<1>4. T \ {a} = S \ {a} /\ (a \in T => s0 = s) /\ T \subseteq AllocationIds /\ S \subseteq AllocationIds
  <2>1. \A b \in AllocationIds \ {a} : b \in T <=> b \in S
    BY <1>3, DeclaredIs, <1>2 DEF Pledges, Kept, Held
  <2>2. a \in T => s0 = s
    BY <1>3 DEF Pledges
  <2> QED
    BY <2>1, <2>2 DEF Pledges, Kept
<1>5. s0 = s /\ a \in T
  <2> SUFFICES ASSUME a \notin T
               PROVE  FALSE
    BY <1>4
  <2>1. T \subseteq S /\ \A b \in T : allocations'[b] = allocations[b]
    BY <1>3, <1>4
  <2> QED
    BY <1>2, <2>1, NoMorePledged
<1>6. Declared(s0)' = Total(allocations', T)
  <2>1. Held' = Kept(allocations')
    BY DEF Held, Kept
  <2>2. ActiveOn(s0)' = T /\ T \in SUBSET Kept(allocations')
    BY <2>1 DEF ActiveOn, Pledges
  <2>3. SumFunction([b \in T |-> allocations'[b].amount]) = Total(allocations', T)
    BY <2>2, ReservingRows
  <2> QED
    BY <2>2, <2>3 DEF Declared, Reserving
<1>7. Others(g, s, a) = Total(allocations, S \ {a})
  BY <1>2, <1>5, DeclaredIs
<1> HIDE DEF S, T
<1>8. Total(allocations', T) = n + Total(allocations', T \ {a})
  <2>1. AmountIn(allocations')[a] = n
    BY <1>1, <1>3 DEF AmountIn
  <2> QED
    BY <1>4, <1>5, <2>1, TotalWith
<1>9. Total(allocations', T \ {a}) =< Total(allocations, S \ {a})
  <2>1. S \ {a} \in SUBSET AllocationIds /\ T \ {a} \in SUBSET (S \ {a})
    BY <1>4
  <2>2. \A b \in T \ {a} : allocations'[b] = allocations[b]
    BY <1>3, <1>4
  <2> QED
    BY <1>2, <2>1, <2>2, TotalOfFewer
<1>10. Total(allocations', T \ {a}) \in Nat /\ Total(allocations, S \ {a}) \in Nat
  <2>1. S \ {a} \in SUBSET AllocationIds /\ T \ {a} \in SUBSET AllocationIds
    BY <1>4
  <2> QED
    BY <1>2, <2>1, TotalIsNumber
<1>11. n + Total(allocations, S \ {a}) =< Positive(balance[s0])
  BY <1>1, <1>5, <1>7 DEF MayReserve
<1>12. Positive(balance[s0]) \in Int /\ n \in Nat /\ Positive(balance[s0])' = Positive(balance[s0])
  BY <1>2, PositiveIs, AmountsArePositive
<1> QED
  BY <1>6, <1>8, <1>9, <1>10, <1>11, <1>12

\* Reserving keeps the shape of the reservations.
LEMMA ReserveKeeps ==
  ASSUME GoalsInv, NEW g \in GoalIds, NEW s \in Sources, NEW a, NEW n \in Amounts,
         Reserve(g, s, a, n), goals' \in [GoalIds -> {"active", "archived", None}],
         goals'[g] # None, \A h \in GoalIds : goals[h] # None => goals'[h] # None
  PROVE  /\ AreRows(allocations')
         /\ allocated' \in Nat /\ \A b \in Held' : b =< allocated'
         /\ \A b \in Held' : goals'[allocations'[b].goal] # None
         /\ \A b, c \in Held' : /\ allocations'[b].goal = allocations'[c].goal
                                /\ allocations'[b].source = allocations'[c].source
                                => b = c
<1> DEFINE row == [goal |-> g, source |-> s, amount |-> n]
<1>1. /\ a \in AllocationIds /\ IsOnlyOne(g, s, a) /\ allocations' = [allocations EXCEPT ![a] = row]
      /\ allocated' = IF a > allocated THEN a ELSE allocated
  BY DEF Reserve
<1>2. row \in Allocation /\ row # None /\ row.goal = g /\ row.source = s
  BY NoneIsNothing DEF Allocation
<1> HIDE DEF row
<1>3. AreRows(allocations) /\ AreRows(allocations')
  BY <1>1, <1>2 DEF GoalsInv, AreRows
<1>4. allocations'[a] = row /\ \A b \in AllocationIds \ {a} : allocations'[b] = allocations[b]
  BY <1>1, <1>3 DEF AreRows
<1>5. Held' = Held \union {a}
  BY <1>1, <1>2, <1>4 DEF Held
<1>6. a \in Nat /\ allocated \in Nat /\ \A b \in Held : b \in Nat /\ b =< allocated
  <2>1. AllocationIds \subseteq Nat
    BY AllocationsAreNumbered, FS_CardinalityType
  <2> QED
    BY <1>1, <2>1 DEF GoalsInv, Held
<1>7. allocated' \in Nat /\ \A b \in Held' : b =< allocated'
  BY <1>1, <1>5, <1>6
<1>8. \A b \in Held : allocations[b].goal \in GoalIds
  BY <1>3, DeclaredIs, KeptRows
<1>9. \A b \in Held' : goals'[allocations'[b].goal] # None
  BY <1>2, <1>4, <1>5, <1>8 DEF GoalsInv, Held
<1>10. \A b \in Held \ {a} : ~(allocations[b].goal = g /\ allocations[b].source = s)
  BY <1>1 DEF IsOnlyOne, Of
<1>11. \A b, c \in Held' : /\ allocations'[b].goal = allocations'[c].goal
                           /\ allocations'[b].source = allocations'[c].source
                           => b = c
  BY <1>2, <1>4, <1>5, <1>10 DEF GoalsInv, Held
<1> QED
  BY <1>3, <1>7, <1>9, <1>11

LEMMA GoalsBegin == GoalsInit => GoalsInv
<1> SUFFICES ASSUME GoalsInit
             PROVE  GoalsInv
  OBVIOUS
<1>1. Held = {}
  BY DEF GoalsInit, Held
<1> QED
  BY <1>1 DEF GoalsInit, GoalsInv, AreRows

AmountsAreNatural == \A n \in Amounts : n \in Nat /\ n > 0

LEMMA PositiveAmounts == AmountsAreNatural
<1>1. \A n \in Amounts : n \in Nat /\ n # 0
  BY AmountsArePositive
<1>2. \A n \in Nat : n # 0 => n > 0
  OBVIOUS
<1> QED
  BY <1>1, <1>2 DEF AmountsAreNatural

LEMMA MoneyStep ==
  ASSUME GoalsInv, UNCHANGED <<goals, allocations, allocated>>,
         balance' \in [Sources -> Int],
         settings' \in [Sources -> [enabled : BOOLEAN, reserved : Nat]],
         loaded' \in Loaded \union {None}, loaded' # None => goals[loaded'.goal] # None
  PROVE  GoalsInv'
BY DEF GoalsInv, AreRows, Held

LEMMA GoalsStep ==
  ASSUME GoalsInv, GoalsNext
  PROVE  GoalsInv'
<1> USE PositiveAmounts DEF AmountsAreNatural
<1>1. ASSUME NEW from \in Accounts, NEW to \in Accounts, NEW n \in Amounts, Transfer(from, to, n)
      PROVE  GoalsInv'
  <2>1. balance' \in [Sources -> Int]
    BY <1>1 DEF GoalsInv, Transfer, Sources
  <2> QED
    BY <1>1, <2>1, MoneyStep DEF GoalsInv, Transfer
<1>2. ASSUME NEW s \in Sources, NEW n \in Int, Post(s, n)
      PROVE  GoalsInv'
  <2>1. balance' \in [Sources -> Int]
    BY <1>2 DEF GoalsInv, Post
  <2> QED
    BY <1>2, <2>1, MoneyStep DEF GoalsInv, Post
<1>3. ASSUME NEW g \in GoalIds, CreateGoal(g)
      PROVE  GoalsInv'
  <2>1. /\ goals' \in [GoalIds -> {"active", "archived", None}] /\ goals'[g] # None
        /\ \A h \in GoalIds : goals[h] # None => goals'[h] # None
        /\ UNCHANGED <<balance, settings, loaded>>
    BY <1>3, NoneIsNothing DEF GoalsInv, CreateGoal
  <2>2. CASE UNCHANGED <<allocations, allocated>>
    <3>1. \A a \in Held : allocations[a].goal \in GoalIds
      BY DeclaredIs, KeptRows DEF GoalsInv
    <3>2. loaded # None => loaded.goal \in GoalIds
      BY DEF GoalsInv, Loaded
    <3> QED
      BY <2>1, <2>2, <3>1, <3>2 DEF GoalsInv, AreRows, Held
  <2>3. ASSUME NEW s \in Sources, NEW n \in Amounts, Reserve(g, s, allocated + 1, n)
        PROVE  GoalsInv'
    <3>1. loaded # None => loaded.goal \in GoalIds
      BY DEF GoalsInv, Loaded
    <3> QED
      BY <2>1, <2>3, <3>1, ReserveKeeps DEF GoalsInv
  <2> QED
    BY <1>3, <2>2, <2>3 DEF CreateGoal
<1>4. ASSUME NEW g \in GoalIds, Archive(g) \/ Restore(g)
      PROVE  GoalsInv'
  <2>1. /\ goals' \in [GoalIds -> {"active", "archived", None}]
        /\ \A h \in GoalIds : goals[h] # None => goals'[h] # None
        /\ UNCHANGED <<balance, settings, loaded, allocations, allocated>>
    BY <1>4, NoneIsNothing DEF GoalsInv, Archive, Restore
  <2>2. \A a \in Held : allocations[a].goal \in GoalIds
    BY DeclaredIs, KeptRows DEF GoalsInv
  <2>3. loaded # None => loaded.goal \in GoalIds
    BY DEF GoalsInv, Loaded
  <2> QED
    BY <2>1, <2>2, <2>3 DEF GoalsInv, AreRows, Held
<1>5. ASSUME NEW g \in GoalIds, NEW a \in Held \union {None}, Load(g, a)
      PROVE  GoalsInv'
  <2>1. goals[g] \in {"active", "archived"}
    BY <1>5 DEF Load, GoalsInv
  <2>2. loaded' \in Loaded /\ loaded'.goal = g
    BY <1>5, <2>1 DEF Load, Loaded, Held
  <2> QED
    BY <1>5, <2>2, MoneyStep DEF Load, GoalsInv
<1>6. ASSUME NEW s \in Sources, NEW n \in Amounts, SaveAllocation(s, n)
      PROVE  GoalsInv'
  <2>1. loaded \in Loaded /\ loaded.goal \in GoalIds /\ goals[loaded.goal] # None
    BY <1>6 DEF SaveAllocation, GoalsInv, Loaded
  <2>2. /\ Reserve(loaded.goal, s, IF loaded.allocation = None THEN allocated + 1 ELSE loaded.allocation, n)
        /\ loaded' = None /\ UNCHANGED <<balance, goals, settings>>
    BY <1>6 DEF SaveAllocation
  <2>3. goals' \in [GoalIds -> {"active", "archived", None}]
    BY <2>2 DEF GoalsInv
  <2> QED
    BY <2>1, <2>2, <2>3, ReserveKeeps DEF GoalsInv
<1>7. ASSUME SaveGoal
      PROVE  GoalsInv'
  <2>1. loaded \in Loaded /\ loaded.goal \in GoalIds /\ loaded.status \in {"active", "archived"}
    BY <1>7 DEF SaveGoal, GoalsInv, Loaded
  <2>2. /\ goals' \in [GoalIds -> {"active", "archived", None}]
        /\ \A h \in GoalIds : goals[h] # None => goals'[h] # None
        /\ UNCHANGED <<balance, settings, allocations, allocated>> /\ loaded' = None
    BY <1>7, <2>1, NoneIsNothing DEF GoalsInv, SaveGoal
  <2>3. \A a \in Held : allocations[a].goal \in GoalIds
    BY DeclaredIs, KeptRows DEF GoalsInv
  <2> QED
    BY <2>2, <2>3 DEF GoalsInv, AreRows, Held
<1>8. ASSUME NEW a \in AllocationIds, DeleteAllocation(a)
      PROVE  GoalsInv'
  <2>1. /\ AreRows(allocations') /\ Held' \subseteq Held
        /\ \A b \in Held' : allocations'[b] = allocations[b]
    BY <1>8 DEF DeleteAllocation, GoalsInv, AreRows, Held
  <2> QED
    BY <1>8, <2>1 DEF DeleteAllocation, GoalsInv
<1>9. ASSUME NEW s \in Sources, NEW enabled \in BOOLEAN, SetPlanning(s, enabled)
      PROVE  GoalsInv'
  <2>1. settings' \in [Sources -> [enabled : BOOLEAN, reserved : Nat]]
    BY <1>9 DEF SetPlanning, GoalsInv
  <2> QED
    BY <1>9, <2>1, MoneyStep DEF SetPlanning, GoalsInv
<1>10. ASSUME NEW s \in Sources, NEW n \in Amounts \union {0}, SetReserve(s, n)
       PROVE  GoalsInv'
  <2>1. settings' \in [Sources -> [enabled : BOOLEAN, reserved : Nat]]
    BY <1>10 DEF SetReserve, GoalsInv
  <2> QED
    BY <1>10, <2>1, MoneyStep DEF SetReserve, GoalsInv
<1>11. \A n \in Amounts : n \in Int /\ -n \in Int
  OBVIOUS
<1> QED
  BY <1>1, <1>2, <1>3, <1>4, <1>5, <1>6, <1>7, <1>8, <1>9, <1>10, <1>11 DEF GoalsNext

\* A source's reservations grow within its balance or a form revives a goal.
Grows(s) == Declared(s)' > Declared(s)
Promised(s) == Declared(s)' =< Positive(balance[s])' \/ RevivedByForm

\* Restoring a goal adds at most one reservation to a source, which fits beside
\* the others there.
LEMMA RestorePromises ==
  ASSUME GoalsInv, NEW g \in GoalIds, Restore(g), NEW s \in Sources, Grows(s)
  PROVE  Promised(s)
<1> DEFINE S == Pledges(allocations, goals, s)
           T == Pledges(allocations, goals', s)
<1>1. /\ goals[g] = "archived" /\ goals' = [goals EXCEPT ![g] = "active"]
      /\ UNCHANGED <<balance, allocations, allocated, settings, loaded>>
      /\ \A a \in Of(g) : MayReserve(g, allocations[a].source, a, allocations[a].amount)
  BY DEF Restore
<1>2. AreRows(allocations) /\ AreRows(allocations') /\ balance[s] \in Int /\ Held = Kept(allocations)
  BY <1>1, DeclaredIs DEF GoalsInv
<1>3. /\ goals'[g] = "active" /\ \A h \in GoalIds \ {g} : goals'[h] = goals[h]
      /\ \A a \in Held : allocations[a].goal \in GoalIds
  BY <1>1, <1>2, KeptRows DEF GoalsInv
<1>4. S \subseteq T /\ \A a \in T \ S : a \in Of(g) /\ allocations[a].source = s
  BY <1>1, <1>2, <1>3 DEF Pledges, Of
<1>5. PICK a \in T : a \notin S
  <2> SUFFICES ASSUME T \subseteq S
               PROVE  FALSE
    OBVIOUS
  <2>1. Pledges(allocations', goals', s) \subseteq Pledges(allocations, goals, s)
    BY <1>1
  <2> QED
    BY <1>1, <1>2, <2>1, NoMorePledged DEF Grows
<1>6. T = S \union {a} /\ a \in Of(g) /\ allocations[a].source = s
  <2>1. \A b \in T \ S : b = a
    BY <1>4, <1>5 DEF Of, GoalsInv
  <2> QED
    BY <1>4, <1>5, <2>1
<1>7. allocations[a].amount + Others(g, s, a) =< Positive(balance[s])
  BY <1>1, <1>6 DEF MayReserve
<1>8. Others(g, s, a) = Total(allocations, S) /\ T \ {a} = S
  <2>1. S \ {a} = S
    BY <1>5
  <2> QED
    BY <1>2, <1>5, <1>6, <2>1, DeclaredIs
<1>9. Declared(s)' = Total(allocations, T)
  <2>1. Held' = Kept(allocations) /\ ActiveOn(s)' = T /\ T \in SUBSET Kept(allocations)
    BY <1>1, <1>2 DEF Held, Kept, ActiveOn, Pledges
  <2>2. SumFunction([b \in T |-> allocations[b].amount]) = Total(allocations, T)
    BY <1>2, <2>1, ReservingRows
  <2> QED
    BY <1>1, <2>1, <2>2 DEF Declared, Reserving
<1>10. Total(allocations, T) = allocations[a].amount + Total(allocations, T \ {a})
  <2>1. T \in SUBSET AllocationIds /\ a \in Kept(allocations)
    BY <1>5 DEF Pledges, Kept
  <2>2. AmountIn(allocations)[a] = allocations[a].amount
    BY <1>2, <2>1, KeptRows
  <2> HIDE DEF T
  <2> QED
    BY <1>2, <1>5, <2>1, <2>2, TotalWith
<1> QED
  BY <1>1, <1>7, <1>8, <1>9, <1>10 DEF Promised

LEMMA PledgesStep ==
  ASSUME GoalsInv, GoalsNext, NEW s \in Sources, Grows(s)
  PROVE  Promised(s)
<1>0. GoalsInv' /\ AreRows(allocations) /\ AreRows(allocations') /\ Held = Kept(allocations)
  BY GoalsStep, DeclaredIs DEF GoalsInv
<1>1. \A a \in Held : allocations[a].goal \in GoalIds /\ goals[allocations[a].goal] # None
  BY <1>0, KeptRows DEF GoalsInv
<1>2. ASSUME UNCHANGED allocations,
             \A a \in Held : goals'[allocations[a].goal] = "active" => goals[allocations[a].goal] = "active"
      PROVE  FALSE
  <2>1. Pledges(allocations', goals', s) \subseteq Pledges(allocations, goals, s)
    BY <1>0, <1>2 DEF Pledges
  <2> QED
    BY <1>0, <1>2, <2>1, NoMorePledged DEF Grows
<1>3. ASSUME UNCHANGED <<goals, allocations>>
      PROVE  FALSE
  BY <1>2, <1>3
<1>4. ASSUME NEW g \in GoalIds, CreateGoal(g)
      PROVE  Promised(s)
  <2>1. goals[g] = None /\ goals' = [goals EXCEPT ![g] = "active"] /\ UNCHANGED balance
    BY <1>4 DEF CreateGoal
  <2>2. \A a \in Held : goals'[allocations[a].goal] = goals[allocations[a].goal]
    BY <1>1, <2>1 DEF GoalsInv
  <2>3. ASSUME NEW s1 \in Sources, NEW n \in Amounts, Reserve(g, s1, allocated + 1, n)
        PROVE  Promised(s)
    BY <1>0, <2>1, <2>2, <2>3, ReserveStep DEF Grows, Promised
  <2> QED
    BY <1>2, <1>4, <2>2, <2>3 DEF CreateGoal
<1>5. ASSUME NEW g \in GoalIds, Archive(g)
      PROVE  FALSE
  <2>1. \A a \in Held : goals'[allocations[a].goal] = "active" => goals[allocations[a].goal] = "active"
    BY <1>1, <1>5 DEF Archive, GoalsInv
  <2> QED
    BY <1>2, <1>5, <2>1 DEF Archive
<1>6. ASSUME NEW s1 \in Sources, NEW n \in Amounts, SaveAllocation(s1, n)
      PROVE  Promised(s)
  <2>1. loaded.goal \in GoalIds
    BY <1>6 DEF SaveAllocation, GoalsInv, Loaded
  <2>2. /\ Reserve(loaded.goal, s1, IF loaded.allocation = None THEN allocated + 1 ELSE loaded.allocation, n)
        /\ UNCHANGED <<balance, goals>>
    BY <1>6 DEF SaveAllocation
  <2> QED
    BY <1>0, <2>1, <2>2, ReserveStep DEF Grows, Promised
<1>7. ASSUME SaveGoal
      PROVE  Promised(s)
  <2>1. /\ loaded \in Loaded /\ loaded.goal \in GoalIds /\ UNCHANGED <<balance, allocations>>
        /\ goals' = [goals EXCEPT ![loaded.goal] = loaded.status] /\ loaded # None /\ loaded' = None
        /\ loaded.status \in {"active", "archived"} /\ goals[loaded.goal] \in {"active", "archived"}
    BY <1>7 DEF SaveGoal, GoalsInv, Loaded
  <2>2. CASE loaded.status = "active" /\ goals[loaded.goal] = "archived"
    <3>1. goals'[loaded.goal] = "active"
      BY <2>1, <2>2 DEF GoalsInv
    <3> QED
      BY <2>1, <2>2, <3>1 DEF Promised, RevivedByForm
  <2>3. CASE ~(loaded.status = "active" /\ goals[loaded.goal] = "archived")
    <3>1. \A h \in GoalIds : goals'[h] = "active" => goals[h] = "active"
      BY <2>1, <2>3 DEF GoalsInv
    <3> QED
      BY <1>1, <1>2, <2>1, <3>1
  <2> QED
    BY <2>2, <2>3
<1>8. ASSUME NEW a \in AllocationIds, DeleteAllocation(a)
      PROVE  FALSE
  <2>1. /\ UNCHANGED goals
        /\ \A b \in AllocationIds : allocations'[b] # None => allocations'[b] = allocations[b]
    BY <1>8 DEF DeleteAllocation, GoalsInv, AreRows
  <2>2. /\ Pledges(allocations', goals', s) \subseteq Pledges(allocations, goals, s)
        /\ \A b \in Pledges(allocations', goals', s) : allocations'[b] = allocations[b]
    BY <2>1 DEF Pledges, Kept
  <2> QED
    BY <1>0, <2>2, NoMorePledged DEF Grows
<1>9. ASSUME NEW g \in GoalIds, Restore(g)
      PROVE  Promised(s)
  BY <1>9, RestorePromises
<1> QED
  BY <1>3, <1>4, <1>5, <1>6, <1>7, <1>8, <1>9
  DEF GoalsNext, Transfer, Post, Load, SetPlanning, SetReserve

LEMMA GoalsInvariance == Spec => []GoalsInv
<1>1. Init => GoalsInv
  BY GoalsBegin DEF Init
<1>2. GoalsInv /\ [Next]_vars => GoalsInv'
  <2>1. GoalsInv /\ UNCHANGED goalVars => GoalsInv'
    BY DEF GoalsInv, goalVars, AreRows, Held
  <2> QED
    BY <2>1, GoalsStep DEF Next, vars
<1> QED
  BY <1>1, <1>2, PTL DEF Spec

\* Money is promised once: whatever is reserved, edited, archived, restored and
\* spent in any number of tabs, no step makes the reservations of a source grow
\* past its balance, but for the stale form that revives an archived goal.
THEOREM MoneyIsPledgedOnce == Spec => PledgedOnce
<1>1. GoalsInv /\ [Next]_vars =>
         [\A s \in Sources : Declared(s)' > Declared(s) =>
             Declared(s)' =< Positive(balance[s])' \/ RevivedByForm]_goalVars
  <2> SUFFICES ASSUME GoalsInv, [Next]_vars, goalVars' # goalVars, NEW s \in Sources,
                      Declared(s)' > Declared(s)
               PROVE  Declared(s)' =< Positive(balance[s])' \/ RevivedByForm
    OBVIOUS
  <2>1. GoalsNext
    BY DEF Next, vars
  <2> QED
    BY <2>1, PledgesStep DEF Grows, Promised
<1> QED
  BY <1>1, GoalsInvariance, PTL DEF Spec, PledgedOnce

-----------------------------------------------------------------------------
(* Rounding half to even.                                                  *)

LEMMA Times ==
  ASSUME NEW d \in Nat, NEW a \in Nat, NEW b \in Nat
  PROVE  /\ d * a \in Nat /\ d * (a + b) = d * a + d * b /\ d * 0 = 0 /\ d * 1 = d /\ d * a = a * d
OBVIOUS

LEMMA TimesLess ==
  ASSUME NEW d \in Nat, NEW a \in Nat, NEW b \in Nat, a < b
  PROVE  d * a + d =< d * b
<1>1. PICK k \in Nat : b = (a + 1) + k
  <2>1. b - (a + 1) \in Nat /\ b = (a + 1) + (b - (a + 1))
    OBVIOUS
  <2> QED
    BY <2>1
<1>2. d * b = d * (a + 1) + d * k
  BY <1>1, Times
<1>3. d * (a + 1) = d * a + d * 1 /\ d * 1 = d /\ d * k \in Nat /\ d * a \in Nat
  BY Times
<1> QED
  BY <1>2, <1>3

\* The rounded quotient is within half a divisor of what is divided.
LEMMA HalfEvenIsNear ==
  ASSUME NEW n \in Nat, NEW d \in Nat, d > 0
  PROVE  LET h == HalfEven(n, d)
         IN  h \in Nat /\ 2 * (d * h) =< 2 * n + d /\ 2 * n =< 2 * (d * h) + d
<1> DEFINE low == n \div d
           r == n % d
           h == HalfEven(n, d)
<1>1. low \in Nat /\ r \in Nat /\ r < d /\ n = d * low + r
  OBVIOUS
<1>2. h = IF 2 * r > d \/ (2 * r = d /\ low % 2 = 1) THEN low + 1 ELSE low
  BY DEF HalfEven
<1> HIDE DEF low, r, h
<1>3. d * (low + 1) = d * low + d /\ d * low \in Nat
  <2>1. d * (low + 1) = d * low + d * 1 /\ d * 1 = d /\ d * low \in Nat
    BY <1>1, Times
  <2> QED
    BY <2>1
<1>4. ASSUME h = low + 1 /\ 2 * r >= d
      PROVE  h \in Nat /\ 2 * (d * h) =< 2 * n + d /\ 2 * n =< 2 * (d * h) + d
  <2>1. PICK p \in Nat : p = d * low /\ d * h = p + d /\ n = p + r
    BY <1>1, <1>3, <1>4
  <2>2. 2 * (p + d) =< 2 * (p + r) + d /\ 2 * (p + r) =< 2 * (p + d) + d
    BY <1>1, <1>4
  <2> QED
    BY <1>1, <1>4, <2>1, <2>2
<1>5. ASSUME h = low /\ 2 * r =< d
      PROVE  h \in Nat /\ 2 * (d * h) =< 2 * n + d /\ 2 * n =< 2 * (d * h) + d
  <2>1. PICK p \in Nat : p = d * h /\ n = p + r
    BY <1>1, <1>3, <1>5
  <2>2. 2 * p =< 2 * (p + r) + d /\ 2 * (p + r) =< 2 * p + d
    BY <1>1, <1>5
  <2> QED
    BY <1>1, <1>5, <2>1, <2>2
<1>6. (h = low + 1 /\ 2 * r >= d) \/ (h = low /\ 2 * r =< d)
  BY <1>1, <1>2
<1> QED
  BY <1>4, <1>5, <1>6 DEF h

LEMMA HalfEvenIsExact ==
  ASSUME NEW k \in Nat, NEW d \in Nat, d > 0
  PROVE  HalfEven(d * k, d) = k
<1>1. PICK n \in Nat : n = d * k
  BY Times
<1>2. PICK h \in Nat : h = HalfEven(n, d) /\ 2 * (d * h) =< 2 * n + d /\ 2 * n =< 2 * (d * h) + d
  BY HalfEvenIsNear
<1>3. d * h \in Nat
  BY Times
<1>4. ~(h < k)
  BY <1>1, <1>2, <1>3, TimesLess
<1>5. ~(k < h)
  BY <1>1, <1>2, <1>3, TimesLess
<1>6. h = k
  BY <1>4, <1>5
<1> QED
  BY <1>1, <1>2, <1>6

\* A share of at most the whole: rounded, it never falls, and it rises by no
\* more than what it is a share of.
LEMMA SharesGrow ==
  ASSUME NEW B \in Nat, NEW D \in Nat, D > 0, B =< D, NEW p \in Nat, NEW k \in Nat, k > 0
  PROVE  /\ HalfEven(B * p, D) \in Nat /\ HalfEven(B * (p + k), D) \in Nat
         /\ HalfEven(B * p, D) =< HalfEven(B * (p + k), D)
         /\ HalfEven(B * (p + k), D) =< HalfEven(B * p, D) + k
<1>1. PICK n \in Nat, m \in Nat, b \in Nat : n = B * p /\ m = B * (p + k) /\ b = B * k /\ m = n + b
  <2>1. B * p \in Nat /\ B * k \in Nat /\ B * (p + k) = B * p + B * k
    BY Times
  <2> QED
    BY <2>1
<1>2. PICK h \in Nat : h = HalfEven(n, D) /\ 2 * (D * h) =< 2 * n + D /\ 2 * n =< 2 * (D * h) + D
  BY HalfEvenIsNear
<1>3. PICK i \in Nat : i = HalfEven(m, D) /\ 2 * (D * i) =< 2 * m + D /\ 2 * m =< 2 * (D * i) + D
  BY HalfEvenIsNear
<1>4. PICK dh \in Nat, di \in Nat, dk \in Nat : dh = D * h /\ di = D * i /\ dk = D * k
  BY Times
<1>5. h =< i
  <2> SUFFICES ASSUME i < h
               PROVE  FALSE
    OBVIOUS
  <2>1. di + D =< dh
    BY <1>4, TimesLess
  <2>2. b = 0
    BY <1>1, <1>2, <1>3, <1>4, <2>1
  <2>3. n = m
    BY <1>1, <2>2
  <2> QED
    BY <1>2, <1>3, <2>3
<1>6. i =< h + k
  <2>1. CASE B = D
    <3>1. n = D * p /\ m = D * (p + k) /\ p + k \in Nat
      BY <1>1, <2>1
    <3>2. HalfEven(D * p, D) = p /\ HalfEven(D * (p + k), D) = p + k
      BY <3>1, HalfEvenIsExact
    <3>3. h = p /\ i = p + k
      BY <1>2, <1>3, <3>1, <3>2
    <3> QED
      BY <3>3
  <2>2. CASE B < D
    <3> SUFFICES ASSUME h + k < i
                 PROVE  FALSE
      OBVIOUS
    <3>1. (dh + dk) + D =< di
      <4>1. D * (h + k) = dh + dk
        BY <1>4, Times
      <4>2. D * (h + k) + D =< D * i
        BY TimesLess
      <4> QED
        BY <1>4, <4>1, <4>2
    <3>2. dk =< b
      BY <1>1, <1>2, <1>3, <1>4, <3>1
    <3>3. b + k =< dk
      <4>1. k * B + k =< k * D
        BY <2>2, TimesLess
      <4> QED
        BY <1>1, <1>4, <4>1, Times
    <3> QED
      BY <3>2, <3>3
  <2> QED
    BY <2>1, <2>2
<1> QED
  BY <1>1, <1>2, <1>3, <1>5, <1>6

-----------------------------------------------------------------------------
(* What backs the reservations.                                            *)

LEMMA MinOfTwo == \A m, n \in Int : Min({m, n}) = IF m =< n THEN m ELSE n
<1> TAKE m, n \in Int
<1> DEFINE k == IF m =< n THEN m ELSE n
<1>1. k \in {m, n} /\ \A y \in {m, n} : k =< y
  OBVIOUS
<1>2. \A x \in {m, n} : (\A y \in {m, n} : x =< y) => x = k
  BY <1>1
<1> HIDE DEF k
<1>3. (CHOOSE x \in {m, n} : \A y \in {m, n} : x =< y) = k
  BY <1>1, <1>2
<1> QED
  BY <1>3 DEF Min, k

LEMMA MaxOfTwo == \A m, n \in Int : Max({m, n}) = IF m >= n THEN m ELSE n
<1> TAKE m, n \in Int
<1> DEFINE k == IF m >= n THEN m ELSE n
<1>1. k \in {m, n} /\ \A y \in {m, n} : k >= y
  OBVIOUS
<1>2. \A x \in {m, n} : (\A y \in {m, n} : x >= y) => x = k
  BY <1>1
<1> HIDE DEF k
<1>3. (CHOOSE x \in {m, n} : \A y \in {m, n} : x >= y) = k
  BY <1>1, <1>2
<1> QED
  BY <1>3 DEF Max, k

LEMMA MaxOfNumbers ==
  ASSUME NEW T \in SUBSET AllocationIds, T # {}
  PROVE  Max(T) \in T /\ \A t \in T : t \in Nat /\ t =< Max(T)
<1> DEFINE N == Cardinality(AllocationIds)
           Bounds == {k \in Nat : \A t \in T : t =< k}
<1>1. N \in Nat /\ \A t \in T : t \in Nat /\ t >= 1 /\ t =< N
  <2>1. N \in Nat
    BY AllocationsAreNumbered, FS_CardinalityType
  <2>2. T \subseteq 1..N
    BY AllocationsAreNumbered
  <2> HIDE DEF N
  <2> QED
    BY <2>1, <2>2
<1>2. Bounds \in SUBSET Nat /\ N \in Bounds
  BY <1>1
<1>3. PICK m \in Bounds : \A k \in Bounds : m =< k
  <2> HIDE DEF Bounds
  <2> QED
    BY <1>2, NaturalsHaveLeast
<1>4. m \in T
  <2> SUFFICES ASSUME m \notin T
               PROVE  FALSE
    OBVIOUS
  <2>1. m \in Nat /\ \A t \in T : t =< m - 1
    BY <1>1
  <2>2. m # 0
    BY <1>1, <2>1
  <2>3. m - 1 \in Bounds
    BY <2>1, <2>2
  <2> QED
    BY <1>3, <2>1, <2>3
<1>5. m \in Nat /\ \A t \in T : m >= t
  BY <1>1
<1>6. \A x \in T : (\A t \in T : x >= t) => x = m
  BY <1>1, <1>4, <1>5
<1>7. Max(T) = m
  BY <1>4, <1>5, <1>6 DEF Max
<1> QED
  BY <1>1, <1>4, <1>5, <1>7

\* Each reservation's part is the rise of the rounded share over it.
LEMMA BackedIsRise ==
  ASSUME GoalsInv, NEW s \in Sources, NEW a \in ActiveOn(s)
  PROVE  LET D == Declared(s)
             B == Backing(s)
             q == Total(allocations, {b \in ActiveOn(s) : b < a})
         IN  /\ D \in Nat /\ D > 0 /\ B \in Nat /\ B =< D /\ q \in Nat
             /\ B = Min({D, Positive(balance[s])})
             /\ allocations[a].amount \in Nat /\ allocations[a].amount > 0
             /\ Backed(s, a) = HalfEven(B * (q + allocations[a].amount), D) - HalfEven(B * q, D)
<1> DEFINE S == ActiveOn(s)
           D == Declared(s)
           B == Backing(s)
           before == {b \in S : b < a}
           q == Total(allocations, before)
           n == allocations[a].amount
<1>1. AreRows(allocations) /\ S = Pledges(allocations, goals, s) /\ S \in SUBSET Kept(allocations)
      /\ D = Total(allocations, S) /\ balance[s] \in Int
  BY DeclaredIs DEF GoalsInv
<1>2. S \in SUBSET AllocationIds /\ AllocationIds \subseteq Nat
  BY <1>1, AllocationsAreNumbered, FS_CardinalityType DEF Kept
<1>3. n \in Nat /\ n > 0 /\ AmountIn(allocations)[a] = n
  BY <1>1, KeptRows
<1>4. \A T \in SUBSET S : Reserving(T) = Total(allocations, T) /\ Total(allocations, T) \in Nat
  <2> TAKE T \in SUBSET S
  <2>1. T \in SUBSET Kept(allocations) /\ T \in SUBSET AllocationIds
    BY <1>1, <1>2
  <2> QED
    BY <1>1, <2>1, ReservingRows, TotalIsNumber DEF Reserving
<1>5. before \in SUBSET S /\ q \in Nat /\ D \in Nat
  <2>1. before \in SUBSET S /\ S \in SUBSET S
    OBVIOUS
  <2> QED
    BY <1>1, <1>4, <2>1
<1>6. {b \in S : b =< a} \in SUBSET S /\ Total(allocations, {b \in S : b =< a}) = n + q
  <2>0. a \in Nat /\ \A b \in S : b \in Nat /\ ((b =< a /\ b # a) <=> b < a)
    <3>1. a \in Nat /\ \A b \in S : b \in Nat
      BY <1>2
    <3>2. \A b \in Nat : (b =< a /\ b # a) <=> b < a
      BY <3>1
    <3> QED
      BY <3>1, <3>2
  <2>1. {b \in S : b =< a} \ {a} = before /\ a \in {b \in S : b =< a}
    <3>1. a \in S /\ a =< a
      BY <2>0
    <3>2. \A b : b \in {e \in S : e =< a} \ {a} <=> b \in before
      BY <2>0
    <3> QED
      BY <3>1, <3>2
  <2>2. {b \in S : b =< a} \in SUBSET AllocationIds
    BY <1>2
  <2>3. Total(allocations, {b \in S : b =< a})
          = AmountIn(allocations)[a] + Total(allocations, {b \in S : b =< a} \ {a})
    BY <1>1, <2>1, <2>2, TotalWith
  <2> QED
    BY <1>3, <2>1, <2>3
<1>7. n + q =< D
  <2>1. Total(allocations, {b \in S : b =< a}) =< Total(allocations, S)
    BY <1>1, <1>2, <1>6, TotalOfFewer
  <2> QED
    BY <1>1, <1>6, <2>1
<1>8. D > 0
  BY <1>3, <1>5, <1>7
<1>9. B = Min({D, Positive(balance[s])}) /\ B \in Nat /\ B =< D
  <2>1. Positive(balance[s]) \in Nat
    BY <1>1, PositiveIs
  <2>2. B = Min({D, Positive(balance[s])})
    BY DEF Backing
  <2>3. Min({D, Positive(balance[s])}) = IF D =< Positive(balance[s]) THEN D ELSE Positive(balance[s])
    BY <1>5, <2>1, MinOfTwo
  <2> HIDE DEF B, D
  <2> QED
    BY <1>5, <2>1, <2>2, <2>3
<1>10. BackedUpTo(s, a) = HalfEven(B * (q + n), D)
  <2>1. Reserving({b \in S : b =< a}) = q + n
    BY <1>3, <1>4, <1>5, <1>6
  <2> QED
    BY <2>1 DEF BackedUpTo
<1>11. CASE before = {}
  <2>1. q = 0
    BY <1>11, TotalOfNothing
  <2>2. B * q = D * 0
    BY <1>5, <1>9, <2>1, Times
  <2>3. HalfEven(B * q, D) = 0
    BY <1>5, <1>8, <2>2, HalfEvenIsExact
  <2>4. Backed(s, a) = BackedUpTo(s, a) - 0
    BY <1>11 DEF Backed
  <2> QED
    BY <1>3, <1>5, <1>8, <1>9, <1>10, <2>3, <2>4
<1>12. CASE before # {}
  <2>1. before \in SUBSET AllocationIds
    BY <1>2
  <2>2. Max(before) \in before /\ \A t \in before : t =< Max(before)
    <3> HIDE DEF before
    <3> QED
      BY <1>12, <2>1, MaxOfNumbers
  <2>3. {b \in S : b =< Max(before)} = before
    <3>1. PICK m : m = Max(before)
      OBVIOUS
    <3>2. m \in Nat /\ a \in Nat /\ m < a /\ \A b \in S : b \in Nat
      BY <1>2, <2>2, <3>1
    <3>3. \A b \in S : b < a => b =< m
      BY <2>2, <3>1
    <3>4. \A b \in S : b =< m => b < a
      BY <3>2
    <3>5. {b \in S : b =< m} = before
      BY <3>3, <3>4
    <3> QED
      BY <3>1, <3>5
  <2>4. BackedUpTo(s, Max(before)) = HalfEven(B * q, D)
    BY <1>4, <1>5, <2>3 DEF BackedUpTo
  <2>5. Backed(s, a) = BackedUpTo(s, a) - BackedUpTo(s, Max(before))
    BY <1>12 DEF Backed
  <2> QED
    BY <1>3, <1>5, <1>8, <1>9, <1>10, <2>4, <2>5
<1> QED
  BY <1>11, <1>12

LEMMA EachIsBacked ==
  ASSUME GoalsInv, NEW s \in Sources, NEW a \in ActiveOn(s)
  PROVE  Backed(s, a) \in 0..allocations[a].amount
<1>1. PICK D \in Nat, B \in Nat, q \in Nat, n \in Nat :
          /\ D > 0 /\ B =< D /\ n = allocations[a].amount /\ n > 0
          /\ Backed(s, a) = HalfEven(B * (q + n), D) - HalfEven(B * q, D)
  BY BackedIsRise
<1>2. PICK h \in Nat, i \in Nat : /\ h = HalfEven(B * q, D) /\ i = HalfEven(B * (q + n), D)
                                  /\ h =< i /\ i =< h + n
  BY <1>1, SharesGrow
<1>3. Backed(s, a) = i - h /\ i - h \in 0..n
  BY <1>1, <1>2
<1> QED
  BY <1>1, <1>3

\* The parts add up to what backs the source: the rises of a sum that begins at
\* nothing and ends at everything.
LEMMA AllIsBacked ==
  ASSUME GoalsInv, NEW s \in Sources, ActiveOn(s) # {}
  PROVE  SumFunction([a \in ActiveOn(s) |-> Backed(s, a)]) = Backing(s)
<1>1. PICK S : S = ActiveOn(s)
  OBVIOUS
<1>2. PICK f : f = [a \in S |-> Backed(s, a)]
  OBVIOUS
<1>3. PICK D \in Nat, B \in Nat : D = Declared(s) /\ B = Backing(s) /\ D > 0 /\ B =< D
  BY BackedIsRise
<1>4. AreRows(allocations) /\ S \in SUBSET Kept(allocations) /\ D = Total(allocations, S)
  BY <1>1, <1>3, DeclaredIs DEF GoalsInv
<1>5. S \in SUBSET AllocationIds /\ IsFiniteSet(S) /\ AllocationIds \subseteq Nat
  BY <1>4, AllocationsAreNumbered, FS_CardinalityType, FS_Subset DEF Kept
<1>6. \A a \in S : f[a] \in Int
  <2> TAKE a \in S
  <2>1. Backed(s, a) \in 0..allocations[a].amount
    BY <1>1, EachIsBacked
  <2> QED
    BY <1>2, <2>1
<1> DEFINE IsInitial(T) == \A a \in T, b \in S : b < a => b \in T
           Good == {T \in SUBSET S : IsInitial(T) =>
                       SumFunctionOnSet(f, T) = HalfEven(B * Total(allocations, T), D)}
<1>7. ASSUME NEW T \in SUBSET S, \A U \in SUBSET T : U # T => U \in Good
      PROVE  T \in Good
  <2> SUFFICES ASSUME IsInitial(T)
               PROVE  SumFunctionOnSet(f, T) = HalfEven(B * Total(allocations, T), D)
    OBVIOUS
  <2>1. CASE T = {}
    <3>1. SumFunctionOnSet(f, T) = 0 /\ Total(allocations, T) = 0
      BY <2>1, SumOfNothing, TotalOfNothing
    <3>2. B * Total(allocations, T) = D * 0
      BY <3>1, Times
    <3>3. HalfEven(D * 0, D) = 0
      BY <1>3, HalfEvenIsExact
    <3> QED
      BY <3>1, <3>2, <3>3
  <2>2. CASE T # {}
    <3>0. T \in SUBSET AllocationIds
      BY <1>5
    <3>1. PICK x \in T : x \in Nat /\ \A t \in T : t \in Nat /\ t =< x
      <4>1. Max(T) \in T /\ \A t \in T : t \in Nat /\ t =< Max(T)
        BY <2>2, <3>0, MaxOfNumbers
      <4> QED
        BY <4>1
    <3>2. PICK U : U = T \ {x}
      OBVIOUS
    <3>3. {b \in ActiveOn(s) : b < x} = U
      <4>1. \A b \in S : b < x => b \in U
        BY <3>1, <3>2
      <4>2. \A b \in U : b \in S /\ b < x
        BY <3>1, <3>2
      <4> QED
        BY <1>1, <4>1, <4>2
    <3>4. U \in SUBSET T /\ U # T /\ U \in SUBSET AllocationIds /\ IsInitial(U)
      <4>1. \A a \in U, b \in S : b < a => b \in U
        <5> TAKE a \in U, b \in S
        <5> HAVE b < a
        <5>1. a \in T /\ b \in T /\ a =< x /\ a \in Nat /\ b \in Nat
          BY <3>1, <3>2
        <5>2. b # x
          BY <3>1, <5>1
        <5> QED
          BY <3>2, <5>1, <5>2
      <4> QED
        BY <3>0, <3>2, <4>1
    <3>5. SumFunctionOnSet(f, U) = HalfEven(B * Total(allocations, U), D)
      BY <1>7, <3>4
    <3>6. /\ Backed(s, x) = HalfEven(B * (Total(allocations, U) + allocations[x].amount), D)
                              - HalfEven(B * Total(allocations, U), D)
          /\ Total(allocations, U) \in Nat /\ allocations[x].amount \in Nat /\ allocations[x].amount > 0
      BY <1>1, <1>3, <3>3, BackedIsRise
    <3>7. Total(allocations, T) = Total(allocations, U) + allocations[x].amount
      <4>1. AmountIn(allocations)[x] = allocations[x].amount
        BY <1>4, KeptRows
      <4>2. Total(allocations, T) = AmountIn(allocations)[x] + Total(allocations, T \ {x})
        BY <1>4, <3>0, TotalWith
      <4> QED
        BY <3>2, <3>6, <4>1, <4>2
    <3>8. SumFunctionOnSet(f, T) = f[x] + SumFunctionOnSet(f, U)
      <4>1. IsFiniteSet(T) /\ \A a \in T : f[a] \in Int
        BY <1>5, <1>6, FS_Subset
      <4> QED
        BY <3>2, <4>1, SumLess
    <3>9. PICK q \in Nat, n \in Nat : q = Total(allocations, U) /\ n = allocations[x].amount /\ n > 0
      BY <3>6
    <3>10. HalfEven(B * q, D) \in Nat /\ HalfEven(B * (q + n), D) \in Nat
      BY <1>3, <3>9, SharesGrow
    <3>11. f[x] = HalfEven(B * (q + n), D) - HalfEven(B * q, D)
      BY <1>2, <3>6, <3>9
    <3> QED
      BY <3>5, <3>7, <3>8, <3>9, <3>10, <3>11
  <2> QED
    BY <2>1, <2>2
<1>8. S \in Good
  <2> HIDE DEF Good
  <2> QED
    BY <1>5, <1>7, SubsetInduction
<1>9. SumFunctionOnSet(f, S) = HalfEven(B * D, D)
  BY <1>4, <1>8
<1>10. HalfEven(B * D, D) = B
  <2>1. B * D = D * B
    BY Times
  <2> QED
    BY <1>3, <2>1, HalfEvenIsExact
<1>11. DOMAIN f = S
  BY <1>2
<1> QED
  BY <1>1, <1>2, <1>3, <1>9, <1>10, <1>11 DEF SumFunction

LEMMA FreeIsUnpledged ==
  ASSUME GoalsInv, NEW s \in Sources
  PROVE  /\ Available(s) + Backing(s) =< Positive(balance[s])
         /\ balance[s] < 0 => Available(s) = balance[s]
<1>1. PICK b \in Int, p \in Nat : b = balance[s] /\ p = Positive(balance[s]) /\ p = IF b > 0 THEN b ELSE 0
  BY PositiveIs DEF GoalsInv
<1>2. PICK r \in Nat : r = settings[s].reserved
  BY DEF GoalsInv
<1>3. PICK D \in Nat : D = Declared(s)
  <2>1. AreRows(allocations) /\ Pledges(allocations, goals, s) \in SUBSET AllocationIds
    BY DEF GoalsInv, Pledges, Kept
  <2> QED
    BY <2>1, DeclaredIs, TotalIsNumber
<1>4. Backing(s) = IF D =< p THEN D ELSE p
  BY <1>1, <1>3, MinOfTwo DEF Backing
<1>5. PICK m \in Nat : m = Requested(s) /\ m >= D
  <2>1. Requested(s) = Max({D, r})
    BY <1>2, <1>3 DEF Requested
  <2>2. Max({D, r}) = IF D >= r THEN D ELSE r
    BY MaxOfTwo
  <2> QED
    BY <2>1, <2>2
<1>6. Min({m, p}) = IF m =< p THEN m ELSE p
  BY MinOfTwo
<1>7. Reserved(s) \in {p, IF m =< p THEN m ELSE p}
  BY <1>1, <1>5, <1>6 DEF Reserved
<1>8. Available(s) = b - Reserved(s)
  BY <1>1 DEF Available
<1> QED
  BY <1>1, <1>3, <1>4, <1>5, <1>7, <1>8

\* What is left of a balance is shared out exactly among its reservations, none
\* backed by more than it asked, and what is free fits beside it.
THEOREM BackingAddsUp == Spec => []BackingIsReal
<1>1. GoalsInv => BackingIsReal
  <2> SUFFICES ASSUME GoalsInv
               PROVE  BackingIsShared /\ FreeMoneyIsUnpledged
    BY DEF BackingIsReal
  <2>1. BackingIsShared
    BY EachIsBacked, AllIsBacked DEF BackingIsShared
  <2>2. FreeMoneyIsUnpledged
    BY FreeIsUnpledged DEF FreeMoneyIsUnpledged
  <2> QED
    BY <2>1, <2>2
<1> QED
  BY <1>1, GoalsInvariance, PTL
=============================================================================
