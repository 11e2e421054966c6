-------------------------------- MODULE Sums --------------------------------
(***************************************************************************)
(* Finite sums: what SumFunctionOnSet of the community modules obeys.  The *)
(* statement of an invoice, a credit total and the payments of an invoice  *)
(* are such sums.                                                          *)
(*                                                                         *)
(* Induction is by a set of good subsets in place of a predicate: what is  *)
(* good for a set as soon as it is good for its smaller subsets is good    *)
(* for every finite set.                                                   *)
(***************************************************************************)
EXTENDS FiniteSetsExt, FiniteSetTheorems, WellFoundedInduction, TLAPS

LEMMA SubsetInduction ==
  ASSUME NEW S, IsFiniteSet(S), NEW Good,
         \A T \in SUBSET S : (\A U \in SUBSET T : U # T => U \in Good) => T \in Good
  PROVE  \A T \in SUBSET S : T \in Good
  <1>. DEFINE Bad == {T \in SUBSET S : T \notin Good}
  <1>. SUFFICES ASSUME Bad # {} PROVE FALSE
    OBVIOUS
  <1>1. SUBSET S = FiniteSubsetsOf(S)
    BY FS_FiniteSubsetsOfFinite
  <1>2. IsWellFoundedOn(StrictSubsetOrdering(S), FiniteSubsetsOf(S))
    BY FS_StrictSubsetOrderingWellFounded
  <1>3. Bad \subseteq FiniteSubsetsOf(S)
    BY <1>1
  <1>. HIDE DEF Bad
  <1>4. PICK T \in Bad : \A U \in Bad : ~(<<U, T>> \in StrictSubsetOrdering(S))
    BY <1>2, <1>3, WFMin
  <1>. USE DEF Bad
  <1>5. \A U \in SUBSET T : U # T => U \in Good
    <2>. SUFFICES ASSUME NEW U \in SUBSET T, U # T, U \notin Good PROVE FALSE
      OBVIOUS
    <2>1. U \in Bad /\ <<U, T>> \in StrictSubsetOrdering(S)
      BY <1>4 DEF StrictSubsetOrdering
    <2>. QED BY <1>4, <2>1
  <1>. QED BY <1>4, <1>5
-----------------------------------------------------------------------------
(* The recursive function a sum is defined by exists.                      *)

First(s) == CHOOSE x \in s : TRUE

Adds(f, g, S) ==
    g = [s \in SUBSET S |-> IF s = {} THEN 0 ELSE f[First(s)] + g[s \ {First(s)}]]

LEMMA AddsIs ==
  ASSUME NEW f, NEW g, NEW S, Adds(f, g, S), NEW s \in SUBSET S
  PROVE  g[s] = IF s = {} THEN 0 ELSE f[First(s)] + g[s \ {First(s)}]
  BY DEF Adds

LEMMA FirstIsMember == \A s : s # {} => First(s) \in s
  BY DEF First

\* Two such functions agree where both are defined.
LEMMA AddsAgree ==
  ASSUME NEW S, IsFiniteSet(S), NEW f, NEW g, NEW h, NEW T,
         S \subseteq T, Adds(f, g, S), Adds(f, h, T)
  PROVE  g[S] = h[S]
  <1>. DEFINE Good == {s \in SUBSET S : g[s] = h[s]}
  <1>1. ASSUME NEW s \in SUBSET S, \A u \in SUBSET s : u # s => u \in Good
        PROVE  s \in Good
    <2>1. /\ g[s] = IF s = {} THEN 0 ELSE f[First(s)] + g[s \ {First(s)}]
          /\ h[s] = IF s = {} THEN 0 ELSE f[First(s)] + h[s \ {First(s)}]
      <3>1. s \in SUBSET T
        OBVIOUS
      <3>2. g[s] = IF s = {} THEN 0 ELSE f[First(s)] + g[s \ {First(s)}]
        BY AddsIs
      <3>3. h[s] = IF s = {} THEN 0 ELSE f[First(s)] + h[s \ {First(s)}]
        BY <3>1, AddsIs
      <3>. QED BY <3>2, <3>3
    <2>2. CASE s = {}
      BY <2>1, <2>2
    <2>3. CASE s # {}
      <3>1. s \ {First(s)} \in SUBSET s /\ s \ {First(s)} # s
        BY <2>3, FirstIsMember
      <3>2. g[s \ {First(s)}] = h[s \ {First(s)}]
        BY <1>1, <3>1
      <3>. QED BY <2>1, <2>3, <3>2
    <2>. QED BY <2>2, <2>3
  <1>. HIDE DEF Good
  <1>2. \A s \in SUBSET S : s \in Good
    BY <1>1, SubsetInduction
  <1>. QED BY <1>2 DEF Good

LEMMA AddsExists ==
  ASSUME NEW S, IsFiniteSet(S), NEW f
  PROVE  \E g : Adds(f, g, S)
  <1>. DEFINE Good == {T \in SUBSET S : \E g : Adds(f, g, T)}
              Of(U) == CHOOSE g : Adds(f, g, U)
  <1>1. ASSUME NEW T \in SUBSET S, \A U \in SUBSET T : U # T => U \in Good
        PROVE  T \in Good
    <2>1. \A U \in SUBSET T : U # T => Adds(f, Of(U), U)
      BY <1>1
    <2>. HIDE DEF Of
    <2>. DEFINE g == [s \in SUBSET T |->
                        IF s = {} THEN 0
                        ELSE f[First(s)] + Of(s \ {First(s)})[s \ {First(s)}]]
    <2>2. ASSUME NEW s \in SUBSET T, s # T
          PROVE  g[s] = Of(s)[s]
      <3>1. Adds(f, Of(s), s)
        BY <2>1, <2>2
      <3>2. Of(s)[s] = IF s = {} THEN 0 ELSE f[First(s)] + Of(s)[s \ {First(s)}]
        BY <3>1, AddsIs
      <3>3. ASSUME s # {}
            PROVE  Of(s)[s \ {First(s)}] = Of(s \ {First(s)})[s \ {First(s)}]
        <4>. DEFINE u == s \ {First(s)}
        <4>1. u \subseteq s /\ u \in SUBSET T /\ u # T
          BY <2>2, <3>3, FirstIsMember
        <4>2. Adds(f, Of(u), u) /\ IsFiniteSet(u)
          BY <2>1, <4>1, FS_Subset
        <4>. HIDE DEF u
        <4>3. Of(u)[u] = Of(s)[u]
          BY <3>1, <4>1, <4>2, AddsAgree
        <4>. QED BY <4>3 DEF u
      <3>. QED BY <3>2, <3>3
    <2>3. \A s \in SUBSET T : s # {} =>
              g[s \ {First(s)}] = Of(s \ {First(s)})[s \ {First(s)}]
      <3>. TAKE s \in SUBSET T
      <3>. HAVE s # {}
      <3>1. s \ {First(s)} \in SUBSET T /\ s \ {First(s)} # T
        BY FirstIsMember
      <3>. HIDE DEF g
      <3>. QED BY <2>2, <3>1
    <2>4. g = [s \in SUBSET T |-> IF s = {} THEN 0 ELSE f[First(s)] + g[s \ {First(s)}]]
      BY <2>3
    <2>5. Adds(f, g, T)
      BY <2>4 DEF Adds
    <2>. QED BY <2>5
  <1>. HIDE DEF Good
  <1>2. \A T \in SUBSET S : T \in Good
    BY <1>1, SubsetInduction
  <1>3. S \in Good
    BY <1>2
  <1>. QED BY <1>3 DEF Good

LEMMA SumAdds ==
  ASSUME NEW S, IsFiniteSet(S), NEW f
  PROVE  \E g : Adds(f, g, S) /\ SumFunctionOnSet(f, S) = g[S]
  <1>. DEFINE g == CHOOSE iter : iter = [s \in SUBSET S |->
                      IF s = {} THEN 0 ELSE f[First(s)] + iter[s \ {First(s)}]]
  <1>1. Adds(f, g, S)
    <2>1. \E h : h = [s \in SUBSET S |->
                        IF s = {} THEN 0 ELSE f[First(s)] + h[s \ {First(s)}]]
      <3>1. PICK h : Adds(f, h, S)
        BY AddsExists
      <3>2. h = [s \in SUBSET S |-> IF s = {} THEN 0 ELSE f[First(s)] + h[s \ {First(s)}]]
        BY <3>1 DEF Adds
      <3>. QED BY <3>2, Zenon
    <2>2. g = [s \in SUBSET S |-> IF s = {} THEN 0 ELSE f[First(s)] + g[s \ {First(s)}]]
      BY ONLY <2>1, Zenon
    <2>. HIDE DEF g
    <2>. QED BY <2>2 DEF Adds
  <1>2. SumFunctionOnSet(f, S) = g[S]
    BY DEF SumFunctionOnSet, FoldFunctionOnSet, MapThenFoldSet, First
  <1>. QED BY <1>1, <1>2
-----------------------------------------------------------------------------
(* The laws of sums.                                                       *)

LEMMA SumOfNothing == \A f : SumFunctionOnSet(f, {}) = 0
  <1>. TAKE f
  <1>1. PICK g : Adds(f, g, {}) /\ SumFunctionOnSet(f, {}) = g[{}]
    BY FS_EmptySet, SumAdds
  <1>. QED BY <1>1, AddsIs

LEMMA SumFromFirst ==
  ASSUME NEW S, IsFiniteSet(S), S # {}, NEW f
  PROVE  SumFunctionOnSet(f, S) = f[First(S)] + SumFunctionOnSet(f, S \ {First(S)})
  <1>. DEFINE T == S \ {First(S)}
  <1>1. IsFiniteSet(T) /\ T \subseteq S
    BY FS_Subset
  <1>2. PICK g : Adds(f, g, S) /\ SumFunctionOnSet(f, S) = g[S]
    BY SumAdds
  <1>3. PICK h : Adds(f, h, T) /\ SumFunctionOnSet(f, T) = h[T]
    BY <1>1, SumAdds
  <1>4. h[T] = g[T]
    BY <1>1, <1>2, <1>3, AddsAgree
  <1>5. g[S] = f[First(S)] + g[T]
    BY <1>2, AddsIs
  <1>. QED BY <1>2, <1>3, <1>4, <1>5

\* Induction by taking one element away.
LEMMA RemovalInduction ==
  ASSUME NEW S, IsFiniteSet(S), NEW Good, {} \in Good,
         \A T \in SUBSET S : \A x \in T : T \ {x} \in Good => T \in Good
  PROVE  \A T \in SUBSET S : T \in Good
  <1>1. ASSUME NEW T \in SUBSET S, \A U \in SUBSET T : U # T => U \in Good
        PROVE  T \in Good
    <2>1. CASE T = {}
      BY <2>1
    <2>2. CASE T # {}
      <3>1. PICK x \in T : TRUE
        BY <2>2
      <3>2. T \ {x} \in SUBSET T /\ T \ {x} # T
        BY <3>1
      <3>3. T \ {x} \in Good
        BY <1>1, <3>2
      <3>. QED BY <3>3
    <2>. QED BY <2>1, <2>2
  <1>. QED BY <1>1, SubsetInduction

LEMMA SumIsInt ==
  ASSUME NEW S, IsFiniteSet(S), NEW f, \A s \in S : f[s] \in Int
  PROVE  \A T \in SUBSET S : SumFunctionOnSet(f, T) \in Int
  <1>. DEFINE Good == {T \in SUBSET S : SumFunctionOnSet(f, T) \in Int}
  <1>1. ASSUME NEW T \in SUBSET S, \A U \in SUBSET T : U # T => U \in Good
        PROVE  T \in Good
    <2>1. CASE T = {}
      BY <2>1, SumOfNothing
    <2>2. CASE T # {}
      <3>1. First(T) \in T /\ IsFiniteSet(T)
        BY <2>2, FirstIsMember, FS_Subset
      <3>2. T \ {First(T)} \in SUBSET T /\ T \ {First(T)} # T
        BY <3>1
      <3>3. SumFunctionOnSet(f, T \ {First(T)}) \in Int
        BY <1>1, <3>2
      <3>4. SumFunctionOnSet(f, T) = f[First(T)] + SumFunctionOnSet(f, T \ {First(T)})
        BY <2>2, <3>1, SumFromFirst
      <3>. QED BY <3>1, <3>3, <3>4
    <2>. QED BY <2>1, <2>2
  <1>. HIDE DEF Good
  <1>2. \A T \in SUBSET S : T \in Good
    BY <1>1, SubsetInduction
  <1>. QED BY <1>2 DEF Good

\* Any element may be taken out of a sum, not only the one the fold chooses.
LEMMA SumFromAny ==
  ASSUME NEW S, IsFiniteSet(S), NEW f, \A s \in S : f[s] \in Int
  PROVE  \A T \in SUBSET S : \A x \in T :
            SumFunctionOnSet(f, T) = f[x] + SumFunctionOnSet(f, T \ {x})
  <1>. DEFINE Good == {T \in SUBSET S : \A x \in T :
                          SumFunctionOnSet(f, T) = f[x] + SumFunctionOnSet(f, T \ {x})}
  <1>1. ASSUME NEW T \in SUBSET S, \A U \in SUBSET T : U # T => U \in Good
        PROVE  T \in Good
    <2>. SUFFICES ASSUME NEW x \in T
                  PROVE  SumFunctionOnSet(f, T) = f[x] + SumFunctionOnSet(f, T \ {x})
      OBVIOUS
    <2>. DEFINE p == First(T)
    <2>1. p \in T /\ IsFiniteSet(T)
      BY FirstIsMember, FS_Subset
    <2>2. SumFunctionOnSet(f, T) = f[p] + SumFunctionOnSet(f, T \ {p})
      BY <2>1, SumFromFirst
    <2>3. CASE x = p
      BY <2>2, <2>3
    <2>4. CASE x # p
      <3>1. /\ T \ {p} \in SUBSET T /\ T \ {p} # T /\ x \in T \ {p}
            /\ T \ {x} \in SUBSET T /\ T \ {x} # T /\ p \in T \ {x}
            /\ (T \ {p}) \ {x} = (T \ {x}) \ {p}
        BY <2>1, <2>4
      <3>. HIDE DEF p
      <3>2. /\ SumFunctionOnSet(f, T \ {p})
                  = f[x] + SumFunctionOnSet(f, (T \ {p}) \ {x})
            /\ SumFunctionOnSet(f, T \ {x})
                  = f[p] + SumFunctionOnSet(f, (T \ {x}) \ {p})
        BY <1>1, <3>1
      <3>3. /\ SumFunctionOnSet(f, (T \ {x}) \ {p}) \in Int
            /\ f[x] \in Int /\ f[p] \in Int
        BY <2>1, SumIsInt
      <3>4. SumFunctionOnSet(f, T \ {p}) = f[x] + SumFunctionOnSet(f, (T \ {x}) \ {p})
        BY <3>1, <3>2
      <3>. QED BY <2>2, <3>2, <3>3, <3>4
    <2>. QED BY <2>3, <2>4
  <1>. HIDE DEF Good
  <1>2. \A T \in SUBSET S : T \in Good
    BY <1>1, SubsetInduction
  <1>. QED BY <1>2 DEF Good

\* A sum is a sum of the values on its set alone.
LEMMA SumOfSame ==
  ASSUME NEW S, IsFiniteSet(S), NEW f, NEW g, \A s \in S : f[s] = g[s] /\ f[s] \in Int
  PROVE  SumFunctionOnSet(f, S) = SumFunctionOnSet(g, S)
  <1>. DEFINE Good == {T \in SUBSET S : SumFunctionOnSet(f, T) = SumFunctionOnSet(g, T)}
  <1>1. {} \in Good
    BY SumOfNothing
  <1>2. ASSUME NEW T \in SUBSET S, NEW x \in T, T \ {x} \in Good PROVE T \in Good
    <2>1. /\ SumFunctionOnSet(f, T) = f[x] + SumFunctionOnSet(f, T \ {x})
          /\ SumFunctionOnSet(g, T) = g[x] + SumFunctionOnSet(g, T \ {x})
      BY SumFromAny
    <2>. QED BY <1>2, <2>1
  <1>. HIDE DEF Good
  <1>3. S \in Good
    BY <1>1, <1>2, RemovalInduction
  <1>. QED BY <1>3 DEF Good

LEMMA SumIsNat ==
  ASSUME NEW S, IsFiniteSet(S), NEW f, \A s \in S : f[s] \in Nat
  PROVE  \A T \in SUBSET S : SumFunctionOnSet(f, T) \in Nat
  <1>. DEFINE Good == {T \in SUBSET S : SumFunctionOnSet(f, T) \in Nat}
  <1>1. {} \in Good
    BY SumOfNothing
  <1>2. ASSUME NEW T \in SUBSET S, NEW x \in T, T \ {x} \in Good PROVE T \in Good
    <2>1. SumFunctionOnSet(f, T) = f[x] + SumFunctionOnSet(f, T \ {x})
      BY SumFromAny
    <2>. QED BY <1>2, <2>1
  <1>. HIDE DEF Good
  <1>3. \A T \in SUBSET S : T \in Good
    BY <1>1, <1>2, RemovalInduction
  <1>. QED BY <1>3 DEF Good

LEMMA SumOfParts ==
  ASSUME NEW S, IsFiniteSet(S), NEW f, \A s \in S : f[s] \in Int, NEW A \in SUBSET S
  PROVE  SumFunctionOnSet(f, S) = SumFunctionOnSet(f, A) + SumFunctionOnSet(f, S \ A)
  <1>. DEFINE Good == {T \in SUBSET A :
                          SumFunctionOnSet(f, (S \ A) \union T)
                            = SumFunctionOnSet(f, T) + SumFunctionOnSet(f, S \ A)}
  <1>1. IsFiniteSet(A) /\ S \ A \in SUBSET S
    BY FS_Subset
  <1>2. {} \in Good
    <2>1. SumFunctionOnSet(f, S \ A) \in Int /\ (S \ A) \union {} = S \ A
      BY <1>1, SumIsInt
    <2>. QED BY <2>1, SumOfNothing
  <1>3. ASSUME NEW T \in SUBSET A, NEW x \in T, T \ {x} \in Good PROVE T \in Good
    <2>1. /\ (S \ A) \union T \in SUBSET S /\ T \in SUBSET S /\ T \ {x} \in SUBSET S
          /\ x \in (S \ A) \union T
          /\ ((S \ A) \union T) \ {x} = (S \ A) \union (T \ {x})
      OBVIOUS
    <2>2. /\ SumFunctionOnSet(f, (S \ A) \union T)
                = f[x] + SumFunctionOnSet(f, ((S \ A) \union T) \ {x})
          /\ SumFunctionOnSet(f, T) = f[x] + SumFunctionOnSet(f, T \ {x})
      BY <2>1, SumFromAny
    <2>3. /\ SumFunctionOnSet(f, S \ A) \in Int /\ SumFunctionOnSet(f, T \ {x}) \in Int
          /\ f[x] \in Int
      BY <1>1, <2>1, SumIsInt
    <2>4. SumFunctionOnSet(f, (S \ A) \union (T \ {x}))
            = SumFunctionOnSet(f, T \ {x}) + SumFunctionOnSet(f, S \ A)
      BY <1>3
    <2>5. SumFunctionOnSet(f, (S \ A) \union T)
            = f[x] + SumFunctionOnSet(f, (S \ A) \union (T \ {x}))
      BY <2>1, <2>2
    <2>6. SumFunctionOnSet(f, (S \ A) \union T)
            = SumFunctionOnSet(f, T) + SumFunctionOnSet(f, S \ A)
      BY <2>2, <2>3, <2>4, <2>5
    <2>. QED BY <2>6
  <1>. HIDE DEF Good
  <1>4. A \in Good
    BY <1>1, <1>2, <1>3, RemovalInduction
  <1>5. (S \ A) \union A = S
    OBVIOUS
  <1>. QED BY <1>4, <1>5 DEF Good

\* What contributes nothing may be left out.
LEMMA SumWithoutZeros ==
  ASSUME NEW S, IsFiniteSet(S), NEW f, NEW A \in SUBSET S, \A s \in S : f[s] \in Int,
         \A s \in S \ A : f[s] = 0
  PROVE  SumFunctionOnSet(f, S) = SumFunctionOnSet(f, A)
  <1>0. PICK B : B = S \ A
    OBVIOUS
  <1>. DEFINE Good == {T \in SUBSET B : SumFunctionOnSet(f, T) = 0}
  <1>1. {} \in Good
    BY SumOfNothing
  <1>2. ASSUME NEW T \in SUBSET B, NEW x \in T, T \ {x} \in Good PROVE T \in Good
    <2>1. SumFunctionOnSet(f, T) = f[x] + SumFunctionOnSet(f, T \ {x}) /\ f[x] = 0
      BY <1>0, SumFromAny
    <2>. QED BY <1>2, <2>1
  <1>3. IsFiniteSet(B)
    BY <1>0, FS_Subset
  <1>. HIDE DEF Good
  <1>4. B \in Good
    BY <1>1, <1>2, <1>3, RemovalInduction
  <1>5. SumFunctionOnSet(f, A) \in Int
    BY SumIsInt
  <1>. QED BY <1>0, <1>4, <1>5, SumOfParts DEF Good

LEMMA SumOfFewer ==
  ASSUME NEW S, IsFiniteSet(S), NEW f, \A s \in S : f[s] \in Nat, NEW A \in SUBSET S
  PROVE  SumFunctionOnSet(f, A) =< SumFunctionOnSet(f, S)
  <1>1. SumFunctionOnSet(f, A) \in Nat /\ SumFunctionOnSet(f, S \ A) \in Nat
    BY SumIsNat
  <1>2. SumFunctionOnSet(f, S) = SumFunctionOnSet(f, A) + SumFunctionOnSet(f, S \ A)
    BY SumOfParts
  <1>. QED BY <1>1, <1>2

LEMMA SumOfSums ==
  ASSUME NEW S, IsFiniteSet(S), NEW f, NEW g, NEW h,
         \A s \in S : f[s] \in Int /\ g[s] \in Int /\ h[s] = f[s] + g[s]
  PROVE  SumFunctionOnSet(h, S) = SumFunctionOnSet(f, S) + SumFunctionOnSet(g, S)
  <1>. DEFINE Good == {T \in SUBSET S :
                  SumFunctionOnSet(h, T) = SumFunctionOnSet(f, T) + SumFunctionOnSet(g, T)}
  <1>1. {} \in Good
    BY SumOfNothing
  <1>2. ASSUME NEW T \in SUBSET S, NEW x \in T, T \ {x} \in Good PROVE T \in Good
    <2>1. /\ SumFunctionOnSet(f, T) = f[x] + SumFunctionOnSet(f, T \ {x})
          /\ SumFunctionOnSet(g, T) = g[x] + SumFunctionOnSet(g, T \ {x})
          /\ SumFunctionOnSet(h, T) = h[x] + SumFunctionOnSet(h, T \ {x})
      BY SumFromAny
    <2>2. /\ SumFunctionOnSet(f, T \ {x}) \in Int /\ SumFunctionOnSet(g, T \ {x}) \in Int
          /\ f[x] \in Int /\ g[x] \in Int /\ h[x] = f[x] + g[x]
      BY SumIsInt
    <2>. QED BY <1>2, <2>1, <2>2
  <1>. HIDE DEF Good
  <1>3. S \in Good
    BY <1>1, <1>2, RemovalInduction
  <1>. QED BY <1>3 DEF Good

LEMMA NaturalsHaveLeast ==
  ASSUME NEW S \in SUBSET Nat, S # {}
  PROVE  \E n \in S : \A k \in S : n =< k
  <1>. DEFINE Under(n) == {k \in Nat : k < n}
              U == {Under(n) : n \in S}
  <1>1. \A n \in Nat : Under(n) \in FiniteSubsetsOf(Nat)
    <2>1. ASSUME NEW n \in Nat PROVE IsFiniteSet(Under(n))
      <3>1. IsFiniteSet(0 .. n)
        BY FS_Interval
      <3>2. Under(n) \subseteq 0 .. n
        OBVIOUS
      <3>. QED BY <3>1, <3>2, FS_Subset
    <2>. QED BY <2>1 DEF FiniteSubsetsOf
  <1>2. U \subseteq FiniteSubsetsOf(Nat) /\ U # {}
    BY <1>1
  <1>3. IsWellFoundedOn(StrictSubsetOrdering(Nat), FiniteSubsetsOf(Nat))
    BY FS_StrictSubsetOrderingWellFounded
  <1>4. PICK u \in U : \A v \in U : ~(<<v, u>> \in StrictSubsetOrdering(Nat))
    BY <1>2, <1>3, WFMin
  <1>5. PICK n \in S : u = Under(n)
    BY <1>4
  <1>6. ASSUME NEW k \in S, k < n PROVE FALSE
    <2>1. Under(k) \subseteq Under(n) /\ Under(k) # Under(n)
      <3>1. k \in Under(n) /\ k \notin Under(k)
        BY <1>6
      <3>2. Under(k) \subseteq Under(n)
        BY <1>6
      <3>. QED BY <3>1, <3>2
    <2>2. <<Under(k), Under(n)>> \in StrictSubsetOrdering(Nat)
      BY <2>1 DEF StrictSubsetOrdering
    <2>3. Under(k) \in U
      OBVIOUS
    <2>. QED BY <1>4, <1>5, <2>2, <2>3
  <1>. QED BY <1>6

\* Induction over the naturals, by the set of the numbers that are good.
LEMMA NumberInduction ==
  ASSUME NEW Good, 0 \in Good, \A n \in Nat : n \in Good => n + 1 \in Good
  PROVE  \A n \in Nat : n \in Good
  <1>. DEFINE Bad == {n \in Nat : n \notin Good}
  <1>. SUFFICES ASSUME Bad # {} PROVE FALSE
    OBVIOUS
  <1>1. PICK n \in Bad : \A k \in Bad : n =< k
    <2>1. Bad \in SUBSET Nat
      OBVIOUS
    <2>. HIDE DEF Bad
    <2>. QED BY <2>1, NaturalsHaveLeast
  <1>2. n # 0 /\ n - 1 \in Nat /\ n - 1 \notin Bad
    BY <1>1
  <1>3. (n - 1) + 1 \in Good
    BY <1>2
  <1>. QED BY <1>1, <1>2, <1>3

\* Taking one value out of a sum.
LEMMA SumLess ==
  ASSUME NEW S, IsFiniteSet(S), NEW f, \A s \in S : f[s] \in Int, NEW x \in S
  PROVE  SumFunctionOnSet(f, S) = f[x] + SumFunctionOnSet(f, S \ {x})
  BY SumFromAny

LEMMA SumLast ==
  ASSUME NEW k \in Nat, NEW f, \A m \in 0 .. k : f[m] \in Int
  PROVE  SumFunctionOnSet(f, 0 .. k) = f[k] + SumFunctionOnSet(f, (0 .. k) \ {k})
  <1>1. PICK T : T = 0 .. k
    OBVIOUS
  <1>2. IsFiniteSet(T) /\ k \in T /\ \A m \in T : f[m] \in Int
    BY <1>1, FS_Interval
  <1>3. SumFunctionOnSet(f, T) = f[k] + SumFunctionOnSet(f, T \ {k})
    BY <1>2, SumLess
  <1>. QED BY <1>1, <1>3

\* A running total adds up.
LEMMA SumUpTo ==
  ASSUME NEW n \in Nat, NEW f, NEW total, \A m \in 0 .. n : f[m] \in Int,
         total[0] = f[0], \A m \in 1 .. n : total[m] = total[m - 1] + f[m]
  PROVE  SumFunctionOnSet(f, 0 .. n) = total[n]
  <1>. DEFINE Bad == {m \in 0 .. n : SumFunctionOnSet(f, 0 .. m) # total[m]}
  <1>. SUFFICES ASSUME Bad # {} PROVE FALSE
    OBVIOUS
  <1>1. PICK k \in Bad : \A m \in Bad : k =< m
    <2>1. Bad \in SUBSET Nat
      OBVIOUS
    <2>. HIDE DEF Bad
    <2>. QED BY <2>1, NaturalsHaveLeast
  <1>2. SumFunctionOnSet(f, 0 .. k) = f[k] + SumFunctionOnSet(f, (0 .. k) \ {k})
    <2>1. k \in Nat /\ \A m \in 0 .. k : f[m] \in Int
      OBVIOUS
    <2>. HIDE DEF Bad
    <2>. QED BY <2>1, SumLast
  <1>3. CASE k = 0
    <2>1. PICK T : T = 0 .. k
      OBVIOUS
    <2>2. T \ {k} = {} /\ total[k] = f[k] /\ f[k] \in Int
      BY <1>3, <2>1
    <2>3. SumFunctionOnSet(f, T) = f[k] + SumFunctionOnSet(f, T \ {k})
      BY <1>2, <2>1
    <2>4. SumFunctionOnSet(f, T \ {k}) = 0
      BY <2>2, SumOfNothing
    <2>5. SumFunctionOnSet(f, 0 .. k) = total[k]
      BY ONLY <2>1, <2>2, <2>3, <2>4
    <2>. QED BY <1>1, <2>5
  <1>4. CASE k # 0
    <2>1. (0 .. k) \ {k} = 0 .. (k - 1) /\ k \in 1 .. n /\ k - 1 \in 0 .. n
      BY <1>4
    <2>2. k - 1 \notin Bad
      BY <1>1, <2>1
    <2>3. SumFunctionOnSet(f, 0 .. (k - 1)) = total[k - 1]
      BY <2>1, <2>2
    <2>4. SumFunctionOnSet(f, 0 .. (k - 1)) \in Int
      <3>1. IsFiniteSet(0 .. (k - 1)) /\ \A m \in 0 .. (k - 1) : f[m] \in Int
        BY <2>1, FS_Interval
      <3>. QED BY <3>1, SumIsInt
    <2>5. total[k] = total[k - 1] + f[k] /\ f[k] \in Int
      BY <2>1
    <2>6. SumFunctionOnSet(f, 0 .. k) = f[k] + total[k - 1]
      BY <1>2, <2>1, <2>3
    <2>7. SumFunctionOnSet(f, 0 .. k) = total[k]
      BY <2>3, <2>4, <2>5, <2>6
    <2>. QED BY <1>1, <2>7
  <1>. QED BY <1>3, <1>4

\* Rows first or columns first.
LEMMA SumExchange ==
  ASSUME NEW S, NEW T, IsFiniteSet(S), IsFiniteSet(T), NEW row,
         \A x \in S, y \in T : row[x][y] \in Int
  PROVE  SumFunctionOnSet([x \in S |-> SumFunctionOnSet(row[x], T)], S)
           = SumFunctionOnSet([y \in T |-> SumFunctionOnSet([x \in S |-> row[x][y]], S)], T)
  <1>. DEFINE column == [y \in T |-> [x \in S |-> row[x][y]]]
              rowSum == [x \in S |-> SumFunctionOnSet(row[x], T)]
              columnSum == [y \in T |-> SumFunctionOnSet(column[y], S)]
  <1>1. \A x \in S, y \in T : row[x][y] \in Int /\ column[y][x] = row[x][y]
    OBVIOUS
  <1>2. \A x \in S : rowSum[x] = SumFunctionOnSet(row[x], T)
    OBVIOUS
  <1>3. \A y \in T : columnSum[y] = SumFunctionOnSet(column[y], S)
    OBVIOUS
  <1>4. columnSum = [y \in T |-> SumFunctionOnSet([x \in S |-> row[x][y]], S)]
    OBVIOUS
  <1>. HIDE DEF column, rowSum, columnSum
  <1>. DEFINE partial(U) == [y \in T |-> SumFunctionOnSet(column[y], U)]
              Good == {U \in SUBSET S :
                          SumFunctionOnSet(rowSum, U) = SumFunctionOnSet(partial(U), T)}
  <1>5. \A x \in S : rowSum[x] \in Int
    BY <1>1, <1>2, SumIsInt
  <1>6. \A y \in T : \A U \in SUBSET S : SumFunctionOnSet(column[y], U) \in Int
    BY <1>1, SumIsInt
  <1>7. {} \in Good
    <2>1. \A y \in T : partial({})[y] = 0
      BY SumOfNothing
    <2>2. SumFunctionOnSet(partial({}), T) = SumFunctionOnSet(partial({}), {})
      <3>1. PICK g : g = partial({})
        OBVIOUS
      <3>2. \A y \in T : g[y] = 0 /\ g[y] \in Int
        BY <2>1, <3>1
      <3>3. {} \in SUBSET T /\ \A y \in T \ {} : g[y] = 0
        BY <3>2
      <3>. HIDE DEF partial
      <3>4. SumFunctionOnSet(g, T) = SumFunctionOnSet(g, {})
        BY <3>2, <3>3, SumWithoutZeros
      <3>. QED BY <3>1, <3>4
    <2>. QED BY <2>2, SumOfNothing
  <1>8. ASSUME NEW U \in SUBSET S, NEW x \in U, U \ {x} \in Good PROVE U \in Good
    <2>1. PICK h, g : h = partial(U) /\ g = partial(U \ {x})
      OBVIOUS
    <2>2. ASSUME NEW y \in T
          PROVE  h[y] = row[x][y] + g[y] /\ row[x][y] \in Int /\ g[y] \in Int
      <3>1. \A z \in S : column[y][z] = row[z][y] /\ column[y][z] \in Int
        BY <1>1
      <3>2. SumFunctionOnSet(column[y], U)
              = column[y][x] + SumFunctionOnSet(column[y], U \ {x})
        BY <3>1, SumFromAny
      <3>. QED BY <1>6, <1>1, <2>1, <3>1, <3>2
    <2>3. SumFunctionOnSet(h, T) = SumFunctionOnSet(row[x], T) + SumFunctionOnSet(g, T)
      BY <2>2, SumOfSums
    <2>4. SumFunctionOnSet(rowSum, U) = rowSum[x] + SumFunctionOnSet(rowSum, U \ {x})
      BY <1>5, SumFromAny
    <2>5. SumFunctionOnSet(rowSum, U \ {x}) = SumFunctionOnSet(g, T)
      BY <1>8, <2>1
    <2>6. rowSum[x] = SumFunctionOnSet(row[x], T)
      BY <1>2
    <2>. QED BY <2>1, <2>3, <2>4, <2>5, <2>6
  <1>. HIDE DEF Good
  <1>9. S \in Good
    BY <1>7, <1>8, RemovalInduction
  <1>10. SumFunctionOnSet(rowSum, S) = SumFunctionOnSet(partial(S), T)
    BY <1>9 DEF Good
  <1>11. SumFunctionOnSet(partial(S), T) = SumFunctionOnSet(columnSum, T)
    <2>1. PICK g : g = partial(S)
      OBVIOUS
    <2>2. \A y \in T : g[y] = columnSum[y] /\ g[y] \in Int
      BY <1>6, <1>3, <2>1
    <2>. QED BY <2>1, <2>2, SumOfSame
  <1>. QED BY <1>10, <1>11, <1>4 DEF rowSum

\* A sum changes with one of its values by as much.
LEMMA SumChange ==
  ASSUME NEW S, IsFiniteSet(S), NEW f, NEW g, \A s \in S : f[s] \in Int /\ g[s] \in Int,
         NEW x \in S, \A s \in S : s # x => g[s] = f[s]
  PROVE  /\ SumFunctionOnSet(f, S) \in Int /\ SumFunctionOnSet(g, S) \in Int
         /\ SumFunctionOnSet(g, S) - g[x] = SumFunctionOnSet(f, S) - f[x]
  <1>1. PICK T : T = S \ {x}
    OBVIOUS
  <1>2. T \subseteq S /\ IsFiniteSet(T) /\ \A s \in T : g[s] = f[s] /\ g[s] \in Int
    BY <1>1, FS_Subset
  <1>3. SumFunctionOnSet(g, T) = SumFunctionOnSet(f, T)
    BY <1>2, SumOfSame
  <1>4. /\ SumFunctionOnSet(f, S) = f[x] + SumFunctionOnSet(f, T)
        /\ SumFunctionOnSet(g, S) = g[x] + SumFunctionOnSet(g, T)
    BY <1>1, SumLess
  <1>5. SumFunctionOnSet(f, T) \in Int
    BY <1>2, SumIsInt
  <1>. QED BY <1>3, <1>4, <1>5

\* The sum over some is the sum over all when the others count nothing.
LEMMA SumOfSome ==
  ASSUME NEW S, IsFiniteSet(S), NEW A \in SUBSET S, NEW f, NEW g,
         \A s \in A : f[s] = g[s] /\ g[s] \in Int, \A s \in S \ A : g[s] = 0
  PROVE  SumFunctionOnSet(f, A) = SumFunctionOnSet(g, S)
  <1>1. IsFiniteSet(A) /\ \A s \in S : g[s] \in Int
    BY FS_Subset
  <1>2. SumFunctionOnSet(f, A) = SumFunctionOnSet(g, A)
    BY <1>1, SumOfSame
  <1>3. SumFunctionOnSet(g, S) = SumFunctionOnSet(g, A)
    BY <1>1, SumWithoutZeros
  <1>. QED BY <1>2, <1>3

\* A sum in which one thing counts is what it counts.
LEMMA SumOfOne ==
  ASSUME NEW S, IsFiniteSet(S), NEW f, NEW x \in S, \A s \in S : f[s] \in Int,
         \A s \in S : s # x => f[s] = 0
  PROVE  SumFunctionOnSet(f, S) = f[x]
  <1>1. SumFunctionOnSet(f, S) = SumFunctionOnSet(f, {x})
    BY SumWithoutZeros
  <1>2. SumFunctionOnSet(f, {x}) = f[x] + SumFunctionOnSet(f, {x} \ {x})
    BY FS_Singleton, SumLess
  <1>3. {x} \ {x} = {}
    OBVIOUS
  <1>. QED BY <1>1, <1>2, <1>3, SumOfNothing

\* Sorted by a class, a sum is the sum of what its classes add up to.
LEMMA SumByClass ==
  ASSUME NEW S, IsFiniteSet(S), NEW K, IsFiniteSet(K), NEW f, NEW class,
         \A s \in S : f[s] \in Int /\ class[s] \in K
  PROVE  SumFunctionOnSet(f, S)
           = SumFunctionOnSet([k \in K |-> SumFunctionOnSet(f, {s \in S : class[s] = k})], K)
  <1>. DEFINE row == [s \in S |-> [k \in K |-> IF class[s] = k THEN f[s] ELSE 0]]
              across == [s \in S |-> SumFunctionOnSet(row[s], K)]
              down == [k \in K |-> SumFunctionOnSet([s \in S |-> row[s][k]], S)]
  <1>1. \A s \in S, k \in K : row[s][k] \in Int
    OBVIOUS
  <1>2. ASSUME NEW s \in S PROVE SumFunctionOnSet(row[s], K) = f[s]
    <2>1. /\ \A k \in K : row[s][k] \in Int
          /\ \A k \in K : k # class[s] => row[s][k] = 0
          /\ class[s] \in K /\ row[s][class[s]] = f[s]
      OBVIOUS
    <2>. HIDE DEF row
    <2>. QED BY <2>1, SumOfOne
  <1>3. ASSUME NEW k \in K
        PROVE  SumFunctionOnSet([s \in S |-> row[s][k]], S) = SumFunctionOnSet(f, {s \in S : class[s] = k})
    <2>. DEFINE A == {s \in S : class[s] = k}
                g == [s \in S |-> row[s][k]]
    <2>1. /\ A \in SUBSET S
          /\ \A s \in A : f[s] = g[s] /\ g[s] \in Int
          /\ \A s \in S \ A : g[s] = 0
      OBVIOUS
    <2>. HIDE DEF A, g
    <2>2. SumFunctionOnSet(f, A) = SumFunctionOnSet(g, S)
      BY <2>1, SumOfSome
    <2>. QED BY <2>2 DEF A, g
  <1>. HIDE DEF row
  <1>4. SumFunctionOnSet(across, S) = SumFunctionOnSet(down, K)
    BY <1>1, SumExchange
  <1>5. SumFunctionOnSet(f, S) = SumFunctionOnSet(across, S)
    <2>1. \A s \in S : f[s] = across[s] /\ f[s] \in Int
      BY <1>2
    <2>. HIDE DEF across
    <2>. QED BY <2>1, SumOfSame
  <1>6. down = [k \in K |-> SumFunctionOnSet(f, {s \in S : class[s] = k})]
    BY <1>3
  <1>. QED BY <1>4, <1>5, <1>6

LEMMA SumOfSingle ==
  ASSUME NEW f, NEW x, f[x] \in Int
  PROVE  SumFunctionOnSet(f, {x}) = f[x]
  <1>1. IsFiniteSet({x}) /\ {x} \ {x} = {}
    BY FS_Singleton
  <1>2. SumFunctionOnSet(f, {x}) = f[x] + SumFunctionOnSet(f, {x} \ {x})
    BY <1>1, SumLess
  <1>. QED BY <1>1, <1>2, SumOfNothing

\* Renamed one by one, what is added stays the same.
LEMMA SumOverImage ==
  ASSUME NEW S, IsFiniteSet(S), NEW T, NEW to, NEW f, NEW g, T = {to[s] : s \in S},
         \A s \in S : \A t \in S : to[s] = to[t] => s = t,
         \A s \in S : f[s] \in Int /\ g[to[s]] = f[s]
  PROVE  IsFiniteSet(T) /\ SumFunctionOnSet(g, T) = SumFunctionOnSet(f, S)
  <1>. DEFINE onto == [s \in S |-> to[s]]
              grouped == [t \in T |-> SumFunctionOnSet(f, {s \in S : to[s] = t})]
  <1>1. onto \in Surjection(S, T)
    BY DEF Surjection
  <1>2. IsFiniteSet(T)
    <2>. HIDE DEF onto
    <2>. QED BY <1>1, FS_Surjection
  <1>3. SumFunctionOnSet(f, S) = SumFunctionOnSet(grouped, T)
    <2>1. \A s \in S : f[s] \in Int /\ to[s] \in T
      OBVIOUS
    <2>. QED BY <1>2, <2>1, SumByClass
  <1>4. \A t \in T : g[t] = grouped[t] /\ g[t] \in Int
    <2>. TAKE t \in T
    <2>1. PICK s \in S : to[s] = t
      OBVIOUS
    <2>2. {x \in S : to[x] = t} = {s}
      BY <2>1
    <2>3. SumFunctionOnSet(f, {s}) = f[s]
      BY SumOfSingle
    <2>. QED BY <2>1, <2>2, <2>3
  <1>. HIDE DEF grouped
  <1>5. SumFunctionOnSet(g, T) = SumFunctionOnSet(grouped, T)
    BY <1>2, <1>4, SumOfSame
  <1>. QED BY <1>2, <1>3, <1>5
-----------------------------------------------------------------------------
(* The same for a fold whose step is a function.                           *)

Folds(step, base, g, S) ==
    g = [s \in SUBSET S |-> IF s = {} THEN base ELSE step[First(s)][g[s \ {First(s)}]]]

LEMMA FoldsIs ==
  ASSUME NEW step, NEW base, NEW g, NEW S, Folds(step, base, g, S), NEW s \in SUBSET S
  PROVE  g[s] = IF s = {} THEN base ELSE step[First(s)][g[s \ {First(s)}]]
  BY DEF Folds

LEMMA FoldsAgree ==
  ASSUME NEW S, IsFiniteSet(S), NEW step, NEW base, NEW g, NEW h, NEW T,
         S \subseteq T, Folds(step, base, g, S), Folds(step, base, h, T)
  PROVE  g[S] = h[S]
  <1>. DEFINE Good == {s \in SUBSET S : g[s] = h[s]}
  <1>1. ASSUME NEW s \in SUBSET S, \A u \in SUBSET s : u # s => u \in Good
        PROVE  s \in Good
    <2>1. /\ g[s] = IF s = {} THEN base ELSE step[First(s)][g[s \ {First(s)}]]
          /\ h[s] = IF s = {} THEN base ELSE step[First(s)][h[s \ {First(s)}]]
      <3>1. s \in SUBSET T
        OBVIOUS
      <3>. QED BY <3>1, FoldsIs
    <2>2. CASE s = {}
      BY <2>1, <2>2
    <2>3. CASE s # {}
      <3>1. s \ {First(s)} \in SUBSET s /\ s \ {First(s)} # s
        BY <2>3, FirstIsMember
      <3>2. g[s \ {First(s)}] = h[s \ {First(s)}]
        BY <1>1, <3>1
      <3>. QED BY <2>1, <2>3, <3>2
    <2>. QED BY <2>2, <2>3
  <1>. HIDE DEF Good
  <1>2. \A s \in SUBSET S : s \in Good
    BY <1>1, SubsetInduction
  <1>. QED BY <1>2 DEF Good

LEMMA FoldsExists ==
  ASSUME NEW S, IsFiniteSet(S), NEW step, NEW base
  PROVE  \E g : Folds(step, base, g, S)
  <1>. DEFINE Good == {T \in SUBSET S : \E g : Folds(step, base, g, T)}
              Of(U) == CHOOSE g : Folds(step, base, g, U)
  <1>1. ASSUME NEW T \in SUBSET S, \A U \in SUBSET T : U # T => U \in Good
        PROVE  T \in Good
    <2>1. \A U \in SUBSET T : U # T => Folds(step, base, Of(U), U)
      BY <1>1
    <2>. HIDE DEF Of
    <2>. DEFINE g == [s \in SUBSET T |->
                        IF s = {} THEN base
                        ELSE step[First(s)][Of(s \ {First(s)})[s \ {First(s)}]]]
    <2>2. ASSUME NEW s \in SUBSET T, s # T
          PROVE  g[s] = Of(s)[s]
      <3>1. Folds(step, base, Of(s), s)
        BY <2>1, <2>2
      <3>2. Of(s)[s] = IF s = {} THEN base ELSE step[First(s)][Of(s)[s \ {First(s)}]]
        BY <3>1, FoldsIs
      <3>3. ASSUME s # {}
            PROVE  Of(s)[s \ {First(s)}] = Of(s \ {First(s)})[s \ {First(s)}]
        <4>. DEFINE u == s \ {First(s)}
        <4>1. u \subseteq s /\ u \in SUBSET T /\ u # T
          BY <2>2, <3>3, FirstIsMember
        <4>2. Folds(step, base, Of(u), u) /\ IsFiniteSet(u)
          BY <2>1, <4>1, FS_Subset
        <4>. HIDE DEF u
        <4>3. Of(u)[u] = Of(s)[u]
          BY <3>1, <4>1, <4>2, FoldsAgree
        <4>. QED BY <4>3 DEF u
      <3>. QED BY <3>2, <3>3
    <2>3. \A s \in SUBSET T : s # {} =>
              g[s \ {First(s)}] = Of(s \ {First(s)})[s \ {First(s)}]
      <3>. TAKE s \in SUBSET T
      <3>. HAVE s # {}
      <3>1. s \ {First(s)} \in SUBSET T /\ s \ {First(s)} # T
        BY FirstIsMember
      <3>. HIDE DEF g
      <3>. QED BY <2>2, <3>1
    <2>4. g = [s \in SUBSET T |-> IF s = {} THEN base ELSE step[First(s)][g[s \ {First(s)}]]]
      BY <2>3
    <2>5. Folds(step, base, g, T)
      BY <2>4 DEF Folds
    <2>. QED BY <2>5
  <1>. HIDE DEF Good
  <1>2. \A T \in SUBSET S : T \in Good
    BY <1>1, SubsetInduction
  <1>3. S \in Good
    BY <1>2
  <1>. QED BY <1>3 DEF Good
=============================================================================
