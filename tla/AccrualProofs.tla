---------------------------- MODULE AccrualProofs ----------------------------
(***************************************************************************)
(* Proofs about the amounts a user records: Accrual and MonthFigures, for  *)
(* any items, cards, category rows, rates and calendar, and Holdings, for  *)
(* any forms, positions, programmes and dates.                             *)
(*                                                                         *)
(* Splits: what the largest remainders give out is exactly the amount, and *)
(* to no row more than it has, because as many rows rank before a number   *)
(* of cents as there are cents, and all of those have a remainder.         *)
(*                                                                         *)
(* Schedules: the running total grows by what each month bills, and the    *)
(* window of occurrences holds the months that bill something.             *)
(*                                                                         *)
(* Holdings: an entry of points is owned once and exists, a row says of    *)
(* its bank side what its figures ask for, and the row a view has loaded   *)
(* still owns its entry unless another tab cut the link.                   *)
(*                                                                         *)
(* Costs: operations are replayed one by one in a total order; each keeps  *)
(* the sum of the parts and the balance of what was paid.                  *)
(***************************************************************************)
EXTENDS MonthFigures, Holdings, Sums

-----------------------------------------------------------------------------
(* Sums and ranks.                                                         *)

\* A sum of multiples.
LEMMA SumTimes ==
  ASSUME NEW S, IsFiniteSet(S), NEW f, NEW g, NEW n \in Int,
         \A s \in S : f[s] \in Int /\ g[s] = n * f[s]
  PROVE  SumFunctionOnSet(g, S) = n * SumFunctionOnSet(f, S)
  <1>. DEFINE Good == {T \in SUBSET S : SumFunctionOnSet(g, T) = n * SumFunctionOnSet(f, T)}
  <1>0. \A s \in S : g[s] \in Int
    OBVIOUS
  <1>1. {} \in Good
    BY SumOfNothing
  <1>2. ASSUME NEW T \in SUBSET S, NEW x \in T, T \ {x} \in Good PROVE T \in Good
    <2>1. /\ SumFunctionOnSet(f, T) = f[x] + SumFunctionOnSet(f, T \ {x})
          /\ SumFunctionOnSet(g, T) = g[x] + SumFunctionOnSet(g, T \ {x})
      BY <1>0, SumFromAny
    <2>2. PICK a : a = SumFunctionOnSet(f, T \ {x})
      OBVIOUS
    <2>3. a \in Int
      BY <2>2, SumIsInt
    <2>4. SumFunctionOnSet(g, T \ {x}) = n * a
      BY <1>2, <2>2
    <2>5. PICK b : b = f[x]
      OBVIOUS
    <2>6. b \in Int /\ g[x] = n * b
      BY <2>5
    <2>7. n * (b + a) = n * b + n * a
      BY <2>3, <2>6
    <2>. QED BY <2>1, <2>2, <2>4, <2>5, <2>6, <2>7
  <1>3. S \in Good
    <2>. HIDE DEF Good
    <2>. QED BY <1>1, <1>2, RemovalInduction
  <1>. QED BY <1>3

\* A sum of numbers up to n is at most n for each.
LEMMA SumBound ==
  ASSUME NEW S, IsFiniteSet(S), NEW f, NEW n \in Nat, \A s \in S : f[s] \in 0 .. n
  PROVE  SumFunctionOnSet(f, S) =< n * Cardinality(S)
  <1>. DEFINE Good == {T \in SUBSET S : SumFunctionOnSet(f, T) =< n * Cardinality(T)}
  <1>1. {} \in Good
    BY SumOfNothing, FS_EmptySet
  <1>2. ASSUME NEW T \in SUBSET S, NEW x \in T, T \ {x} \in Good PROVE T \in Good
    <2>1. SumFunctionOnSet(f, T) = f[x] + SumFunctionOnSet(f, T \ {x})
      BY SumFromAny
    <2>2. IsFiniteSet(T) /\ IsFiniteSet(T \ {x})
      BY FS_Subset
    <2>3. PICK k : k = Cardinality(T \ {x})
      OBVIOUS
    <2>4. k \in Nat /\ Cardinality(T) = k + 1
      BY <2>2, <2>3, FS_CardinalityType, FS_RemoveElement
    <2>5. PICK a : a = SumFunctionOnSet(f, T \ {x})
      OBVIOUS
    <2>6. a \in Int /\ a =< n * k
      BY <1>2, <2>3, <2>5, SumIsInt
    <2>7. n * (k + 1) = n * k + n /\ n * k \in Int
      BY <2>4
    <2>8. f[x] + a =< n * (k + 1)
      BY <2>6, <2>7
    <2>. QED BY <2>1, <2>4, <2>5, <2>8
  <1>3. S \in Good
    <2>. HIDE DEF Good
    <2>. QED BY <1>1, <1>2, RemovalInduction
  <1>. QED BY <1>3

\* What a set counts is the sum of its marks.
LEMMA SumOfMarks ==
  ASSUME NEW S, IsFiniteSet(S), NEW A \in SUBSET S, NEW f,
         \A s \in S : f[s] = IF s \in A THEN 1 ELSE 0
  PROVE  SumFunctionOnSet(f, S) = Cardinality(A)
  <1>. DEFINE Good == {T \in SUBSET A : SumFunctionOnSet(f, T) = Cardinality(T)}
  <1>0. IsFiniteSet(A)
    BY FS_Subset
  <1>1. {} \in Good
    BY SumOfNothing, FS_EmptySet
  <1>2. ASSUME NEW T \in SUBSET A, NEW x \in T, T \ {x} \in Good PROVE T \in Good
    <2>1. SumFunctionOnSet(f, T) = f[x] + SumFunctionOnSet(f, T \ {x})
      BY SumFromAny
    <2>2. IsFiniteSet(T) /\ IsFiniteSet(T \ {x})
      BY <1>0, FS_Subset
    <2>3. Cardinality(T \ {x}) \in Nat /\ Cardinality(T) = Cardinality(T \ {x}) + 1
      BY <2>2, FS_CardinalityType, FS_RemoveElement
    <2>4. f[x] = 1
      OBVIOUS
    <2>. QED BY <1>2, <2>1, <2>3, <2>4
  <1>3. A \in Good
    <2>. HIDE DEF Good
    <2>. QED BY <1>0, <1>1, <1>2, RemovalInduction
  <1>4. SumFunctionOnSet(f, S) = SumFunctionOnSet(f, A)
    BY SumWithoutZeros
  <1>. QED BY <1>3, <1>4

\* An order that puts some elements above each other one.
Ranks(S, above) ==
    /\ \A i \in S : above[i] \in SUBSET S /\ i \notin above[i]
    /\ \A i, j \in S : j \in above[i] => above[j] \subseteq above[i]
    /\ \A i, j \in S : i # j => i \in above[j] \/ j \in above[i]

\* Of those with fewer than n above them there are n.
LEMMA RanksCount ==
  ASSUME NEW S, IsFiniteSet(S), NEW above, Ranks(S, above)
  PROVE  \A n \in Nat : n =< Cardinality(S) =>
            Cardinality({i \in S : Cardinality(above[i]) < n}) = n
  <1>. DEFINE First_(n) == {i \in S : Cardinality(above[i]) < n}
              Good == {n \in Nat : n =< Cardinality(S) => Cardinality(First_(n)) = n}
  <1>0. \A i \in S : IsFiniteSet(above[i]) /\ Cardinality(above[i]) \in Nat
    BY FS_Subset, FS_CardinalityType DEF Ranks
  <1>1. 0 \in Good
    <2>1. First_(0) = {}
      BY <1>0
    <2>. QED BY <2>1, FS_EmptySet
  <1>2. ASSUME NEW n \in Nat, n \in Good PROVE n + 1 \in Good
    <2>. SUFFICES ASSUME n + 1 =< Cardinality(S)
                  PROVE  Cardinality(First_(n + 1)) = n + 1
      OBVIOUS
    <2>0. Cardinality(S) \in Nat
      BY FS_CardinalityType
    <2>1. PICK T : T = First_(n)
      OBVIOUS
    <2>2. T \in SUBSET S /\ IsFiniteSet(T) /\ Cardinality(T) = n
      BY <1>2, <2>0, <2>1, FS_Subset
    <2>3. S \ T # {}
      <3>. SUFFICES ASSUME S \ T = {} PROVE FALSE
        OBVIOUS
      <3>1. S = T
        BY <2>2
      <3>. QED BY <2>0, <2>2, <3>1
    <2>4. PICK x \in S \ T : \A y \in S \ T : Cardinality(above[x]) =< Cardinality(above[y])
      <3>. DEFINE sizes == {Cardinality(above[y]) : y \in S \ T}
      <3>1. sizes \in SUBSET Nat /\ sizes # {}
        BY <1>0, <2>3
      <3>2. PICK k \in sizes : \A l \in sizes : k =< l
        BY <3>1, NaturalsHaveLeast
      <3>. QED BY <3>2
    <2>5. \A y \in S : \A z \in above[y] : Cardinality(above[z]) + 1 =< Cardinality(above[y])
      <3>. SUFFICES ASSUME NEW y \in S, NEW z \in above[y]
                    PROVE  Cardinality(above[z]) + 1 =< Cardinality(above[y])
        OBVIOUS
      <3>1. z \in S /\ above[z] \subseteq above[y] \ {z}
        BY DEF Ranks
      <3>2. IsFiniteSet(above[y] \ {z}) /\ Cardinality(above[y] \ {z}) = Cardinality(above[y]) - 1
        BY <1>0, FS_RemoveElement
      <3>3. Cardinality(above[z]) =< Cardinality(above[y] \ {z})
        BY <3>1, <3>2, FS_Subset
      <3>. QED BY <1>0, <3>1, <3>2, <3>3
    <2>6. above[x] \subseteq T
      <3>. SUFFICES ASSUME NEW z \in above[x], z \notin T PROVE FALSE
        OBVIOUS
      <3>1. z \in S \ T /\ x \in S
        BY DEF Ranks
      <3>2. Cardinality(above[z]) + 1 =< Cardinality(above[x])
        BY <2>5, <3>1
      <3>. QED BY <1>0, <2>4, <3>1, <3>2
    <2>7. T \subseteq above[x]
      <3>. SUFFICES ASSUME NEW y \in T, y \notin above[x] PROVE FALSE
        OBVIOUS
      <3>1. y \in S /\ x \in S /\ y # x /\ Cardinality(above[y]) < n /\ ~(Cardinality(above[x]) < n)
        BY <2>1, <2>4
      <3>2. x \in above[y]
        BY <3>1 DEF Ranks
      <3>3. Cardinality(above[x]) + 1 =< Cardinality(above[y])
        BY <2>5, <3>1, <3>2
      <3>. QED BY <1>0, <3>1, <3>3
    <2>8. Cardinality(above[x]) = n /\ x \in S
      <3>1. above[x] = T
        BY <2>6, <2>7
      <3>. QED BY <2>2, <3>1
    <2>9. ASSUME NEW z \in S PROVE z \in First_(n + 1) <=> z \in T \union {x}
      <3>1. CASE z \in T
        BY <1>0, <2>1, <3>1
      <3>2. CASE z = x
        BY <2>8, <3>2
      <3>3. CASE z \notin T /\ z # x
        <4>1. z \notin above[x]
          BY <2>6, <3>3
        <4>2. x \in above[z]
          BY <2>8, <3>3, <4>1 DEF Ranks
        <4>3. n + 1 =< Cardinality(above[z])
          BY <2>5, <2>8, <4>2
        <4>. QED BY <1>0, <3>3, <4>3
      <3>. QED BY <3>1, <3>2, <3>3
    <2>10. First_(n + 1) = T \union {x}
      BY <2>2, <2>4, <2>9
    <2>. QED BY <2>2, <2>4, <2>10, FS_AddElement
  <1>3. \A n \in Nat : n \in Good
    <2>. HIDE DEF Good
    <2>. QED BY <1>1, <1>2, NumberInduction
  <1>. QED BY <1>3

-----------------------------------------------------------------------------
(* Splits.                                                                 *)

\* What the provers know of division with a remainder.
LEMMA Division ==
  ASSUME NEW a \in Nat, NEW b \in Nat, b > 0
  PROVE  /\ a \div b \in Nat /\ a % b \in Nat /\ a % b < b
         /\ a = b * (a \div b) + (a % b)
  <1>. DEFINE low == a \div b
              r == a % b
  <1>1. low \in Nat /\ r \in Nat /\ r < b /\ a = b * low + r
    OBVIOUS
  <1>. QED BY <1>1

\* A product of numbers is a number, for steps that hide what the factors are.
LEMMA Products ==
  /\ \A a, b \in Nat : a * b \in Nat
  /\ \A a, b \in Int : a * b \in Int
  OBVIOUS

\* A quotient of n parts of m by t is at most m when n is at most t, and less
\* when something remains.
LEMMA QuotientFits ==
  ASSUME NEW n \in Nat, NEW m \in Nat, NEW t \in Nat, n =< t,
         NEW q \in Nat, NEW r \in Nat, n * m = t * q + r, t > 0
  PROVE  q =< m /\ (r > 0 => q + 1 =< m)
  <1>1. n * m =< t * m
    OBVIOUS
  <1>2. t * q + r =< t * m
    BY <1>1
  <1>3. q =< m
    <2>. SUFFICES ASSUME q >= m + 1 PROVE FALSE
      OBVIOUS
    <2>1. t * q >= t * (m + 1)
      OBVIOUS
    <2>2. t * (m + 1) = t * m + t
      OBVIOUS
    <2>3. PICK x, y : x = t * q /\ y = t * m
      OBVIOUS
    <2>4. x \in Int /\ y \in Int
      BY <2>3
    <2>. QED BY <1>2, <2>1, <2>2, <2>3, <2>4
  <1>4. ASSUME r > 0 PROVE q # m
    <2>. SUFFICES ASSUME q = m PROVE FALSE
      OBVIOUS
    <2>1. PICK x : x = t * m
      OBVIOUS
    <2>2. x \in Int /\ x + r =< x
      BY <1>2, <2>1
    <2>. QED BY <1>4, <2>2
  <1>. QED BY <1>3, <1>4

LEMMA TotalIs ==
  ASSUME NEW S, NEW f, DOMAIN f = S
  PROVE  Total(f) = SumFunctionOnSet(f, S)
  BY DEF Total, SumFunction

\* The largest remainders divide any amount there is room for: to no row more
\* than it has, and to the rows together the amount, to the cent.
LEMMA SplitIsExact ==
  ASSUME NEW S \in SUBSET Int, IsFiniteSet(S), NEW caps \in [S -> Nat], NEW amount \in Nat,
         amount =< Total(caps)
  PROVE  /\ SplitAmount(amount, caps) \in [S -> Nat]
         /\ \A i \in S : SplitAmount(amount, caps)[i] =< caps[i]
         /\ Total(SplitAmount(amount, caps)) = amount
  <1>. DEFINE split == SplitAmount(amount, caps)
  <1>1. PICK total : total = Total(caps)
    OBVIOUS
  <1>2. total \in Nat /\ total = SumFunctionOnSet(caps, S) /\ amount =< total
    <2>1. total = SumFunctionOnSet(caps, S)
      BY <1>1, TotalIs
    <2>2. \A i \in S : caps[i] \in Nat
      OBVIOUS
    <2>3. SumFunctionOnSet(caps, S) \in Nat
      BY <2>2, SumIsNat
    <2>. QED BY <1>1, <2>1, <2>3
  <1>3. CASE amount = 0 \/ total = 0
    <2>1. split = [i \in S |-> 0]
      BY <1>1, <1>3 DEF SplitAmount
    <2>2. amount = 0
      BY <1>2, <1>3
    <2>. DEFINE none == [i \in S |-> 0]
    <2>3. Total(none) = SumFunctionOnSet(none, S)
      BY TotalIs
    <2>4. SumFunctionOnSet(none, S) = 0
      <3>1. \A i \in S : none[i] = 0
        OBVIOUS
      <3>. HIDE DEF none
      <3>2. SumFunctionOnSet(none, S) = SumFunctionOnSet(none, {})
        <4>1. /\ \A i \in S : none[i] \in Int
              /\ \A i \in S \ {} : none[i] = 0
          BY <3>1
        <4>2. PICK e : e = {}
          OBVIOUS
        <4>3. e \in SUBSET S /\ \A i \in S \ e : none[i] = 0
          BY <4>1, <4>2
        <4>4. SumFunctionOnSet(none, S) = SumFunctionOnSet(none, e)
          BY <4>1, <4>3, SumWithoutZeros
        <4>. QED BY <4>2, <4>4
      <3>. QED BY <3>2, SumOfNothing
    <2>. QED BY <2>1, <2>2, <2>3, <2>4
  <1>4. CASE amount > 0 /\ total > 0
    <2>. DEFINE part == [i \in S |-> amount * caps[i]]
                floor == [i \in S |-> (amount * caps[i]) \div total]
                remainder == [i \in S |-> (amount * caps[i]) % total]
                scaled == [i \in S |-> total * floor[i]]
                cents == amount - Total(floor)
                above == [i \in S |-> {j \in S : \/ remainder[j] > remainder[i]
                                                 \/ remainder[j] = remainder[i] /\ j < i}]
                raised == {i \in S : Cardinality(above[i]) < cents}
                mark == [i \in S |-> IF i \in raised THEN 1 ELSE 0]
                some == {i \in S : remainder[i] > 0}
    <2>1. split = [i \in S |-> floor[i] + mark[i]]
      <3>1. ~(amount = 0 \/ Total(caps) = 0) /\ DOMAIN caps = S
        BY <1>1, <1>2, <1>4
      <3>2. split =
              LET fl == [i \in DOMAIN caps |-> (amount * caps[i]) \div Total(caps)]
                  re == [i \in DOMAIN caps |-> (amount * caps[i]) % Total(caps)]
              IN  [i \in DOMAIN caps |->
                     fl[i] + IF Cardinality({j \in DOMAIN caps : \/ re[j] > re[i]
                                                                 \/ re[j] = re[i] /\ j < i})
                                  < amount - Total(fl)
                             THEN 1 ELSE 0]
        BY <3>1 DEF SplitAmount
      <3>3. split = [i \in S |-> floor[i] + IF Cardinality({j \in S : \/ remainder[j] > remainder[i]
                                                                      \/ remainder[j] = remainder[i] /\ j < i})
                                             < cents THEN 1 ELSE 0]
        BY <1>1, <3>1, <3>2
      <3>. QED BY <3>3
    <2>2. \A i \in S : /\ part[i] = amount * caps[i] /\ part[i] \in Nat
                       /\ floor[i] \in Nat /\ remainder[i] \in Nat /\ remainder[i] < total
                       /\ scaled[i] = total * floor[i] /\ scaled[i] \in Nat
                       /\ part[i] = scaled[i] + remainder[i]
      <3>. SUFFICES ASSUME NEW i \in S
                    PROVE  /\ amount * caps[i] \in Nat
                           /\ floor[i] \in Nat /\ remainder[i] \in Nat /\ remainder[i] < total
                           /\ total * floor[i] \in Nat
                           /\ amount * caps[i] = total * floor[i] + remainder[i]
        OBVIOUS
      <3>1. PICK a : a = amount * caps[i]
        OBVIOUS
      <3>2. a \in Nat
        BY <3>1, Products
      <3>3. floor[i] = a \div total /\ remainder[i] = a % total
        BY <3>1
      <3>4. /\ a \div total \in Nat /\ a % total \in Nat /\ a % total < total
            /\ a = total * (a \div total) + (a % total)
        BY <1>2, <1>4, <3>2, Division
      <3>5. total * floor[i] \in Nat
        BY <1>2, <3>3, <3>4, Products
      <3>. HIDE DEF floor, remainder
      <3>. QED BY <3>1, <3>2, <3>3, <3>4, <3>5
    <2>3. \A i \in S : mark[i] = (IF i \in raised THEN 1 ELSE 0) /\ mark[i] \in Nat
      OBVIOUS
    <2>4. Ranks(S, above)
      <3>1. \A i \in S : above[i] \in SUBSET S /\ i \notin above[i]
        BY <2>2
      <3>2. ASSUME NEW i \in S, NEW j \in S, j \in above[i] PROVE above[j] \subseteq above[i]
        <4>. SUFFICES ASSUME NEW k \in S, k \in above[j] PROVE k \in above[i]
          BY <3>1
        <4>1. /\ remainder[k] > remainder[j] \/ (remainder[k] = remainder[j] /\ k < j)
              /\ remainder[j] > remainder[i] \/ (remainder[j] = remainder[i] /\ j < i)
          BY <3>2
        <4>2. /\ remainder[i] \in Nat /\ remainder[j] \in Nat /\ remainder[k] \in Nat
              /\ i \in Int /\ j \in Int /\ k \in Int
          BY <2>2
        <4>3. remainder[k] > remainder[i] \/ (remainder[k] = remainder[i] /\ k < i)
          <5>. HIDE DEF remainder
          <5>. QED BY <4>1, <4>2
        <4>. QED BY <4>3
      <3>3. ASSUME NEW i \in S, NEW j \in S, i # j PROVE i \in above[j] \/ j \in above[i]
        <4>1. remainder[i] \in Nat /\ remainder[j] \in Nat /\ i \in Int /\ j \in Int
          BY <2>2
        <4>2. \/ remainder[i] > remainder[j] \/ (remainder[i] = remainder[j] /\ i < j)
              \/ remainder[j] > remainder[i] \/ (remainder[j] = remainder[i] /\ j < i)
          <5>. HIDE DEF remainder
          <5>. QED BY <3>3, <4>1
        <4>. QED BY <4>2
      <3>. QED BY <3>1, <3>2, <3>3 DEF Ranks
    <2>5. \A i \in S : above[i] = {j \in S : \/ remainder[j] > remainder[i]
                                             \/ remainder[j] = remainder[i] /\ j < i}
      OBVIOUS
    <2>6. Total(floor) = SumFunctionOnSet(floor, S)
      BY TotalIs
    <2>7. raised = {i \in S : Cardinality(above[i]) < cents} /\ some = {i \in S : remainder[i] > 0}
      OBVIOUS
    <2>. DEFINE fl == SumFunctionOnSet(floor, S)
    <2>8. cents = amount - fl
      BY <2>6
    <2>9. /\ \A i \in S : part[i] \in Int /\ floor[i] \in Int /\ remainder[i] \in Int /\ scaled[i] \in Int
          /\ \A i \in S : caps[i] \in Int
          /\ amount \in Int /\ total \in Int
      BY <1>2, <2>2
    <2>. HIDE DEF part, floor, remainder, scaled, above, mark, cents, raised, some, split
    <2>10. PICK a, b, r : /\ a = fl /\ b = SumFunctionOnSet(part, S)
                          /\ r = SumFunctionOnSet(remainder, S)
      OBVIOUS
    <2>11. a \in Nat /\ b \in Int /\ r \in Nat
      BY <2>2, <2>9, <2>10, SumIsInt, SumIsNat
    <2>12. b = amount * total
      <3>1. PICK D, f, g, n : D = S /\ f = caps /\ g = part /\ n = amount
        OBVIOUS
      <3>2. n \in Int /\ IsFiniteSet(D) /\ \A i \in D : f[i] \in Int /\ g[i] = n * f[i]
        BY <2>2, <2>9, <3>1
      <3>3. SumFunctionOnSet(g, D) = n * SumFunctionOnSet(f, D)
        <4>. USE <3>2
        <4>. QED BY SumTimes
      <3>. QED BY <1>2, <2>10, <3>1, <3>3
    <2>13. b = total * a + r
      <3>1. b = SumFunctionOnSet(scaled, S) + r
        <4>1. \A i \in S : /\ scaled[i] \in Int /\ remainder[i] \in Int
                           /\ part[i] = scaled[i] + remainder[i]
          BY <2>2
        <4>2. SumFunctionOnSet(part, S) = SumFunctionOnSet(scaled, S) + SumFunctionOnSet(remainder, S)
          BY <4>1, SumOfSums
        <4>. QED BY <2>10, <4>2
      <3>2. SumFunctionOnSet(scaled, S) = total * a
        <4>1. PICK D, f, g, n : D = S /\ f = floor /\ g = scaled /\ n = total
          OBVIOUS
        <4>2. n \in Int /\ IsFiniteSet(D) /\ \A i \in D : f[i] \in Int /\ g[i] = n * f[i]
          BY <2>2, <2>9, <4>1
        <4>3. SumFunctionOnSet(g, D) = n * SumFunctionOnSet(f, D)
          <5>. USE <4>2
          <5>. QED BY SumTimes
        <4>. QED BY <2>10, <4>1, <4>3
      <3>. QED BY <3>1, <3>2
    <2>14. cents \in Int /\ total * cents = r
      <3>1. cents = amount - a
        BY <2>8, <2>10
      <3>2. total * (amount - a) = amount * total - total * a
        BY <1>2, <2>11
      <3>3. total * a \in Int
        BY <1>2, <2>11, Products
      <3>. QED BY <2>11, <2>12, <2>13, <3>1, <3>2, <3>3
    <2>15. cents >= 0
      <3>. SUFFICES ASSUME cents =< -1 PROVE FALSE
        BY <2>14
      <3>1. total * cents =< total * (-1)
        BY <1>2, <1>4, <2>14
      <3>. QED BY <1>2, <1>4, <2>11, <2>14, <3>1
    <2>16. IsFiniteSet(some) /\ Cardinality(some) \in Nat /\ Cardinality(some) =< Cardinality(S)
      BY <2>7, FS_Subset, FS_CardinalityType
    <2>17. cents =< Cardinality(some)
      <3>1. r = SumFunctionOnSet(remainder, some)
        <4>1. \A i \in S \ some : remainder[i] = 0
          BY <2>2, <2>7
        <4>2. some \in SUBSET S
          BY <2>7
        <4>. QED BY <2>9, <2>10, <4>1, <4>2, SumWithoutZeros
      <3>2. r =< total * Cardinality(some)
        <4>1. \A i \in some : remainder[i] \in 0 .. total
          BY <1>2, <2>2, <2>7
        <4>. QED BY <1>2, <2>16, <3>1, <4>1, SumBound
      <3>3. PICK k : k = Cardinality(some)
        OBVIOUS
      <3>4. k \in Nat /\ total * cents =< total * k
        BY <2>14, <2>16, <3>2, <3>3
      <3>5. cents =< k
        <4>. SUFFICES ASSUME cents >= k + 1 PROVE FALSE
          BY <2>14, <3>4
        <4>1. total * cents >= total * (k + 1)
          BY <1>2, <1>4, <2>14, <3>4
        <4>2. total * (k + 1) = total * k + total /\ total * k \in Int /\ total * cents \in Int
          BY <1>2, <2>14, <3>4
        <4>. QED BY <1>2, <1>4, <3>4, <4>1, <4>2
      <3>. QED BY <3>3, <3>5
    <2>18. Cardinality(raised) = cents
      <3>1. cents \in Nat /\ cents =< Cardinality(S)
        BY <2>14, <2>15, <2>16, <2>17, FS_CardinalityType
      <3>. QED BY <2>4, <2>7, <3>1, RanksCount
    <2>19. \A i \in raised : remainder[i] > 0
      <3>. SUFFICES ASSUME NEW i \in raised, ~(remainder[i] > 0) PROVE FALSE
        OBVIOUS
      <3>1. i \in S /\ remainder[i] = 0 /\ Cardinality(above[i]) < cents
        BY <2>2, <2>7
      <3>2. some \subseteq above[i]
        BY <2>5, <2>7, <3>1
      <3>3. IsFiniteSet(above[i])
        BY <2>4, <3>1, FS_Subset DEF Ranks
      <3>4. Cardinality(some) =< Cardinality(above[i]) /\ Cardinality(above[i]) \in Nat
        BY <3>2, <3>3, FS_Subset, FS_CardinalityType
      <3>. QED BY <2>14, <2>16, <2>17, <3>1, <3>4
    <2>20. ASSUME NEW i \in S PROVE split[i] \in Nat /\ split[i] =< caps[i]
      <3>1. split[i] = floor[i] + mark[i]
        BY <2>1
      <3>2. amount * caps[i] = total * floor[i] + remainder[i]
        BY <2>2
      <3>3. floor[i] =< caps[i] /\ (remainder[i] > 0 => floor[i] + 1 =< caps[i])
        BY <1>2, <1>4, <2>2, <3>2, QuotientFits
      <3>. QED BY <2>2, <2>3, <2>19, <3>1, <3>3
    <2>21. split \in [S -> Nat]
      BY <2>1, <2>20
    <2>22. Total(split) = amount
      <3>1. Total(split) = SumFunctionOnSet(split, S)
        BY <2>21, TotalIs
      <3>2. SumFunctionOnSet(split, S) = a + SumFunctionOnSet(mark, S)
        <4>1. \A i \in S : floor[i] \in Int /\ mark[i] \in Int /\ split[i] = floor[i] + mark[i]
          BY <2>1, <2>2, <2>3
        <4>. QED BY <2>10, <4>1, SumOfSums
      <3>3. SumFunctionOnSet(mark, S) = Cardinality(raised)
        <4>1. raised \in SUBSET S
          BY <2>7
        <4>. QED BY <2>3, <4>1, SumOfMarks
      <3>. QED BY <2>8, <2>10, <2>11, <2>18, <3>1, <3>2, <3>3
    <2>. QED BY <2>20, <2>21, <2>22 DEF split
  <1>. QED BY <1>2, <1>3, <1>4

-----------------------------------------------------------------------------
(* What installments leave of the rows.                                    *)

Installment(i, k) == IF k = 1 THEN FirstInstallmentAmount(i) ELSE InstallmentAmount(i)

\* What the k-th installment takes of the rows, and what is left.
Taken(i, left_, k) == SplitAmount(Installment(i, k), left_[k - 1])
After(i, rr, left_, k) ==
    IF k = 0 THEN rr
    ELSE [r \in DOMAIN rr |-> left_[k - 1][r] - Taken(i, left_, k)[r]]

Leaves(i, rr, n, left_) == left_ = [k \in 0 .. n |-> After(i, rr, left_, k)]

\* There is a function that follows the rows installment by installment.
LEMMA LeavesExists ==
  ASSUME NEW i, NEW rr, NEW n \in Nat
  PROVE  \E l : Leaves(i, rr, n, l)
  <1>. DEFINE Good == {k \in Nat : \E l : Leaves(i, rr, k, l)}
  <1>1. 0 \in Good
    <2>1. Leaves(i, rr, 0, [k \in 0 .. 0 |-> rr])
      BY DEF Leaves, After
    <2>. QED BY <2>1
  <1>2. ASSUME NEW k \in Nat, k \in Good PROVE k + 1 \in Good
    <2>1. PICK l : Leaves(i, rr, k, l)
      BY <1>2
    <2>. DEFINE last == [r \in DOMAIN rr |-> l[k][r] - SplitAmount(Installment(i, k + 1), l[k])[r]]
                next == [j \in 0 .. (k + 1) |-> IF j = k + 1 THEN last ELSE l[j]]
    <2>2. \A j \in 0 .. k : l[j] = After(i, rr, l, j)
      BY <2>1 DEF Leaves
    <2>3. \A j \in 0 .. (k + 1) : next[j] = After(i, rr, next, j)
      <3>. TAKE j \in 0 .. (k + 1)
      <3>1. CASE j = 0
        <4>1. next[j] = l[j]
          BY <3>1
        <4>2. l[j] = rr
          <5>1. 0 \in 0 .. k
            OBVIOUS
          <5>. QED BY <2>2, <3>1, <5>1 DEF After
        <4>. QED BY <3>1, <4>1, <4>2 DEF After
      <3>2. CASE j = k + 1
        <4>1. next[j - 1] = l[k] /\ next[j] = last /\ j # 0
          BY <3>2
        <4>. HIDE DEF next
        <4>. QED BY <3>2, <4>1 DEF After, Taken
      <3>3. CASE j # 0 /\ j # k + 1
        <4>1. next[j - 1] = l[j - 1] /\ next[j] = l[j] /\ j \in 0 .. k
          BY <3>3
        <4>2. After(i, rr, next, j) = After(i, rr, l, j)
          <5>. HIDE DEF next
          <5>. QED BY <4>1 DEF After, Taken
        <4>. QED BY <2>2, <4>1, <4>2
      <3>. QED BY <3>1, <3>2, <3>3
    <2>4. Leaves(i, rr, k + 1, next)
      <3>1. next = [j \in 0 .. (k + 1) |-> next[j]]
        OBVIOUS
      <3>. HIDE DEF next
      <3>. QED BY <2>3, <3>1 DEF Leaves
    <2>. QED BY <2>4
  <1>. HIDE DEF Good
  <1>3. n \in Good
    BY <1>1, <1>2, NumberInduction
  <1>. QED BY <1>3 DEF Good

\* RowsLeft is that function: each installment is split over what is left.
LEMMA RowsLeftIs ==
  ASSUME NEW i, NEW rr, i.installments \in Nat
  PROVE  /\ RowsLeft(i, rr)[0] = rr
         /\ \A k \in 1 .. i.installments :
               RowsLeft(i, rr)[k] = [r \in DOMAIN rr |->
                   RowsLeft(i, rr)[k - 1][r]
                     - SplitAmount(Installment(i, k), RowsLeft(i, rr)[k - 1])[r]]
  <1>. DEFINE n == i.installments
              L == CHOOSE l : l = [k \in 0 .. n |->
                      IF k = 0 THEN rr
                      ELSE LET amount == IF k = 1 THEN FirstInstallmentAmount(i)
                                         ELSE InstallmentAmount(i)
                               split == SplitAmount(amount, l[k - 1])
                           IN  [r \in DOMAIN rr |-> l[k - 1][r] - split[r]]]
  <1>1. RowsLeft(i, rr) = L
    BY DEF RowsLeft
  <1>2. PICK l : Leaves(i, rr, n, l)
    BY LeavesExists
  <1>3. l = [k \in 0 .. n |->
                      IF k = 0 THEN rr
                      ELSE LET amount == IF k = 1 THEN FirstInstallmentAmount(i)
                                         ELSE InstallmentAmount(i)
                               split == SplitAmount(amount, l[k - 1])
                           IN  [r \in DOMAIN rr |-> l[k - 1][r] - split[r]]]
    BY <1>2 DEF Leaves, After, Taken, Installment
  <1>4. L = [k \in 0 .. n |->
                      IF k = 0 THEN rr
                      ELSE LET amount == IF k = 1 THEN FirstInstallmentAmount(i)
                                         ELSE InstallmentAmount(i)
                               split == SplitAmount(amount, L[k - 1])
                           IN  [r \in DOMAIN rr |-> L[k - 1][r] - split[r]]]
    BY ONLY <1>3, Zenon
  <1>. HIDE DEF L
  <1>5. Leaves(i, rr, n, L)
    BY <1>4 DEF Leaves, After, Taken, Installment
  <1>6. \A k \in 0 .. n : L[k] = After(i, rr, L, k)
    <2>. HIDE DEF n
    <2>. QED BY <1>5 DEF Leaves
  <1>7. L[0] = rr
    <2>1. 0 \in 0 .. n
      OBVIOUS
    <2>. QED BY <1>6, <2>1 DEF After
  <1>8. ASSUME NEW k \in 1 .. n
        PROVE  L[k] = [r \in DOMAIN rr |-> L[k - 1][r] - SplitAmount(Installment(i, k), L[k - 1])[r]]
    <2>1. k \in 0 .. n /\ k # 0
      OBVIOUS
    <2>2. L[k] = After(i, rr, L, k)
      BY <1>6, <2>1
    <2>. QED BY ONLY <2>1, <2>2 DEF After, Taken
  <1>. QED BY <1>1, <1>7, <1>8

\* A sum of numbers that is nothing is of nothings.
LEMMA NothingAddsUp ==
  ASSUME NEW S, IsFiniteSet(S), NEW f, \A s \in S : f[s] \in Nat, SumFunctionOnSet(f, S) = 0
  PROVE  \A s \in S : f[s] = 0
  <1>. TAKE x \in S
  <1>1. PICK T : T = S \ {x}
    OBVIOUS
  <1>2. T \in SUBSET S /\ \A s \in S : f[s] \in Int
    BY <1>1
  <1>3. SumFunctionOnSet(f, T) \in Nat
    BY <1>2, SumIsNat
  <1>4. SumFunctionOnSet(f, S) = f[x] + SumFunctionOnSet(f, T)
    BY <1>1, <1>2, SumLess
  <1>. QED BY <1>3, <1>4

-----------------------------------------------------------------------------
(* Plans over their rows.                                                  *)

\* The fields of an item that the form accepts, and of its rows.
LEMMA ItemIs ==
  ASSUME NEW i \in Items, NEW c \in Cards, WellFormed(i, c), NEW rr \in SplitsOf(i)
  PROVE  /\ i.date \in Date /\ i.date.month \in Nat /\ i.amount \in Nat /\ i.amount > 0
         /\ i.fixed \in BOOLEAN /\ i.until \in Months \union {NoMonth}
         /\ i.installments \in Nat \ {0} /\ i.start \in Nat /\ i.start \in 1 .. i.installments
         /\ i.override \in {NoOverride, 0, 1}
         /\ IsPlan(i) => ~i.fixed
         /\ DOMAIN rr \in SUBSET Int /\ IsFiniteSet(DOMAIN rr)
         /\ rr \in [DOMAIN rr -> Nat] /\ Total(rr) = i.amount
  <1>1. /\ i.date \in Date /\ i.amount \in Nat /\ i.fixed \in BOOLEAN
        /\ i.until \in Months \union {NoMonth} /\ i.installments \in Nat \ {0}
        /\ i.start \in Nat /\ i.override \in {NoOverride, 0, 1}
    BY AccrualAssumption
  <1>2. i.date.month \in Months
    BY <1>1 DEF Date, DatesIn
  <1>3. rr \in Seq(Nat \ {0}) /\ Total(rr) = i.amount
    BY AccrualAssumption
  <1>4. DOMAIN rr = 1 .. Len(rr) /\ Len(rr) \in Nat /\ rr \in [1 .. Len(rr) -> Nat \ {0}]
    BY <1>3
  <1>5. IsFiniteSet(1 .. Len(rr))
    BY <1>4, FS_Interval
  <1>. QED BY <1>1, <1>2, <1>3, <1>4, <1>5, CalendarAssumption DEF WellFormed

\* The first installment takes what rounding down left over, so it is none less.
LEMMA InstallmentsFit ==
  ASSUME NEW amount \in Nat, NEW n \in Nat \ {0}, NEW each \in Nat, NEW first,
         each = amount \div n, first = amount - each * (n - 1)
  PROVE  first \in Nat /\ each =< first
  <1>1. n * each =< amount
    <2>1. amount = n * (amount \div n) + (amount % n) /\ amount % n \in Nat
      BY Division
    <2>2. PICK x : x = n * each
      OBVIOUS
    <2>3. x \in Int /\ amount = x + (amount % n)
      BY <2>1, <2>2
    <2>. QED BY <2>1, <2>2, <2>3
  <1>2. each * (n - 1) = n * each - each
    OBVIOUS
  <1>3. PICK x : x = n * each
    OBVIOUS
  <1>4. x \in Int
    BY <1>3
  <1>. QED BY <1>1, <1>2, <1>3, <1>4

\* After k installments the rows hold what the others will take.
LEMMA RowsHoldTheRest ==
  ASSUME NEW i, i.amount \in Nat, i.installments \in Nat \ {0}, IsPlan(i),
         NEW rr, DOMAIN rr \in SUBSET Int, IsFiniteSet(DOMAIN rr), rr \in [DOMAIN rr -> Nat],
         Total(rr) = i.amount
  PROVE  /\ RowsLeft(i, rr)[0] = rr
         /\ \A k \in 0 .. i.installments : RowsLeft(i, rr)[k] \in [DOMAIN rr -> Nat]
         /\ \A k \in 1 .. i.installments :
               LET before == RowsLeft(i, rr)[k - 1]
                   split == SplitAmount(Installment(i, k), before)
               IN  /\ Installment(i, k) \in Nat
                   /\ split \in [DOMAIN rr -> Nat] /\ Total(split) = Installment(i, k)
                   /\ \A r \in DOMAIN rr : /\ split[r] =< before[r]
                                           /\ RowsLeft(i, rr)[k][r] = before[r] - split[r]
         /\ Total(RowsLeft(i, rr)[i.installments]) = 0
  <1>. DEFINE n == i.installments
              D == DOMAIN rr
              L == RowsLeft(i, rr)
              each == InstallmentAmount(i)
              first == FirstInstallmentAmount(i)
              Due(k) == IF k = 0 THEN i.amount ELSE each * (n - k)
              Holds(k) == L[k] \in [D -> Nat] /\ Total(L[k]) = Due(k)
  <1>1. n \in Nat /\ n > 1
    BY DEF IsPlan
  <1>2. each \in Nat /\ first \in Nat /\ each =< first /\ first = i.amount - each * (n - 1)
    <2>1. each = i.amount \div n /\ first = i.amount - each * (n - 1)
      BY DEF InstallmentAmount, FirstInstallmentAmount
    <2>2. each \in Nat
      <3>1. PICK a, b : a = i.amount /\ b = n
        OBVIOUS
      <3>2. a \in Nat /\ b \in Nat /\ b > 0
        BY <1>1, <3>1
      <3>3. a \div b \in Nat
        BY <3>2, Division
      <3>. QED BY <2>1, <3>1, <3>3
    <2>. HIDE DEF each, first, n
    <2>. QED BY <1>1, <2>1, <2>2, InstallmentsFit
  <1>3. L[0] = rr /\ \A k \in 1 .. n : L[k] =
           [r \in D |-> L[k - 1][r] - SplitAmount(Installment(i, k), L[k - 1])[r]]
    BY RowsLeftIs
  <1>. HIDE DEF L, D, each, first, n
  <1>0. D \in SUBSET Int /\ IsFiniteSet(D) /\ i.amount \in Nat
    BY DEF D
  <1>4. Holds(0)
    BY <1>1, <1>3 DEF D
  <1>5. ASSUME NEW k \in 1 .. n, Holds(k - 1)
        PROVE  LET split == SplitAmount(Installment(i, k), L[k - 1])
               IN  /\ Installment(i, k) \in Nat
                   /\ split \in [D -> Nat] /\ Total(split) = Installment(i, k)
                   /\ \A r \in D : /\ split[r] =< L[k - 1][r]
                                   /\ L[k][r] = L[k - 1][r] - split[r]
                   /\ Holds(k)
    <2>. DEFINE split == SplitAmount(Installment(i, k), L[k - 1])
    <2>1. PICK x : x = Installment(i, k)
      OBVIOUS
    <2>2. x \in Nat /\ x = IF k = 1 THEN first ELSE each
      BY <1>2, <2>1 DEF Installment, first, each
    <2>3. x =< Due(k - 1) /\ Due(k - 1) - x = Due(k)
      <3>1. CASE k = 1
        <4>1. i.amount - first = each * (n - 1) /\ each * (n - 1) \in Nat
          <5>1. PICK y : y = each * (n - 1)
            OBVIOUS
          <5>2. y \in Nat
            BY <1>1, <1>2, <5>1
          <5>. QED BY <1>2, <5>1, <5>2
        <4>. QED BY <1>0, <1>2, <2>2, <3>1, <4>1
      <3>2. CASE k # 1
        <4>1. Due(k - 1) = each * (n - (k - 1)) /\ Due(k) = each * (n - k) /\ x = each
          BY <2>2, <3>2
        <4>2. PICK m \in Nat : m = n - k
          BY <1>1
        <4>3. n - (k - 1) = m + 1
          BY <1>1, <4>2
        <4>4. each * (m + 1) = each * m + each /\ each * m \in Nat
          BY <1>2
        <4>5. PICK y : y = each * m
          OBVIOUS
        <4>6. Due(k - 1) = y + each /\ Due(k) = y /\ y \in Nat
          BY ONLY <4>1, <4>2, <4>3, <4>4, <4>5
        <4>. HIDE DEF Due
        <4>. QED BY <1>2, <4>1, <4>6
      <3>. QED BY <3>1, <3>2
    <2>4. L[k - 1] \in [D -> Nat] /\ x =< Total(L[k - 1])
      BY <1>5, <2>3
    <2>5. /\ split \in [D -> Nat] /\ Total(split) = x
          /\ \A r \in D : split[r] =< L[k - 1][r]
      <3>1. /\ SplitAmount(x, L[k - 1]) \in [D -> Nat]
            /\ \A r \in D : SplitAmount(x, L[k - 1])[r] =< L[k - 1][r]
            /\ Total(SplitAmount(x, L[k - 1])) = x
        BY <1>0, <2>2, <2>4, SplitIsExact
      <3>. QED BY <2>1, <3>1
    <2>6. L[k] = [r \in D |-> L[k - 1][r] - split[r]]
      BY <1>3
    <2>. HIDE DEF split, Due
    <2>7. \A r \in D : /\ L[k][r] = L[k - 1][r] - split[r] /\ L[k][r] \in Nat
                       /\ split[r] \in Nat /\ L[k - 1][r] \in Nat
      BY <2>4, <2>5, <2>6
    <2>8. L[k] \in [D -> Nat]
      BY <2>6, <2>7
    <2>9. Total(L[k]) = Due(k)
      <3>1. PICK f, g, h : f = L[k] /\ g = split /\ h = L[k - 1]
        OBVIOUS
      <3>2. \A r \in D : f[r] \in Int /\ g[r] \in Int /\ h[r] = f[r] + g[r]
        BY <2>7, <3>1
      <3>3. SumFunctionOnSet(h, D) = SumFunctionOnSet(f, D) + SumFunctionOnSet(g, D)
        BY <1>0, <3>2, SumOfSums
      <3>4. /\ Total(f) = SumFunctionOnSet(f, D) /\ Total(g) = SumFunctionOnSet(g, D)
            /\ Total(h) = SumFunctionOnSet(h, D)
        BY <2>4, <2>5, <2>8, <3>1, TotalIs
      <3>5. SumFunctionOnSet(f, D) \in Int
        <4>1. \A r \in D : f[r] \in Int
          BY <3>2
        <4>. QED BY <1>0, <4>1, SumIsInt
      <3>6. Total(h) = Total(f) + x
        BY <2>5, <3>1, <3>3, <3>4
      <3>7. Total(h) = Due(k - 1)
        BY <1>5, <3>1
      <3>. QED BY <2>2, <2>3, <3>1, <3>4, <3>5, <3>6, <3>7
    <2>. QED BY <2>1, <2>2, <2>5, <2>7, <2>8, <2>9 DEF split
  <1>6. \A k \in 0 .. n : Holds(k)
    <2>. DEFINE Good == {k \in Nat : k =< n => Holds(k)}
    <2>1. 0 \in Good
      BY <1>4
    <2>2. ASSUME NEW k \in Nat, k \in Good PROVE k + 1 \in Good
      <3>. SUFFICES ASSUME k + 1 =< n PROVE Holds(k + 1)
        OBVIOUS
      <3>1. k + 1 \in 1 .. n /\ (k + 1) - 1 = k /\ Holds((k + 1) - 1)
        BY <1>1, <2>2
      <3>. HIDE DEF Holds
      <3>. QED BY <1>5, <3>1
    <2>. HIDE DEF Good
    <2>3. \A k \in Nat : k \in Good
      BY <2>1, <2>2, NumberInduction
    <2>. QED BY <1>1, <2>3 DEF Good
  <1>7. Total(L[n]) = 0
    <2>1. n \in 0 .. n /\ n # 0 /\ n - n = 0
      BY <1>1
    <2>2. each * 0 = 0
      BY <1>2
    <2>. QED BY <1>6, <2>1, <2>2
  <1>8. \A k \in 1 .. n : Holds(k - 1)
    BY <1>1, <1>6
  <1>9. ASSUME NEW k \in 1 .. n
        PROVE  LET split == SplitAmount(Installment(i, k), L[k - 1])
               IN  /\ Installment(i, k) \in Nat
                   /\ split \in [D -> Nat] /\ Total(split) = Installment(i, k)
                   /\ \A r \in D : /\ split[r] =< L[k - 1][r]
                                   /\ L[k][r] = L[k - 1][r] - split[r]
    <2>. HIDE DEF Holds
    <2>. QED BY <1>5, <1>8
  <1>10. \A k \in 0 .. n : L[k] \in [D -> Nat]
    BY <1>6
  <1>. HIDE DEF Holds
  <1>. QED BY <1>3, <1>7, <1>9, <1>10 DEF L, D, n

\* No installment gives anything back to a row.
LEMMA RowsOnlyShrink ==
  ASSUME NEW i, i.amount \in Nat, i.installments \in Nat \ {0}, IsPlan(i),
         NEW rr, DOMAIN rr \in SUBSET Int, IsFiniteSet(DOMAIN rr), rr \in [DOMAIN rr -> Nat],
         Total(rr) = i.amount
  PROVE  \A k \in 0 .. i.installments, j \in 0 .. i.installments :
            j =< k => \A r \in DOMAIN rr : RowsLeft(i, rr)[k][r] =< RowsLeft(i, rr)[j][r]
  <1>. DEFINE n == i.installments
              D == DOMAIN rr
              L == RowsLeft(i, rr)
              Below(k) == \A j \in 0 .. n : j =< k => \A r \in D : L[k][r] =< L[j][r]
              Good == {k \in Nat : k =< n => Below(k)}
  <1>1. /\ \A k \in 0 .. n : L[k] \in [D -> Nat]
        /\ \A k \in 1 .. n : \A r \in D : L[k][r] =< L[k - 1][r]
    <2>1. /\ \A k \in 0 .. n : L[k] \in [D -> Nat]
          /\ \A k \in 1 .. n :
               LET split == SplitAmount(Installment(i, k), L[k - 1])
               IN  /\ Installment(i, k) \in Nat
                   /\ split \in [D -> Nat] /\ Total(split) = Installment(i, k)
                   /\ \A r \in D : /\ split[r] =< L[k - 1][r]
                                   /\ L[k][r] = L[k - 1][r] - split[r]
      BY RowsHoldTheRest
    <2>2. ASSUME NEW k \in 1 .. n, NEW r \in D PROVE L[k][r] =< L[k - 1][r]
      <3>1. PICK split : /\ split \in [D -> Nat] /\ L[k][r] = L[k - 1][r] - split[r]
        BY <2>1
      <3>2. k - 1 \in 0 .. n
        OBVIOUS
      <3>3. L[k - 1][r] \in Nat /\ split[r] \in Nat
        BY <2>1, <3>1, <3>2
      <3>. HIDE DEF L
      <3>. QED BY <3>1, <3>3
    <2>. QED BY <2>1, <2>2
  <1>2. 0 \in Good
    <2>1. \A j \in 0 .. n : j =< 0 => j = 0
      OBVIOUS
    <2>2. \A r \in D : L[0][r] =< L[0][r]
      <3>1. L[0] \in [D -> Nat]
        BY <1>1
      <3>. HIDE DEF L
      <3>. QED BY <3>1
    <2>. HIDE DEF L
    <2>. QED BY <2>1, <2>2
  <1>3. ASSUME NEW k \in Nat, k \in Good PROVE k + 1 \in Good
    <2>. SUFFICES ASSUME k + 1 =< n, NEW j \in 0 .. n, j =< k + 1, NEW r \in D
                  PROVE  L[k + 1][r] =< L[j][r]
      OBVIOUS
    <2>1. k + 1 \in 1 .. n /\ (k + 1) - 1 = k /\ k \in 0 .. n
      OBVIOUS
    <2>2. Below(k)
      BY <1>3, <2>1
    <2>3. L[k + 1][r] =< L[k][r]
      BY <1>1, <2>1
    <2>4. L[k + 1][r] \in Nat /\ L[k][r] \in Nat /\ L[j][r] \in Nat
      BY <1>1, <2>1
    <2>5. j = k + 1 \/ L[k][r] =< L[j][r]
      <3>1. j = k + 1 \/ j =< k
        OBVIOUS
      <3>. HIDE DEF L
      <3>. QED BY <2>2, <3>1
    <2>. HIDE DEF L
    <2>. QED BY <2>3, <2>4, <2>5
  <1>. HIDE DEF Good
  <1>4. \A k \in Nat : k \in Good
    BY <1>2, <1>3, NumberInduction
  <1>. QED BY <1>4 DEF Good

LEMMA BilledMonthIs ==
  ASSUME NEW i \in Items, NEW c \in Cards, WellFormed(i, c), NEW rr \in SplitsOf(i)
  PROVE  BilledMonth(i, c) \in Nat
  BY ItemIs, OverrideAssumption DEF BilledMonth, BillingOffset, StatementMonth

\* What a month bills, by how many months after the first bill it is.
LEMMA AmountIs ==
  ASSUME NEW i \in Items, NEW c \in Cards, WellFormed(i, c), NEW rr \in SplitsOf(i),
         NEW m \in Int
  PROVE  LET o == m - BilledMonth(i, c)
         IN  /\ IsPlan(i) => AmountForMonth(i, c, m) = IF o >= i.start - 1 /\ o < i.installments
                                                       THEN Installment(i, o + 1) ELSE 0
             /\ ~IsPlan(i) /\ ~i.fixed => AmountForMonth(i, c, m) = IF o = 0 THEN i.amount ELSE 0
             /\ i.fixed => AmountForMonth(i, c, m) =
                              IF o >= 0 /\ (i.until = NoMonth \/ o =< LastFixedOffset(i))
                              THEN i.amount ELSE 0
  <1>. DEFINE o == m - BilledMonth(i, c)
  <1>1. o \in Int
    BY BilledMonthIs
  <1>2. i.installments \in Nat /\ i.start \in Nat /\ i.start >= 1 /\ (IsPlan(i) => ~i.fixed)
        /\ i.fixed \in BOOLEAN
    BY ItemIs
  <1>3. LastFixedOffset(i) \in Nat
    BY DEF LastFixedOffset, Positive
  <1>4. (o + 1 = 1) <=> (o = 0)
    BY <1>1
  <1>5. IsPlan(i) => AmountForMonth(i, c, m) = IF o >= i.start - 1 /\ o < i.installments
                                               THEN Installment(i, o + 1) ELSE 0
    <2>. SUFFICES ASSUME IsPlan(i)
                  PROVE  AmountForMonth(i, c, m) = IF o >= i.start - 1 /\ o < i.installments
                                                   THEN Installment(i, o + 1) ELSE 0
      OBVIOUS
    <2>1. CASE o < 0
      <3>1. AmountForMonth(i, c, m) = 0
        BY <1>1, <2>1 DEF AmountForMonth
      <3>. HIDE DEF o
      <3>. QED BY <1>1, <1>2, <2>1, <3>1
    <2>2. CASE o >= 0
      <3>1. AmountForMonth(i, c, m) =
               IF o < i.start - 1 \/ o >= i.installments THEN 0
               ELSE IF o = 0 THEN FirstInstallmentAmount(i) ELSE InstallmentAmount(i)
        BY <1>1, <1>2, <2>2 DEF AmountForMonth
      <3>. HIDE DEF o
      <3>. QED BY <1>1, <1>2, <1>4, <3>1 DEF Installment
    <2>. HIDE DEF o
    <2>. QED BY <1>1, <2>1, <2>2
  <1>6. ~IsPlan(i) /\ ~i.fixed => AmountForMonth(i, c, m) = IF o = 0 THEN i.amount ELSE 0
    BY <1>1, <1>2 DEF AmountForMonth
  <1>7. i.fixed => AmountForMonth(i, c, m) =
                              IF o >= 0 /\ (i.until = NoMonth \/ o =< LastFixedOffset(i))
                              THEN i.amount ELSE 0
    BY <1>1, <1>2, <1>3 DEF AmountForMonth
  <1>. QED BY <1>5, <1>6, <1>7

\* A split of everything takes everything, and one of nothing takes nothing.
LEMMA WholeSplit ==
  ASSUME NEW S \in SUBSET Int, IsFiniteSet(S), NEW caps \in [S -> Nat]
  PROVE  /\ SplitAmount(Total(caps), caps) = caps
         /\ SplitAmount(0, caps) = [s \in S |-> 0]
  <1>1. PICK all : all = Total(caps)
    OBVIOUS
  <1>2. all \in Nat /\ all = SumFunctionOnSet(caps, S)
    <2>1. all = SumFunctionOnSet(caps, S)
      BY <1>1, TotalIs
    <2>2. \A s \in S : caps[s] \in Nat
      OBVIOUS
    <2>3. SumFunctionOnSet(caps, S) \in Nat
      BY <2>2, SumIsNat
    <2>. QED BY <2>1, <2>3
  <1>3. PICK split : split = SplitAmount(all, caps)
    OBVIOUS
  <1>4. split \in [S -> Nat] /\ Total(split) = all /\ \A s \in S : split[s] =< caps[s]
    <2>1. all \in Nat /\ all =< Total(caps)
      BY <1>1, <1>2
    <2>2. /\ SplitAmount(all, caps) \in [S -> Nat]
          /\ \A s \in S : SplitAmount(all, caps)[s] =< caps[s]
          /\ Total(SplitAmount(all, caps)) = all
      BY <2>1, SplitIsExact
    <2>. QED BY <1>3, <2>2
  <1>. DEFINE rest == [s \in S |-> caps[s] - split[s]]
  <1>5. \A s \in S : /\ rest[s] \in Nat /\ rest[s] = caps[s] - split[s]
                     /\ caps[s] \in Nat /\ split[s] \in Nat
    BY <1>4
  <1>. HIDE DEF rest
  <1>6. SumFunctionOnSet(rest, S) = 0
    <2>1. \A s \in S : rest[s] \in Int /\ split[s] \in Int /\ caps[s] = rest[s] + split[s]
      BY <1>5
    <2>2. SumFunctionOnSet(caps, S) = SumFunctionOnSet(rest, S) + SumFunctionOnSet(split, S)
      BY <2>1, SumOfSums
    <2>3. Total(split) = SumFunctionOnSet(split, S)
      BY <1>4, TotalIs
    <2>4. SumFunctionOnSet(rest, S) \in Nat
      <3>1. \A s \in S : rest[s] \in Nat
        BY <1>5
      <3>. QED BY <3>1, SumIsNat
    <2>. QED BY <1>2, <1>4, <2>2, <2>3, <2>4
  <1>7. \A s \in S : rest[s] = 0
    <2>1. \A s \in S : rest[s] \in Nat
      BY <1>5
    <2>. QED BY <1>6, <2>1, NothingAddsUp
  <1>8. \A s \in S : split[s] = caps[s]
    BY <1>5, <1>7
  <1>9. split = caps
    <2>1. split = [s \in S |-> split[s]] /\ caps = [s \in S |-> caps[s]]
      BY <1>4
    <2>. QED BY <1>8, <2>1
  <1>10. SplitAmount(0, caps) = [s \in S |-> 0]
    BY DEF SplitAmount
  <1>. QED BY <1>1, <1>3, <1>9, <1>10

\* What a month charges to its rows is what it bills.
LEMMA AllocationsAddUp ==
  ASSUME NEW i \in Items, NEW c \in Cards, WellFormed(i, c), NEW rr \in SplitsOf(i),
         NEW m \in Int
  PROVE  LET taken == AllocationsForMonth(i, c, rr, m)
             o == m - BilledMonth(i, c)
         IN  /\ AmountForMonth(i, c, m) \in Nat
             /\ taken \in [DOMAIN rr -> Nat] /\ Total(taken) = AmountForMonth(i, c, m)
             /\ IsPlan(i) => \A r \in DOMAIN rr :
                   taken[r] = IF o >= i.start - 1 /\ o < i.installments
                              THEN RowsLeft(i, rr)[o][r] - RowsLeft(i, rr)[o + 1][r] ELSE 0
             /\ ~IsPlan(i) /\ ~i.fixed => \A r \in DOMAIN rr :
                   taken[r] = IF o = 0 THEN rr[r] ELSE 0
  <1>. DEFINE taken == AllocationsForMonth(i, c, rr, m)
              o == m - BilledMonth(i, c)
              D == DOMAIN rr
              L == RowsLeft(i, rr)
              n == i.installments
              amount == AmountForMonth(i, c, m)
  <1>1. /\ o \in Int /\ D \in SUBSET Int /\ IsFiniteSet(D) /\ rr \in [D -> Nat]
        /\ Total(rr) = i.amount /\ i.amount \in Nat /\ n \in Nat \ {0} /\ i.start \in 1 .. n
        /\ i.fixed \in BOOLEAN
    BY BilledMonthIs, ItemIs
  <1>2. ASSUME NEW a \in {0, i.amount}
        PROVE  /\ SplitAmount(a, rr) \in [D -> Nat] /\ Total(SplitAmount(a, rr)) = a
               /\ SplitAmount(0, rr) = [r \in D |-> 0] /\ SplitAmount(i.amount, rr) = rr
    <2>1. a \in Nat /\ a =< Total(rr)
      BY <1>1
    <2>2. SplitAmount(a, rr) \in [D -> Nat] /\ Total(SplitAmount(a, rr)) = a
      BY <1>1, <2>1, SplitIsExact
    <2>3. SplitAmount(Total(rr), rr) = rr /\ SplitAmount(0, rr) = [r \in D |-> 0]
      BY <1>1, WholeSplit
    <2>. QED BY <1>1, <2>2, <2>3
  <1>. HIDE DEF taken, D, L, n, amount
  <1>3. taken = SplitAmount(amount, IF IsPlan(i) /\ amount # 0 THEN L[o] ELSE rr)
    BY DEF AllocationsForMonth, taken, L, amount
  <1>4. CASE ~IsPlan(i)
    <2>1. amount = IF i.fixed THEN IF o >= 0 /\ (i.until = NoMonth \/ o =< LastFixedOffset(i))
                                   THEN i.amount ELSE 0
                   ELSE IF o = 0 THEN i.amount ELSE 0
      BY <1>1, <1>4, AmountIs DEF amount
    <2>2. amount \in {0, i.amount} /\ amount \in Nat
      <3>. HIDE DEF o
      <3>. QED BY <1>1, <2>1
    <2>3. taken = SplitAmount(amount, rr)
      BY <1>3, <1>4
    <2>4. taken \in [D -> Nat] /\ Total(taken) = amount
      BY <1>2, <2>2, <2>3
    <2>5. ASSUME ~i.fixed, NEW r \in D PROVE taken[r] = IF o = 0 THEN rr[r] ELSE 0
      <3>1. CASE o = 0
        BY <1>2, <2>1, <2>2, <2>3, <2>5, <3>1
      <3>2. CASE o # 0
        BY <1>2, <2>1, <2>2, <2>3, <2>5, <3>2
      <3>. QED BY <3>1, <3>2
    <2>. QED BY <1>4, <2>2, <2>4, <2>5 DEF taken, amount, D
  <1>5. CASE IsPlan(i)
    <2>1. amount = IF o >= i.start - 1 /\ o < n THEN Installment(i, o + 1) ELSE 0
      BY <1>5, AmountIs DEF amount, n
    <2>2. /\ L[0] = rr
          /\ \A k \in 0 .. n : L[k] \in [D -> Nat]
          /\ \A k \in 1 .. n :
               LET split == SplitAmount(Installment(i, k), L[k - 1])
               IN  /\ Installment(i, k) \in Nat
                   /\ split \in [D -> Nat] /\ Total(split) = Installment(i, k)
                   /\ \A r \in D : /\ split[r] =< L[k - 1][r]
                                   /\ L[k][r] = L[k - 1][r] - split[r]
      BY <1>1, <1>5, RowsHoldTheRest DEF L, D, n
    <2>. HIDE DEF o
    <2>3. CASE o >= i.start - 1 /\ o < n
      <3>1. o + 1 \in 1 .. n /\ (o + 1) - 1 = o /\ o \in 0 .. n /\ o + 1 \in 0 .. n
        BY <1>1, <2>3
      <3>2. PICK split : split = SplitAmount(Installment(i, o + 1), L[o])
        OBVIOUS
      <3>3. /\ Installment(i, o + 1) \in Nat
            /\ split \in [D -> Nat] /\ Total(split) = Installment(i, o + 1)
            /\ \A r \in D : L[o + 1][r] = L[o][r] - split[r]
        BY <2>2, <3>1, <3>2
      <3>4. amount = Installment(i, o + 1)
        BY <2>1, <2>3
      <3>5. L[o] \in [D -> Nat] /\ L[o + 1] \in [D -> Nat]
        BY <2>2, <3>1
      <3>6. taken = split
        <4>1. CASE amount # 0
          BY <1>3, <1>5, <3>2, <3>4, <4>1
        <4>2. CASE amount = 0
          <5>1. split = [r \in D |-> 0]
            BY <1>1, <3>2, <3>4, <3>5, <4>2, WholeSplit
          <5>2. taken = [r \in D |-> 0]
            BY <1>2, <1>3, <4>2
          <5>. QED BY <5>1, <5>2
        <4>. QED BY <4>1, <4>2
      <3>7. ASSUME NEW r \in D PROVE taken[r] = L[o][r] - L[o + 1][r]
        <4>1. PICK x, y, z : x = L[o][r] /\ y = L[o + 1][r] /\ z = split[r]
          OBVIOUS
        <4>2. x \in Nat /\ y \in Nat /\ z \in Nat /\ y = x - z
          BY <3>3, <3>5, <4>1
        <4>. QED BY <3>6, <4>1, <4>2
      <3>. QED BY <1>5, <2>3, <3>3, <3>4, <3>6, <3>7 DEF taken, amount, D, L, n, o
    <2>4. CASE ~(o >= i.start - 1 /\ o < n)
      <3>1. amount = 0
        BY <2>1, <2>4
      <3>2. taken = SplitAmount(0, rr)
        BY <1>3, <3>1
      <3>3. taken \in [D -> Nat] /\ Total(taken) = 0 /\ taken = [r \in D |-> 0]
        BY <1>2, <3>2
      <3>. QED BY <1>5, <2>4, <3>1, <3>3 DEF taken, amount, D, L, n, o
    <2>. QED BY <2>3, <2>4
  <1>. QED BY <1>4, <1>5

-----------------------------------------------------------------------------
(* Running totals.                                                         *)

\* An item billed in a month adds to what it amounts to what it bills there.
LEMMA MonthsAddUp ==
  ASSUME NEW i \in Items, NEW c \in Cards, WellFormed(i, c), NEW rr \in SplitsOf(i),
         NEW m \in Int
  PROVE  /\ AmountForMonth(i, c, m) \in Int
         /\ AmountThroughMonth(i, c, m) \in Int
         /\ AmountThroughMonth(i, c, m)
              = AmountThroughMonth(i, c, m - 1) + AmountForMonth(i, c, m)
         /\ m < BilledMonth(i, c) => AmountThroughMonth(i, c, m) = 0
  <1>. DEFINE anchor == BilledMonth(i, c)
              offset == m - anchor
              first == FirstInstallmentAmount(i)
              each == InstallmentAmount(i)
              last == LastFixedOffset(i)
              N == i.installments
              start == i.start
              events(o) == 1 + IF i.until = NoMonth THEN o ELSE Least(o, last)
              tracked(o) == TrackedInstallments(i, o)
              plan(o) == IF tracked(o) = 0 THEN 0
                         ELSE IF start = 1 THEN first + each * (tracked(o) - 1)
                         ELSE each * tracked(o)
              Through(o) == IF o < 0 THEN 0
                            ELSE IF i.fixed THEN i.amount * events(o)
                            ELSE IF IsPlan(i) THEN plan(o)
                            ELSE i.amount
              For(o) == IF o < 0 THEN 0
                        ELSE IF i.fixed
                        THEN IF i.until # NoMonth /\ o > last THEN 0 ELSE i.amount
                        ELSE IF IsPlan(i)
                        THEN IF o < start - 1 \/ o >= N THEN 0
                             ELSE IF o = 0 THEN first ELSE each
                        ELSE IF o = 0 THEN i.amount ELSE 0
  <1>1. /\ (IsPlan(i) => ~i.fixed) /\ anchor \in Int /\ offset \in Int /\ (m - 1) - anchor = offset - 1
        /\ i.amount \in Int /\ N \in Nat \ {0} /\ start \in Nat /\ i.fixed \in BOOLEAN
        /\ start >= 1 /\ start =< N
    BY BilledMonthIs, ItemIs
  <1>2. first \in Int /\ each \in Int
    <2>1. each \in Int
      BY <1>1 DEF InstallmentAmount
    <2>. QED BY <1>1, <2>1 DEF FirstInstallmentAmount
  <1>3. last \in Nat
    BY DEF LastFixedOffset, Positive
  <1>4. AmountForMonth(i, c, m) = For(offset)
    BY <1>1 DEF AmountForMonth
  <1>5. \A n \in Int : AmountThroughMonth(i, c, n) = Through(n - anchor)
    <2>. TAKE n \in Int
    <2>1. PICK o \in Int : o = n - anchor
      BY <1>1
    <2>2. CASE o < 0
      BY <1>1, <2>1, <2>2 DEF AmountThroughMonth
    <2>3. CASE o >= 0 /\ i.fixed
      BY <1>1, <2>1, <2>3 DEF AmountThroughMonth
    <2>4. CASE o >= 0 /\ ~i.fixed /\ IsPlan(i)
      BY <1>1, <2>1, <2>4 DEF AmountThroughMonth
    <2>5. CASE o >= 0 /\ ~i.fixed /\ ~IsPlan(i)
      BY <1>1, <2>1, <2>5 DEF AmountThroughMonth
    <2>. QED BY <1>1, <2>2, <2>3, <2>4, <2>5
  <1>6. \A o \in Int : /\ tracked(o) \in Nat
                       /\ o >= start - 1 /\ o < N => tracked(o) = o - start + 2
                       /\ o < start - 1 => tracked(o) = 0
                       /\ o >= N => tracked(o) = N - start + 1
    BY <1>1 DEF TrackedInstallments, Positive, Least
  <1>7. For(offset) \in Int
    BY <1>1, <1>2, <1>3
  <1>. HIDE DEF anchor, offset, first, each, last, N, start, tracked
  <1>8. ASSUME NEW o \in Int PROVE Through(o) \in Int /\ Through(o) = Through(o - 1) + For(o)
    <2>1. CASE o < 0
      BY <2>1
    <2>2. CASE o >= 0 /\ i.fixed
      <3>1. events(o) \in Int /\ events(o - 1) \in Int /\ events(0) = 1
        BY <1>3 DEF Least
      <3>2. CASE o = 0
        BY <1>1, <2>2, <3>1, <3>2, <1>3
      <3>3. CASE o > 0
        <4>1. events(o) = IF i.until # NoMonth /\ o > last THEN events(o - 1)
                          ELSE events(o - 1) + 1
          BY <1>3, <3>3 DEF Least
        <4>2. \A a, e \in Int : a * e \in Int /\ a * (e + 1) = a * e + a
          OBVIOUS
        <4>. HIDE DEF events
        <4>3. Through(o) = i.amount * events(o) /\ Through(o - 1) = i.amount * events(o - 1)
          BY <2>2, <3>3
        <4>4. For(o) = IF i.until # NoMonth /\ o > last THEN 0 ELSE i.amount
          BY <2>2
        <4>5. PICK e, a : e = events(o - 1) /\ a = i.amount
          OBVIOUS
        <4>6. e \in Int /\ a \in Int /\ a * e \in Int /\ a * (e + 1) = a * e + a
          BY <1>1, <3>1, <4>2, <4>5
        <4>7. Through(o - 1) = a * e /\ Through(o) = a * events(o)
          BY <4>3, <4>5
        <4>. HIDE DEF Through, For
        <4>8. CASE i.until # NoMonth /\ o > last
          BY <4>1, <4>4, <4>5, <4>6, <4>7, <4>8
        <4>9. CASE ~(i.until # NoMonth /\ o > last)
          BY <4>1, <4>4, <4>5, <4>6, <4>7, <4>9
        <4>. QED BY <4>8, <4>9
      <3>. QED BY <2>2, <3>2, <3>3
    <2>3. CASE o >= 0 /\ ~i.fixed /\ IsPlan(i)
      <3>1. \A a, e \in Int : a * e \in Int /\ a * (e + 1) = a * e + a /\ a * 0 = 0
        OBVIOUS
      <3>2. \A p \in Int : p >= -1 => plan(p) \in Int
        BY <1>2, <1>6, <3>1
      <3>3. Through(o) = plan(o) /\ For(o) = (IF o < start - 1 \/ o >= N THEN 0
                                             ELSE IF o = 0 THEN first ELSE each)
        <4>. HIDE DEF plan
        <4>1. Through(o) = plan(o)
          BY <2>3
        <4>2. For(o) = IF o < start - 1 \/ o >= N THEN 0 ELSE IF o = 0 THEN first ELSE each
          BY <1>1, <1>2, <2>3
        <4>. QED BY <4>1, <4>2
      <3>4. Through(o - 1) = plan(o - 1)
        BY <1>1, <1>6, <2>3
      <3>5. CASE o < start - 1
        BY <1>1, <1>6, <3>3, <3>4, <3>5
      <3>6. CASE o >= N
        <4>1. tracked(o) = N - start + 1 /\ tracked(o - 1) = N - start + 1
          BY <1>1, <1>6, <3>6
        <4>2. plan(o) = plan(o - 1)
          BY <4>1
        <4>. QED BY <3>2, <3>3, <3>4, <3>6, <4>2, <2>3
      <3>7. CASE o >= start - 1 /\ o < N
        <4>1. tracked(o) = o - start + 2 /\ tracked(o - 1) = o - start + 1
          BY <1>1, <1>6, <3>7
        <4>2. PICK t \in Nat : t = o - start + 1
          BY <1>1, <3>7
        <4>3. tracked(o) = t + 1 /\ tracked(o - 1) = t
          BY <1>1, <4>1, <4>2
        <4>4. CASE t = 0
          BY <1>1, <1>2, <3>1, <3>3, <3>4, <3>7, <4>2, <4>3, <4>4
        <4>5. CASE t > 0
          <5>1. CASE start = 1
            <6>1. plan(o) = first + each * t /\ plan(o - 1) = first + each * (t - 1)
              BY <4>3, <4>5, <5>1
            <6>2. each * t = each * (t - 1) + each /\ each * (t - 1) \in Int
              BY <1>2, <3>1, <4>5
            <6>3. For(o) = each
              BY <1>1, <3>3, <3>7, <4>2, <4>5, <5>1
            <6>. HIDE DEF plan, Through, For
            <6>. QED BY <1>2, <3>3, <3>4, <6>1, <6>2, <6>3
          <5>2. CASE start # 1
            <6>1. plan(o) = each * (t + 1) /\ plan(o - 1) = each * t
              BY <4>3, <4>5, <5>2
            <6>2. each * (t + 1) = each * t + each /\ each * t \in Int
              BY <1>2, <3>1
            <6>3. For(o) = each
              BY <1>1, <3>3, <3>7, <4>2, <4>5, <5>2
            <6>. HIDE DEF plan, Through, For
            <6>. QED BY <1>2, <3>3, <3>4, <6>1, <6>2, <6>3
          <5>. QED BY <5>1, <5>2
        <4>. QED BY <4>4, <4>5
      <3>. QED BY <1>1, <3>5, <3>6, <3>7
    <2>4. CASE o >= 0 /\ ~i.fixed /\ ~IsPlan(i)
      BY <1>1, <2>4
    <2>. QED BY <1>1, <2>1, <2>2, <2>3, <2>4
  <1>9. m < anchor => offset < 0
    BY <1>1 DEF offset
  <1>10. /\ AmountThroughMonth(i, c, m) = Through(offset)
         /\ AmountThroughMonth(i, c, m - 1) = Through(offset - 1)
    BY <1>1, <1>5 DEF offset
  <1>. QED BY <1>1, <1>4, <1>7, <1>8, <1>9, <1>10 DEF anchor

-----------------------------------------------------------------------------
(* The walk over the months.                                               *)

\* What the months before m leave of a row of a purchase or a plan.
LeftAt(i, c, rr, m, r) ==
    LET o == m - BilledMonth(i, c)
        from == i.start - 1
        to == Least(Positive(o), i.installments)
    IN  IF IsPlan(i)
        THEN IF to =< from THEN rr[r]
             ELSE rr[r] - RowsLeft(i, rr)[from][r] + RowsLeft(i, rr)[to][r]
        ELSE IF o =< 0 THEN rr[r] ELSE 0

\* What the walk has left of a row by a month is between nothing and the row, goes
\* down by the allocation of each month, and is nothing once a plan has closed.
LEMMA LeftAtIs ==
  ASSUME NEW i \in Items, NEW c \in Cards, WellFormed(i, c), NEW rr \in SplitsOf(i), ~i.fixed,
         NEW m \in Nat, NEW r \in DOMAIN rr
  PROVE  /\ LeftAt(i, c, rr, 0, r) = rr[r]
         /\ LeftAt(i, c, rr, m, r) \in 0 .. rr[r]
         /\ LeftAt(i, c, rr, m + 1, r)
              = LeftAt(i, c, rr, m, r) - AllocationsForMonth(i, c, rr, m)[r]
         /\ i.start = 1 /\ m >= BilledMonth(i, c) + i.installments => LeftAt(i, c, rr, m, r) = 0
  <1>. DEFINE anchor == BilledMonth(i, c)
              n == i.installments
              L == RowsLeft(i, rr)
              taken == AllocationsForMonth(i, c, rr, m)[r]
              from == i.start - 1
  <1>1. /\ anchor \in Nat /\ n \in Nat \ {0} /\ i.start \in Nat /\ i.start >= 1 /\ i.start =< n
        /\ i.amount \in Nat /\ DOMAIN rr \in SUBSET Int /\ IsFiniteSet(DOMAIN rr)
        /\ rr \in [DOMAIN rr -> Nat] /\ Total(rr) = i.amount
    BY BilledMonthIs, ItemIs
  <1>2. rr[r] \in Nat
    BY <1>1
  <1>3. CASE ~IsPlan(i)
    <2>1. taken = IF m - anchor = 0 THEN rr[r] ELSE 0
      BY <1>3, AllocationsAddUp
    <2>2. \A k \in Int : LeftAt(i, c, rr, k, r) = IF k - anchor =< 0 THEN rr[r] ELSE 0
      BY <1>3 DEF LeftAt
    <2>3. n = 1
      BY <1>1, <1>3 DEF IsPlan
    <2>. HIDE DEF anchor, taken, n
    <2>4. /\ LeftAt(i, c, rr, 0, r) = IF 0 - anchor =< 0 THEN rr[r] ELSE 0
          /\ LeftAt(i, c, rr, m, r) = IF m - anchor =< 0 THEN rr[r] ELSE 0
          /\ LeftAt(i, c, rr, m + 1, r) = IF (m + 1) - anchor =< 0 THEN rr[r] ELSE 0
      BY <2>2
    <2>5. /\ LeftAt(i, c, rr, 0, r) = rr[r] /\ LeftAt(i, c, rr, m, r) \in 0 .. rr[r]
          /\ LeftAt(i, c, rr, m + 1, r) = LeftAt(i, c, rr, m, r) - taken
          /\ m >= anchor + n => LeftAt(i, c, rr, m, r) = 0
      BY <1>1, <1>2, <2>1, <2>3, <2>4
    <2>. QED BY <2>5 DEF anchor, taken, n
  <1>4. CASE IsPlan(i)
    <2>1. /\ L[0] = rr /\ \A k \in 0 .. n : L[k] \in [DOMAIN rr -> Nat]
      BY <1>1, <1>4, RowsHoldTheRest
    <2>2. \A k \in 0 .. n, j \in 0 .. n : j =< k => L[k][r] =< L[j][r]
      BY <1>1, <1>4, RowsOnlyShrink
    <2>3. taken = IF m - anchor >= from /\ m - anchor < n
                  THEN L[m - anchor][r] - L[(m - anchor) + 1][r] ELSE 0
      BY <1>4, AllocationsAddUp
    <2>4. \A k \in 0 .. n : L[k][r] \in Nat
      BY <2>1
    <2>5. L[n][r] = 0
      <3>1. Total(L[n]) = 0
        BY <1>1, <1>4, RowsHoldTheRest
      <3>2. PICK f : f = L[n]
        OBVIOUS
      <3>3. f \in [DOMAIN rr -> Nat]
        BY <1>1, <2>1, <3>2
      <3>4. Total(f) = SumFunctionOnSet(f, DOMAIN rr)
        BY <3>3, TotalIs
      <3>5. \A s \in DOMAIN rr : f[s] \in Nat
        BY <3>3
      <3>6. \A s \in DOMAIN rr : f[s] = 0
        BY <1>1, <3>1, <3>2, <3>4, <3>5, NothingAddsUp
      <3>. QED BY <3>2, <3>6
    <2>. DEFINE left_(k) == IF k =< from THEN rr[r] ELSE rr[r] - L[from][r] + L[k][r]
                to(o) == Least(Positive(o), n)
    <2>6. \A k \in Int : LeftAt(i, c, rr, k, r) = left_(to(k - anchor))
      BY <1>4 DEF LeftAt
    <2>7. from \in 0 .. n /\ \A o \in Int : /\ to(o) \in 0 .. n
                                            /\ o =< 0 => to(o) = 0
                                            /\ o \in 0 .. n => to(o) = o
                                            /\ o >= n => to(o) = n
      BY <1>1 DEF Least, Positive
    <2>8. L[0][r] = rr[r]
      BY <2>1
    <2>. DEFINE row == [k \in 0 .. n |-> L[k][r]]
    <2>9. /\ row[0] = rr[r] /\ row[n] = 0 /\ \A k \in 0 .. n : row[k] \in Nat
          /\ \A k \in 0 .. n, j \in 0 .. n : j =< k => row[k] =< row[j]
      BY <1>1, <2>2, <2>4, <2>5, <2>8
    <2>10. \A k \in 0 .. n : left_(k) = IF k =< from THEN rr[r] ELSE rr[r] - row[from] + row[k]
      BY <2>7
    <2>11. taken = IF m - anchor >= from /\ m - anchor < n
                   THEN row[m - anchor] - row[(m - anchor) + 1] ELSE 0
      <3>1. ASSUME m - anchor >= from, m - anchor < n
            PROVE  m - anchor \in 0 .. n /\ (m - anchor) + 1 \in 0 .. n
        <4>. HIDE DEF anchor, n
        <4>. QED BY <1>1, <3>1
      <3>. QED BY <2>3, <3>1
    <2>. HIDE DEF left_, row, taken, L, to, n, anchor, from
    <2>12. ASSUME NEW k \in 0 .. n PROVE left_(k) \in 0 .. rr[r]
      <3>1. CASE k =< from
        BY <1>2, <2>10, <3>1
      <3>2. CASE ~(k =< from)
        <4>1. /\ row[k] \in Nat /\ row[from] \in Nat /\ row[k] =< row[from] /\ row[from] =< rr[r]
              /\ left_(k) = rr[r] - row[from] + row[k]
          <5>1. from =< k /\ 0 =< from /\ 0 \in 0 .. n
            BY <1>1, <2>7, <3>2
          <5>. QED BY <2>7, <2>9, <2>10, <3>2, <5>1
        <4>. QED BY <1>2, <4>1
      <3>. QED BY <3>1, <3>2
    <2>13. LeftAt(i, c, rr, 0, r) = rr[r]
      <3>1. to(0 - anchor) = 0
        BY <1>1, <2>7
      <3>2. left_(0) = rr[r]
        BY <1>1, <2>7, <2>10
      <3>. QED BY <2>6, <3>1, <3>2
    <2>14. LeftAt(i, c, rr, m, r) \in 0 .. rr[r]
      <3>1. to(m - anchor) \in 0 .. n
        BY <1>1, <2>7
      <3>2. LeftAt(i, c, rr, m, r) = left_(to(m - anchor))
        BY <2>6
      <3>. QED BY <2>12, <3>1, <3>2
    <2>15. LeftAt(i, c, rr, m + 1, r) = LeftAt(i, c, rr, m, r) - taken
      <3>1. PICK o \in Int : o = m - anchor
        BY <1>1
      <3>2. (m + 1) - anchor = o + 1
        BY <1>1, <3>1
      <3>3. LeftAt(i, c, rr, m, r) = left_(to(o)) /\ LeftAt(i, c, rr, m + 1, r) = left_(to(o + 1))
        BY <2>6, <3>1, <3>2
      <3>4. CASE o < from
        <4>1. taken = 0
          BY <1>1, <2>7, <2>11, <3>1, <3>4
        <4>2. to(o) \in 0 .. n /\ to(o) =< from /\ to(o + 1) \in 0 .. n /\ to(o + 1) =< from
          <5>1. CASE o < 0
            <6>1. to(o) = 0 /\ to(o + 1) = 0
              BY <2>7, <5>1
            <6>. QED BY <1>1, <2>7, <6>1
          <5>2. CASE o >= 0
            <6>1. o \in 0 .. n /\ o + 1 \in 0 .. n /\ o + 1 =< from
              BY <1>1, <2>7, <3>4, <5>2
            <6>2. to(o) = o /\ to(o + 1) = o + 1
              BY <2>7, <6>1
            <6>. QED BY <2>7, <3>4, <6>1, <6>2
          <5>. QED BY <5>1, <5>2
        <4>3. left_(to(o)) = rr[r] /\ left_(to(o + 1)) = rr[r]
          BY <2>10, <4>2
        <4>. QED BY <1>2, <3>3, <4>1, <4>3
      <3>5. CASE o >= n
        <4>1. taken = 0 /\ to(o) = n /\ to(o + 1) = n
          BY <1>1, <2>7, <2>11, <3>1, <3>5
        <4>2. left_(n) \in 0 .. rr[r]
          BY <1>1, <2>12
        <4>. QED BY <1>2, <3>3, <4>1, <4>2
      <3>6. CASE o >= from /\ o < n
        <4>1. o \in 0 .. n /\ o + 1 \in 0 .. n
          BY <1>1, <2>7, <3>6
        <4>2. to(o) = o /\ to(o + 1) = o + 1 /\ taken = row[o] - row[o + 1]
          BY <2>7, <2>11, <3>1, <3>6, <4>1
        <4>3. row[o] \in Nat /\ row[o + 1] \in Nat /\ row[from] \in Nat
          BY <2>7, <2>9, <4>1
        <4>4. left_(o + 1) = rr[r] - row[from] + row[o + 1]
          BY <2>7, <2>10, <3>6, <4>1
        <4>5. left_(o) = rr[r] - row[from] + row[o]
          <5>1. CASE o = from
            BY <1>2, <2>10, <4>1, <4>3, <5>1
          <5>2. CASE o # from
            BY <2>7, <2>10, <3>6, <4>1, <5>2
          <5>. QED BY <5>1, <5>2
        <4>. QED BY <1>2, <3>3, <4>2, <4>3, <4>4, <4>5
      <3>. QED BY <1>1, <2>7, <3>4, <3>5, <3>6
    <2>16. ASSUME i.start = 1, m >= anchor + n PROVE LeftAt(i, c, rr, m, r) = 0
      <3>1. to(m - anchor) = n
        <4>1. m - anchor >= n /\ m - anchor \in Int
          BY <1>1, <2>16
        <4>. QED BY <2>7, <4>1
      <3>2. from = 0 /\ n \in 0 .. n /\ ~(n =< from)
        BY <1>1, <2>16 DEF from
      <3>3. left_(n) = rr[r] - row[0] + row[n]
        BY <2>10, <3>2
      <3>4. left_(n) = 0
        BY <1>2, <2>9, <3>3
      <3>. QED BY <2>6, <3>1, <3>4
    <2>. QED BY <2>13, <2>14, <2>15, <2>16 DEF taken, anchor, n
  <1>. QED BY <1>3, <1>4

\* What a walk has billed is the running total, and what it has left of the
\* rows is what they had less what was billed.
Walked ==
    /\ TypeOK
    /\ billed = AmountThroughMonth(item, card, month - 1)
    /\ ~item.fixed => /\ \A r \in DOMAIN rows : left[r] = LeftAt(item, card, rows, month, r)
                      /\ Total(rows) - Total(left) = billed

\* What is known of the transaction that is followed.
LEMMA WalkIs ==
  ASSUME TypeOK
  PROVE  /\ item \in Items /\ card \in Cards /\ WellFormed(item, card) /\ rows \in SplitsOf(item)
         /\ month \in Nat /\ month \in Months /\ month - 1 \in Int
         /\ DOMAIN rows \in SUBSET Int /\ IsFiniteSet(DOMAIN rows)
         /\ rows \in [DOMAIN rows -> Nat] /\ Total(rows) = item.amount
         /\ item.fixed \in BOOLEAN /\ item.amount \in Nat /\ billed \in Nat
  <1>1. item \in Items /\ card \in Cards /\ WellFormed(item, card) /\ rows \in SplitsOf(item)
    BY DEF TypeOK
  <1>2. month \in 0 .. LastMonth + 1 /\ LastMonth \in Nat /\ LastMonth + 1 \in Months
    BY AccrualAssumption DEF TypeOK
  <1>3. month \in Months
    BY <1>2, ContiguousAssumption
  <1>. QED BY <1>1, <1>2, <1>3, ItemIs DEF TypeOK

\* A walk starts with nothing billed and every row whole.
LEMMA WalkStarts == Init => Walked
  <1>. SUFFICES ASSUME Init PROVE Walked
    OBVIOUS
  <1>1. /\ item \in Items /\ card \in Cards /\ WellFormed(item, card) /\ rows \in SplitsOf(item)
        /\ month = 0 /\ billed = 0 /\ left = rows
    BY DEF Init
  <1>2. rows \in [DOMAIN rows -> Nat] /\ Total(rows) = item.amount /\ item.amount \in Nat
        /\ BilledMonth(item, card) \in Nat
    BY <1>1, ItemIs, BilledMonthIs
  <1>3. TypeOK
    <2>1. LastMonth \in Nat
      BY AccrualAssumption
    <2>2. rows \in [DOMAIN rows -> Int]
      BY <1>2
    <2>3. month \in 0 .. LastMonth + 1 /\ billed \in Nat
      BY <1>1, <2>1
    <2>. QED BY <1>1, <2>2, <2>3 DEF TypeOK
  <1>4. AmountThroughMonth(item, card, month - 1) = 0
    <2>1. 0 - 1 \in Int /\ 0 - 1 < BilledMonth(item, card)
      BY <1>2
    <2>2. AmountThroughMonth(item, card, 0 - 1) = 0
      BY <1>1, <2>1, MonthsAddUp
    <2>. QED BY <1>1, <2>2
  <1>5. ASSUME ~item.fixed, NEW r \in DOMAIN rows
        PROVE  left[r] = LeftAt(item, card, rows, month, r)
    BY <1>1, <1>5, LeftAtIs
  <1>6. Total(rows) - Total(left) = billed
    BY <1>1, <1>2
  <1>. QED BY <1>1, <1>3, <1>4, <1>5, <1>6 DEF Walked

\* Every month billed adds its amount to the total and takes it from the rows.
LEMMA WalkGoesOn == Walked /\ [Next]_vars => Walked'
  <1>. SUFFICES ASSUME Walked, [Next]_vars PROVE Walked'
    OBVIOUS
  <1>. DEFINE taken == AllocationsForMonth(item, card, rows, month)
              amount == AmountForMonth(item, card, month)
              D == DOMAIN rows
  <1>1. /\ item \in Items /\ card \in Cards /\ WellFormed(item, card) /\ rows \in SplitsOf(item)
        /\ month \in Nat /\ D \in SUBSET Int /\ IsFiniteSet(D)
        /\ rows \in [D -> Nat] /\ item.fixed \in BOOLEAN /\ billed \in Nat
    BY WalkIs DEF Walked
  <1>2. amount \in Nat /\ taken \in [D -> Nat] /\ Total(taken) = amount
    BY <1>1, AllocationsAddUp
  <1>3. /\ AmountThroughMonth(item, card, month)
             = AmountThroughMonth(item, card, month - 1) + amount
    BY <1>1, MonthsAddUp
  <1>. HIDE DEF taken, amount, D
  <1>4. CASE BillRecurringMonth
    <2>1. /\ month =< LastMonth /\ item.fixed /\ billed' = billed + amount /\ month' = month + 1
          /\ UNCHANGED <<item, card, rows, left>>
      BY <1>2, <1>4 DEF BillRecurringMonth, taken
    <2>2. TypeOK'
      <3>1. LastMonth \in Nat
      BY AccrualAssumption
    <3>2. month' \in 0 .. LastMonth + 1 /\ billed' \in Nat
      BY <1>1, <1>2, <2>1, <3>1
    <3>. QED BY <2>1, <3>2 DEF Walked, TypeOK
    <2>3. month' - 1 = month
      BY <1>1, <2>1
    <2>4. billed' = AmountThroughMonth(item', card', month' - 1)
      BY <1>3, <2>1, <2>3 DEF Walked
    <2>. QED BY <2>1, <2>2, <2>4 DEF Walked
  <1>5. CASE BillMonth
    <2>1. /\ month =< LastMonth /\ ~item.fixed /\ billed' = billed + amount /\ month' = month + 1
          /\ left' = [r \in D |-> left[r] - taken[r]]
          /\ UNCHANGED <<item, card, rows>>
      BY <1>5 DEF BillMonth, taken, amount, D
    <2>2. left \in [D -> Int]
      BY DEF Walked, TypeOK, D
    <2>3. \A r \in D : /\ left'[r] = left[r] - taken[r] /\ left[r] \in Int /\ taken[r] \in Nat
                       /\ left'[r] \in Int
      BY <1>2, <2>1, <2>2
    <2>4. left' \in [D -> Int]
      BY <2>1, <2>3
    <2>5. TypeOK'
      <3>1. LastMonth \in Nat
      BY AccrualAssumption
    <3>2. month' \in 0 .. LastMonth + 1 /\ billed' \in Nat
      BY <1>1, <1>2, <2>1, <3>1
    <3>. QED BY <2>1, <2>4, <3>2 DEF Walked, TypeOK, D
    <2>6. month' - 1 = month
      BY <1>1, <2>1
    <2>7. billed' = AmountThroughMonth(item', card', month' - 1)
      BY <1>3, <2>1, <2>6 DEF Walked
    <2>8. ASSUME NEW r \in D PROVE left'[r] = LeftAt(item, card, rows, month + 1, r)
      <3>1. LeftAt(item, card, rows, month + 1, r)
              = LeftAt(item, card, rows, month, r) - taken[r]
        BY <1>1, <2>1, LeftAtIs DEF D, taken
      <3>2. left[r] = LeftAt(item, card, rows, month, r)
        BY <2>1 DEF Walked, D
      <3>. QED BY <2>3, <3>1, <3>2
    <2>9. Total(left) = Total(left') + amount
      <3>1. PICK S, f, g, h : S = D /\ f = left' /\ g = taken /\ h = left
        OBVIOUS
      <3>2. /\ IsFiniteSet(S) /\ f \in [S -> Int] /\ g \in [S -> Nat] /\ h \in [S -> Int]
            /\ \A r \in S : f[r] \in Int /\ g[r] \in Int /\ h[r] = f[r] + g[r]
        BY <1>1, <1>2, <2>2, <2>3, <2>4, <3>1
      <3>3. SumFunctionOnSet(h, S) = SumFunctionOnSet(f, S) + SumFunctionOnSet(g, S)
        BY <3>2, SumOfSums
      <3>4. /\ Total(f) = SumFunctionOnSet(f, S) /\ Total(g) = SumFunctionOnSet(g, S)
            /\ Total(h) = SumFunctionOnSet(h, S)
        BY <3>2, TotalIs
      <3>. QED BY <1>2, <3>1, <3>3, <3>4
    <2>10. Total(left') \in Int /\ Total(rows) \in Int
      <3>1. PICK S, f : S = D /\ f = left'
        OBVIOUS
      <3>2. IsFiniteSet(S) /\ f \in [S -> Int] /\ \A r \in S : f[r] \in Int
        BY <1>1, <2>4, <3>1
      <3>3. SumFunctionOnSet(f, S) \in Int
        BY <3>2, SumIsInt
      <3>4. Total(f) = SumFunctionOnSet(f, S)
        BY <3>2, TotalIs
      <3>. QED BY <3>1, <3>3, <3>4, WalkIs DEF Walked
    <2>11. Total(rows) - Total(left') = billed'
      <3>1. Total(rows) - Total(left) = billed
        BY <2>1 DEF Walked
      <3>. QED BY <1>1, <1>2, <2>1, <2>9, <2>10, <3>1
    <2>. QED BY <2>1, <2>5, <2>7, <2>8, <2>11 DEF Walked, D
  <1>6. CASE UNCHANGED vars
    BY <1>6 DEF vars, Walked, TypeOK
  <1>. QED BY <1>4, <1>5, <1>6 DEF Next

LEMMA WalkFollows == Spec => []Walked
  BY WalkStarts, WalkGoesOn, PTL DEF Spec

\* The months of a purchase, however it is split, take from no category more
\* than it was given, leave of the categories what they have not billed yet,
\* and close a plan tracked from its first installment to the cent
\* (transactions/models.py, category_allocations_for_month).
THEOREM SplitsCloseExactly == Spec => []SplitsNeverOverdraw
  <1>1. Walked => SplitsNeverOverdraw
    <2>. SUFFICES ASSUME Walked, ~item.fixed
                  PROVE  /\ \A r \in DOMAIN rows : left[r] \in 0 .. rows[r]
                         /\ Total(rows) - Total(left) = billed
                         /\ item.start = 1 /\ month >= BilledMonth(item, card) + item.installments
                               => billed = item.amount /\ \A r \in DOMAIN rows : left[r] = 0
      BY DEF SplitsNeverOverdraw, PlanCloses
    <2>1. /\ item \in Items /\ card \in Cards /\ WellFormed(item, card) /\ rows \in SplitsOf(item)
          /\ month \in Nat /\ IsFiniteSet(DOMAIN rows) /\ Total(rows) = item.amount
          /\ item.amount \in Nat
      BY WalkIs DEF Walked
    <2>2. ASSUME NEW r \in DOMAIN rows
          PROVE  /\ left[r] \in 0 .. rows[r]
                 /\ item.start = 1 /\ month >= BilledMonth(item, card) + item.installments
                       => left[r] = 0
      <3>1. left[r] = LeftAt(item, card, rows, month, r)
        BY DEF Walked
      <3>. QED BY <2>1, <3>1, LeftAtIs
    <2>3. ASSUME \A r \in DOMAIN rows : left[r] = 0
          PROVE  Total(left) = 0
      <3>1. PICK S, f, none : S = DOMAIN rows /\ f = left /\ none = {}
        OBVIOUS
      <3>2. /\ DOMAIN f = S /\ IsFiniteSet(S) /\ none \in SUBSET S
            /\ \A r \in S : f[r] \in Int /\ f[r] = 0
        BY <2>1, <2>3, <3>1 DEF Walked, TypeOK
      <3>3. SumFunctionOnSet(f, S) = SumFunctionOnSet(f, none)
        BY <3>2, SumWithoutZeros
      <3>4. Total(f) = SumFunctionOnSet(f, S)
        BY <3>2, TotalIs
      <3>. QED BY <3>1, <3>3, <3>4, SumOfNothing
    <2>4. Total(rows) - Total(left) = billed
      BY DEF Walked
    <2>. QED BY <2>1, <2>2, <2>3, <2>4
  <1>. QED BY <1>1, WalkFollows, PTL

\* The window counted by arithmetic holds the months that bill something.
LEMMA WindowHolds ==
  ASSUME NEW i \in Items, NEW c \in Cards, WellFormed(i, c), NEW rr \in SplitsOf(i),
         NEW h \in Date, h.month \in Nat, NEW m \in Int, AmountForMonth(i, c, m) > 0
  PROVE  m \in OccurrenceMonths(i, c, h)
           <=> m \in 0 .. h.month /\ (IsCard(c) \/ NotAfter(EffectiveDate(i, m), h))
  <1>. DEFINE anchor == BilledMonth(i, c)
              n == i.installments
              start == WindowStart(i, c)
              open == Positive(h.month - start + 1)
              last == LastFixedOffset(i)
              bounded == IF i.fixed
                         THEN IF i.until = NoMonth THEN open ELSE Least(open, last + 1)
                         ELSE Least(open, IF IsPlan(i) THEN n - (i.start - 1) ELSE 1)
              final == start + bounded - 1
              late == bounded > 0 /\ ~IsCard(c) /\ Before(h, EffectiveDate(i, final))
              \* How many months can bill something, if there is an end.
              Ends(o) == IF i.fixed THEN i.until = NoMonth \/ o =< last
                         ELSE IF IsPlan(i) THEN o < n - (i.start - 1) ELSE o < 1
  <1>1. /\ anchor \in Nat /\ n \in Nat \ {0} /\ i.start \in Nat /\ i.start >= 1 /\ i.start =< n
        /\ (IsPlan(i) => ~i.fixed) /\ i.fixed \in BOOLEAN /\ h.month \in Nat
    BY BilledMonthIs, ItemIs
  <1>2. start \in Nat /\ start = anchor + IF IsPlan(i) THEN i.start - 1 ELSE 0
    BY <1>1 DEF WindowStart
  <1>3. last \in Nat /\ open \in Nat /\ (h.month >= start => open = h.month - start + 1)
        /\ (h.month < start => open = 0)
    BY <1>1, <1>2 DEF LastFixedOffset, Positive
  <1>4. OccurrenceMonths(i, c, h) = start .. (start + (IF late THEN bounded - 1 ELSE bounded) - 1)
    BY DEF OccurrenceMonths, WindowLength
  <1>5. m >= start /\ Ends(m - start)
    <2>1. CASE IsPlan(i)
      <3>1. m - anchor >= i.start - 1 /\ m - anchor < n
        BY <2>1, AmountIs
      <3>. HIDE DEF anchor, n, start
      <3>. QED BY <1>1, <1>2, <2>1, <3>1
    <2>2. CASE ~IsPlan(i) /\ ~i.fixed
      <3>1. m - anchor = 0
        BY <2>2, AmountIs
      <3>. HIDE DEF anchor, n, start
      <3>. QED BY <1>1, <1>2, <2>2, <3>1
    <2>3. CASE i.fixed
      <3>1. m - anchor >= 0 /\ (i.until = NoMonth \/ m - anchor =< last)
        BY <2>3, AmountIs
      <3>. HIDE DEF anchor, n, start, last
      <3>. QED BY <1>1, <1>2, <2>3, <3>1
    <2>. QED BY <2>1, <2>2, <2>3
  <1>. HIDE DEF anchor, n, start, open, last
  <1>6. bounded \in Nat /\ bounded =< open
        /\ \A o \in Nat : Ends(o) => (o < bounded <=> o < open)
    BY <1>1, <1>3 DEF Least
  <1>7. m \in 0 .. h.month <=> m < start + bounded
    <2>1. PICK o \in Nat : o = m - start
      BY <1>2, <1>5
    <2>2. o < bounded <=> o < open
      BY <1>5, <1>6, <2>1
    <2>. HIDE DEF bounded, Ends
    <2>. QED BY <1>1, <1>2, <1>3, <1>5, <1>6, <2>1, <2>2
  <1>8. bounded > 0 => final \in Nat /\ final =< h.month
    <2>. HIDE DEF bounded
    <2>. QED BY <1>1, <1>2, <1>3, <1>6
  <1>. HIDE DEF bounded, Ends
  <1>9. \A k \in Int : EffectiveDate(i, k).month = k
    BY DEF EffectiveDate, Clamped
  <1>10. h = [month |-> h.month, day |-> h.day] /\ h.day \in Int
    BY DEF Date, DatesIn
  <1>11. CASE ~(m \in 0 .. h.month)
    <2>1. ~(m < start + bounded)
      BY <1>7, <1>11
    <2>2. ~(m =< start + (IF late THEN bounded - 1 ELSE bounded) - 1)
      <3>. HIDE DEF late
      <3>. QED BY <1>2, <1>6, <2>1
    <2>. QED BY <1>2, <1>4, <1>6, <1>11, <2>2
  <1>12. CASE m \in 0 .. h.month
    <2>1. m < start + bounded /\ bounded > 0
      <3>1. m < start + bounded
        BY <1>7, <1>12
      <3>. QED BY <1>2, <1>5, <1>6, <3>1
    <2>2. m \in OccurrenceMonths(i, c, h) <=> (late => m < final)
      <3>1. PICK b \in BOOLEAN : b = late
        OBVIOUS
      <3>2. OccurrenceMonths(i, c, h) = start .. (start + (IF b THEN bounded - 1 ELSE bounded) - 1)
        BY <1>4, <3>1
      <3>. HIDE DEF late
      <3>. QED BY <1>2, <1>5, <1>6, <2>1, <3>1, <3>2
    <2>3. m =< final
      BY <1>2, <1>6, <2>1
    <2>. DEFINE day(k) == Least(i.date.day, DaysIn[k])
    <2>4. m \in Months /\ \A k \in Months : DaysIn[k] \in Nat
      <3>1. h.month \in Months
        BY DEF Date, DatesIn
      <3>. QED BY <1>12, <3>1, CalendarAssumption, ContiguousAssumption
    <2>5. i.date.day \in Int
      BY ItemIs DEF Date, DatesIn
    <2>6. EffectiveDate(i, m) = [month |-> m, day |-> day(m)] /\ day(m) \in Int
      BY <2>4, <2>5 DEF EffectiveDate, Clamped, Least
    <2>. HIDE DEF day
    <2>7. NotAfter(EffectiveDate(i, m), h) <=> ~Before(h, EffectiveDate(i, m))
      <3>1. PICK e : e = EffectiveDate(i, m)
        OBVIOUS
      <3>2. e = [month |-> e.month, day |-> e.day] /\ e.month = m /\ e.day \in Int
        BY <2>6, <3>1
      <3>3. e = h <=> e.month = h.month /\ e.day = h.day
        BY <1>10, <3>2
      <3>. QED BY <1>1, <1>10, <3>1, <3>2, <3>3 DEF NotAfter, Before
    <2>8. CASE IsCard(c)
      BY <1>12, <2>2, <2>8
    <2>9. CASE ~IsCard(c) /\ m = final
      <3>1. late <=> Before(h, EffectiveDate(i, m))
        BY <2>1, <2>9
      <3>2. ~(m < final)
        BY <2>9
      <3>. HIDE DEF late, final
      <3>. QED BY <1>12, <2>2, <2>7, <2>9, <3>1, <3>2
    <2>10. CASE ~IsCard(c) /\ m # final
      <3>1. m < final
        BY <1>8, <2>1, <2>3, <2>10
      <3>2. m < h.month
        BY <1>1, <1>8, <2>1, <3>1
      <3>3. ~Before(h, EffectiveDate(i, m))
        BY <1>1, <1>9, <3>2 DEF Before
      <3>. HIDE DEF late, final
      <3>. QED BY <1>12, <2>2, <2>7, <2>10, <3>1, <3>3
    <2>. QED BY <2>8, <2>9, <2>10
  <1>. QED BY <1>11, <1>12

LEMMA MonthDays ==
  ASSUME NEW m \in Months, NEW day \in 1 .. DaysIn[m]
  PROVE  [month |-> m, day |-> day] \in Date
  BY CalendarAssumption DEF Date, DatesIn

\* The running total the reports show is what the months billed, and the
\* projection visits exactly the months that bill something, for every item,
\* card and horizon (transactions/models.py, amount_through_month, and
\* transactions/projection.py, occurrence_window).
LEMMA TotalsFollowWhatMonthsBill == Walked => CumulativeIsSum /\ WindowIsWhatBills
  <1>1. Walked => CumulativeIsSum /\ WindowIsWhatBills
    <2>. SUFFICES ASSUME Walked PROVE CumulativeIsSum /\ WindowIsWhatBills
      OBVIOUS
    <2>1. CumulativeIsSum
      BY DEF CumulativeIsSum, Walked
    <2>2. /\ item \in Items /\ card \in Cards /\ WellFormed(item, card) /\ rows \in SplitsOf(item)
          /\ month \in Months /\ month \in Nat
      BY WalkIs DEF Walked
    <2>3. ASSUME NEW day \in 1 .. DaysIn[month]
          PROVE  LET horizon == [month |-> month, day |-> day]
                     bills(m) == AmountForMonth(item, card, m) > 0
                 IN  {m \in OccurrenceMonths(item, card, horizon) : bills(m)}
                       = {m \in 0 .. month :
                            bills(m) /\ (IsCard(card) \/ NotAfter(EffectiveDate(item, m), horizon))}
      <3>1. PICK h : h = [month |-> month, day |-> day]
        OBVIOUS
      <3>2. h \in Date /\ h.month = month
        BY <2>2, <3>1, MonthDays
      <3>3. OccurrenceMonths(item, card, h) \subseteq Int
        BY DEF OccurrenceMonths
      <3>4. ASSUME NEW m
            PROVE  (m \in OccurrenceMonths(item, card, h) /\ AmountForMonth(item, card, m) > 0)
                      <=> /\ m \in 0 .. month /\ AmountForMonth(item, card, m) > 0
                          /\ (IsCard(card) \/ NotAfter(EffectiveDate(item, m), h))
        <4>1. CASE m \in Int /\ AmountForMonth(item, card, m) > 0
          BY <2>2, <3>2, <4>1, WindowHolds
        <4>2. CASE m \notin Int
          BY <3>3, <4>2
        <4>. QED BY <4>1, <4>2
      <3>5. {m \in OccurrenceMonths(item, card, h) : AmountForMonth(item, card, m) > 0}
              = {m \in 0 .. month : /\ AmountForMonth(item, card, m) > 0
                                    /\ (IsCard(card) \/ NotAfter(EffectiveDate(item, m), h))}
        BY <3>4
      <3>. QED BY <3>1, <3>5
    <2>4. WindowIsWhatBills
      BY <2>3 DEF WindowIsWhatBills
    <2>. QED BY <2>1, <2>4
  <1>. QED BY <1>1

\* A purchase is due after the day it was made, and a later one is in the same
\* statement or a later one, for any closing and due days and any lengths of
\* the months (transactions/projection.py, statement_month, and CreditCard in
\* banking/models.py).
LEMMA StatementsFollowPurchases == Walked => StatementFollowsPurchase
  <1>1. Walked => StatementFollowsPurchase
    <2>. DEFINE near == DatesIn({item.date.month, item.date.month + 1})
    <2>. SUFFICES ASSUME Walked, IsCard(card), NEW a \in near, NEW b \in near
                  PROVE  /\ Before(a, DueDate(card, StatementMonth(card, a, NoOverride)))
                         /\ NotAfter(a, b) => StatementMonth(card, a, NoOverride)
                                                =< StatementMonth(card, b, NoOverride)
      BY DEF StatementFollowsPurchase
    <2>1. item \in Items /\ card \in Cards /\ item.date.month \in Nat
      BY ItemIs, WalkIs DEF Walked
    <2>2. card \in [closing : 1 .. 31, due : 1 .. 31]
      BY <2>1, AccrualAssumption DEF IsCard
    <2>3. card.closing \in 1 .. 31 /\ card.due \in 1 .. 31
      BY <2>2
    <2>4. item.date.month + 3 \in Months
      BY <2>1, AccrualAssumption
    <2>5. \A k \in 0 .. 3 : item.date.month + k \in Months
      BY <2>1, <2>4, ContiguousAssumption
    <2>6. \A k \in 0 .. 3 : DaysIn[item.date.month + k] \in Nat \ {0}
      BY <2>5, CalendarAssumption
    <2>7. ASSUME NEW d \in near
          PROVE  /\ d.month \in Nat /\ d.month \in item.date.month .. item.date.month + 1
                 /\ d = [month |-> d.month, day |-> d.day] /\ d.day \in Nat
                 /\ d.day >= 1 /\ d.day =< DaysIn[d.month]
      <3>1. PICK k \in {item.date.month, item.date.month + 1} :
               \E j \in 1 .. DaysIn[k] : d = [month |-> k, day |-> j]
        BY DEF DatesIn
      <3>. QED BY <2>1, <3>1
    <2>. DEFINE StatementOf(d) == IF d.day >= Least(card.closing, DaysIn[d.month])
                                  THEN d.month + 1 ELSE d.month
    <2>8. \A d \in near : StatementMonth(card, d, NoOverride) = StatementOf(d)
      BY <2>7 DEF StatementMonth
    <2>9. \A d \in near : DaysIn[d.month] \in Nat /\ DaysIn[d.month] >= 1
      <3>. TAKE d \in near
      <3>1. PICK k, p : k = d.month /\ p = item.date.month
        OBVIOUS
      <3>2. k \in p .. p + 1 /\ p \in Nat
        BY <2>1, <2>7, <3>1
      <3>3. k = p + 0 \/ k = p + 1
        BY <3>2
      <3>4. DaysIn[k] \in Nat \ {0}
        BY <2>6, <3>1, <3>3
      <3>. QED BY <3>1, <3>4
    <2>10. Before(a, DueDate(card, StatementOf(a)))
      <3>1. PICK due : due = DueDate(card, StatementOf(a))
        OBVIOUS
      <3>2. /\ due.month = IF card.due < card.closing THEN StatementOf(a) + 1 ELSE StatementOf(a)
            /\ due.day = Least(card.due, DaysIn[due.month])
        BY <3>1 DEF DueDate, Clamped
      <3>3. CASE StatementOf(a) = a.month + 1
        BY <2>3, <2>7, <3>1, <3>2, <3>3 DEF Before
      <3>4. CASE StatementOf(a) = a.month /\ card.due < card.closing
        BY <2>3, <2>7, <3>1, <3>2, <3>4 DEF Before
      <3>5. CASE StatementOf(a) = a.month /\ ~(card.due < card.closing)
        <4>1. due.month = a.month /\ due.day = Least(card.due, DaysIn[a.month])
          BY <3>2, <3>5
        <4>3. PICK k, x, y, z, w : /\ k = a.month /\ x = a.day /\ y = card.closing
                                   /\ z = card.due /\ w = DaysIn[a.month]
          OBVIOUS
        <4>2. k \in Nat /\ x \in Nat /\ y \in Nat /\ z \in Nat /\ w \in Nat /\ x =< w
          <5>1. y \in 1 .. 31 /\ z \in 1 .. 31
            BY <2>3, <4>3
          <5>2. k \in Nat /\ x \in Nat /\ x =< w
            BY <2>7, <4>3
          <5>3. w \in Nat
            BY <2>9, <4>3
          <5>. QED BY <5>1, <5>2, <5>3
        <4>6. (IF x >= Least(y, w) THEN k + 1 ELSE k) = k /\ ~(z < y)
          BY <3>5, <4>3
        <4>4. ~(x >= Least(y, w)) /\ ~(z < y)
          BY <4>2, <4>6
        <4>5. x < Least(z, w)
          BY <4>2, <4>4 DEF Least
        <4>. QED BY <3>1, <4>1, <4>3, <4>5 DEF Before
      <3>. QED BY <3>3, <3>4, <3>5
    <2>11. NotAfter(a, b) => StatementOf(a) =< StatementOf(b)
      <3>. SUFFICES ASSUME NotAfter(a, b) PROVE StatementOf(a) =< StatementOf(b)
        OBVIOUS
      <3>1. CASE a = b
        BY <2>7, <3>1
      <3>2. CASE a.month < b.month
        BY <2>7, <3>2
      <3>3. CASE a.month = b.month /\ a.day < b.day
        <4>1. PICK k, x, y, l : /\ k = a.month /\ x = a.day /\ y = b.day
                                /\ l = Least(card.closing, DaysIn[a.month])
          OBVIOUS
        <4>2. k \in Nat /\ x \in Nat /\ y \in Nat /\ x < y
          BY <2>7, <3>3, <4>1
        <4>3. l \in Nat
          <5>1. PICK p, w : p = card.closing /\ w = DaysIn[a.month]
            OBVIOUS
          <5>2. p \in 1 .. 31
            BY <2>3, <5>1
          <5>3. w \in Nat
            BY <2>9, <5>1
          <5>4. l = Least(p, w)
            BY <4>1, <5>1
          <5>. QED BY <5>2, <5>3, <5>4 DEF Least
        <4>4. /\ StatementOf(a) = (IF x >= l THEN k + 1 ELSE k)
              /\ StatementOf(b) = (IF y >= l THEN k + 1 ELSE k)
          BY <3>3, <4>1
        <4>. HIDE DEF StatementOf
        <4>. QED BY <4>2, <4>3, <4>4
      <3>. QED BY <3>1, <3>2, <3>3 DEF NotAfter, Before
    <2>. HIDE DEF near, StatementOf
    <2>. QED BY <2>8, <2>10, <2>11
  <1>. QED BY <1>1

\* The closed forms of a schedule agree with following it month by month, and
\* a statement never precedes what it bills (transactions/models.py,
\* transactions/projection.py and CreditCard in banking/models.py).
THEOREM SchedulesAreTrue == Spec => []SchedulesAgree
  BY TotalsFollowWhatMonthsBill, StatementsFollowPurchases, WalkFollows, PTL DEF SchedulesAgree

-----------------------------------------------------------------------------
(* The figures of a month.                                                 *)

\* A finite set of integers that is not empty has a greatest.
LEMMA GreatestIs ==
  ASSUME NEW S \in SUBSET Int, IsFiniteSet(S), S # {}
  PROVE  \E x \in S : \A y \in S : y =< x
  <1>. DEFINE Good == {T \in SUBSET S : T # {} => \E x \in T : \A y \in T : y =< x}
  <1>1. {} \in Good
    OBVIOUS
  <1>2. ASSUME NEW T \in SUBSET S, NEW x \in T, T \ {x} \in Good PROVE T \in Good
    <2>1. CASE T \ {x} = {}
      BY <2>1
    <2>2. CASE T \ {x} # {}
      <3>1. PICK z \in T \ {x} : \A y \in T \ {x} : y =< z
        BY <1>2, <2>2
      <3>2. CASE x =< z
        BY <3>1, <3>2
      <3>3. CASE ~(x =< z)
        BY <3>1, <3>3
      <3>. QED BY <3>2, <3>3
    <2>. QED BY <2>1, <2>2
  <1>. HIDE DEF Good
  <1>3. S \in Good
    BY <1>1, <1>2, RemovalInduction
  <1>. QED BY <1>3 DEF Good

\* A product is at least each of its factors.
LEMMA ProductGrows ==
  ASSUME NEW a \in Nat, NEW b \in Nat, a > 0
  PROVE  a * b \in Nat /\ a * b >= b
  <1>1. PICK k \in Nat : a = 1 + k
    <2>1. a - 1 \in Nat /\ a = 1 + (a - 1)
      OBVIOUS
    <2>. QED BY <2>1
  <1>2. a * b = b + k * b /\ k * b \in Nat
    BY <1>1, Products
  <1>. QED BY <1>2

LEMMA HalfEvenIsNat ==
  ASSUME NEW n \in Nat, NEW d \in Nat, d > 0
  PROVE  HalfEven(n, d) \in Nat
  <1>1. PICK low : low = n \div d
    OBVIOUS
  <1>2. low \in Nat
    BY <1>1, Division
  <1>. QED BY <1>1, <1>2 DEF HalfEven

\* Every number ends in some place.
LEMMA PlaceIs ==
  ASSUME NEW n \in Nat, NEW d \in Nat, d > 0
  PROVE  Place(n, d) \in Nat \ {0}
  <1>. DEFINE P == {1} \union {p \in Places : 10 * n >= Kept * p * d}
  <1>1. ASSUME NEW p \in P PROVE p \in 1 .. (10 * n + 1)
    <2>1. CASE p = 1
      BY <2>1
    <2>2. CASE p \in Places /\ 10 * n >= Kept * p * d
      <3>1. p \in Nat \ {0} /\ Kept \in Nat \ {0}
        BY <2>2, RatesAssumption
      <3>2. PICK q : q = Kept * p
        OBVIOUS
      <3>3. q \in Nat /\ q >= p
        BY <3>1, <3>2, ProductGrows
      <3>4. q * d \in Nat /\ q * d >= q
        <4>1. d * q \in Nat /\ d * q >= q /\ d * q = q * d
          BY <3>3, ProductGrows
        <4>. QED BY <4>1
      <3>5. 10 * n >= q * d
        BY <2>2, <3>2
      <3>. QED BY <3>1, <3>3, <3>4, <3>5
    <2>. QED BY <2>1, <2>2
  <1>2. P \in SUBSET Int /\ P # {}
    <2>1. 1 \in P
      OBVIOUS
    <2>. HIDE DEF P
    <2>. QED BY <1>1, <2>1
  <1>3. IsFiniteSet(P)
    <2>1. IsFiniteSet(1 .. (10 * n + 1))
      BY FS_Interval
    <2>2. P \subseteq 1 .. (10 * n + 1)
      BY <1>1
    <2>. HIDE DEF P
    <2>. QED BY <2>1, <2>2, FS_Subset
  <1>4. Place(n, d) = Max(P)
    BY DEF Place
  <1>. HIDE DEF P
  <1>5. \E x \in P : \A y \in P : x >= y
    <2>1. PICK x \in P : \A y \in P : y =< x
      BY <1>2, <1>3, GreatestIs
    <2>. QED BY <1>2, <2>1
  <1>6. Max(P) \in P
    BY <1>5 DEF Max
  <1>. QED BY <1>1, <1>4, <1>6

LEMMA RoundedIsInt ==
  ASSUME NEW n \in Int, NEW d \in Nat, d > 0
  PROVE  Rounded(n, d) \in Int
  <1>1. ASSUME NEW k \in Nat PROVE Nearest(k, d) \in Nat
    <2>1. PICK p : p = Place(k, d)
      OBVIOUS
    <2>2. p \in Nat /\ p > 0
      BY <2>1, PlaceIs
    <2>3. PICK q : q = d * p
      OBVIOUS
    <2>4. q \in Nat /\ q > 0
      BY <2>2, <2>3, ProductGrows
    <2>5. PICK h : h = HalfEven(k, q)
      OBVIOUS
    <2>6. h \in Nat /\ p * h \in Nat
      BY <2>2, <2>4, <2>5, HalfEvenIsNat, Products
    <2>. QED BY <2>1, <2>3, <2>5, <2>6 DEF Nearest
  <1>2. CASE n < 0
    <2>1. Nearest(-n, d) \in Nat
      BY <1>1, <1>2
    <2>. QED BY <1>2, <2>1 DEF Rounded
  <1>3. CASE ~(n < 0)
    BY <1>1, <1>3 DEF Rounded
  <1>. QED BY <1>2, <1>3

\* A figure is a number, or there is no rate for it.
LEMMA ConvertIs ==
  ASSUME NEW amount \in Nat, NEW d \in Date
  PROVE  Convert(amount, d) \in Int \union {Unknown}
  <1>1. CASE amount = 0 \/ RateOn[d] = Unknown
    BY <1>1 DEF Convert
  <1>2. CASE amount # 0 /\ RateOn[d] # Unknown
    <2>1. RateOn[d] \in [times : Nat \ {0}, over : Nat \ {0}] /\ Scale \in Nat
      BY <1>2, RatesAssumption
    <2>2. PICK t, v : t = RateOn[d].times /\ v = RateOn[d].over
      OBVIOUS
    <2>3. t \in Nat /\ v \in Nat /\ v > 0
      BY <2>1, <2>2
    <2>4. PICK s : s = amount * Scale
      OBVIOUS
    <2>5. s \in Nat /\ s * t \in Int
      BY <2>1, <2>3, <2>4, Products
    <2>6. Rounded(s * t, v) \in Int
      BY <2>3, <2>5, RoundedIsInt
    <2>. QED BY <1>2, <2>2, <2>4, <2>6 DEF Convert, Converted
  <1>. QED BY <1>1, <1>2

\* What has happened by the cutoff has happened by today, and both figures of
\* it are valued on the same day.
LEMMA SameRate ==
  ASSUME Walked, AmountForMonth(item, card, month) > 0, NEW today \in Date,
         HasHappened(month, today)
  PROVE  RateDate(month, today, Cutoff(month, today)) = RateDate(month, today, NoMonth)
  <1>. DEFINE end == MonthEnd(month)
              occurrence == OccurrenceDate(month)
              c == Cutoff(month, today)
  <1>1. /\ item \in Items /\ card \in Cards /\ WellFormed(item, card) /\ rows \in SplitsOf(item)
        /\ month \in Months /\ month \in Nat
    BY WalkIs DEF Walked
  <1>2. today.month \in Months /\ today.day \in 1 .. DaysIn[today.month] /\ today.month \in Int
    BY CalendarAssumption DEF Date, DatesIn
  <1>3. /\ DaysIn[month] \in Nat /\ DaysIn[month] \in 1 .. DaysIn[month]
        /\ end.month = month /\ end.day = DaysIn[month] /\ end \in Date
    <2>1. DaysIn[month] \in Nat /\ DaysIn[month] \in 1 .. DaysIn[month]
      BY <1>1, CalendarAssumption
    <2>2. end \in Date
      BY <1>1, <2>1, MonthDays DEF MonthEnd
    <2>. QED BY <2>1, <2>2 DEF MonthEnd
  <1>4. occurrence.month \in Int
    <2>1. item.date \in Date /\ item.date.month \in Int /\ BilledMonth(item, card) \in Int
      BY <1>1, ItemIs, BilledMonthIs
    <2>2. BillingOffset(item, card) \in Int
      BY <1>1, ItemIs, OverrideAssumption DEF BillingOffset, StatementMonth
    <2>. QED BY <1>1, <2>1, <2>2 DEF OccurrenceDate, Clamped
  <1>5. month =< today.month /\ NotAfter(occurrence, c)
    BY DEF HasHappened
  <1>6. c \in Date /\ c # NoMonth /\ c = Earlier(today, end)
    <2>1. NoMonth \notin Date
      BY AccrualAssumption
    <2>. QED BY <1>3, <2>1 DEF Cutoff, Earlier
  <1>. HIDE DEF end, occurrence, c
  <1>7. today \in [month : {today.month}, day : 1 .. DaysIn[today.month]]
        /\ end \in [month : {end.month}, day : 1 .. DaysIn[end.month]]
    BY <1>3 DEF Date, DatesIn
  <1>8. NotAfter(occurrence, today) /\ Earlier(end, c) = Earlier(end, today)
    <2>1. CASE NotAfter(today, end)
      <3>1. c = today
        BY <1>6, <2>1 DEF Earlier
      <3>. QED BY <1>5, <3>1
    <2>2. CASE ~NotAfter(today, end)
      <3>1. c = end /\ Earlier(end, c) = end
        BY <1>6, <2>2 DEF Earlier
      <3>2. Before(end, today)
        <4>1. today # end /\ ~Before(today, end)
          BY <2>2 DEF NotAfter
        <4>2. today.month = end.month => today.day < end.day \/ today.day = end.day
          BY <1>2, <1>3
        <4>3. today.month = end.month /\ today.day = end.day => today = end
          BY <1>7
        <4>4. today.month # end.month
          BY <4>1, <4>2, <4>3 DEF Before
        <4>. QED BY <1>1, <1>2, <1>3, <1>5, <4>4 DEF Before
      <3>3. NotAfter(occurrence, today)
        BY <1>1, <1>2, <1>3, <1>4, <1>5, <3>1, <3>2 DEF NotAfter, Before
      <3>4. Earlier(end, today) = end
        BY <3>2 DEF Earlier, NotAfter
      <3>. QED BY <3>1, <3>3, <3>4
    <2>. QED BY <2>1, <2>2
  <1>9. RateDate(month, today, c) = Earlier(end, c)
    BY <1>6 DEF RateDate, end
  <1>10. RateDate(month, today, NoMonth) = Earlier(end, today)
    BY <1>5, <1>8 DEF RateDate, end, occurrence
  <1>. QED BY <1>8, <1>9, <1>10 DEF c

\* On any day, what remains planned of a month is what has not happened of it,
\* whatever the rates did since and whether there is one, and the categories
\* shown are those of the figure beside them (dashboard/services.py,
\* _activity_rate_date and get_dashboard_summary).
THEOREM PlannedIsWhatRemains == Spec => []RemainingIsPlanned
  <1>1. Walked => RemainingIsPlanned
    <2>. SUFFICES ASSUME Walked, AmountForMonth(item, card, month) > 0, NEW today \in Date
                  PROVE  Reconciles(month, today)
      BY DEF RemainingIsPlanned
    <2>. DEFINE full == MonthValue(month, today, NoMonth)
                cut == Cutoff(month, today)
    <2>1. /\ item \in Items /\ card \in Cards /\ WellFormed(item, card) /\ rows \in SplitsOf(item)
          /\ month \in Months /\ month \in Nat
      BY WalkIs DEF Walked
    <2>2. AmountForMonth(item, card, month) \in Nat
      BY <2>1, AllocationsAddUp
    <2>3. today.month \in Int /\ MonthEnd(month) \in Date
      <3>1. DaysIn[month] \in 1 .. DaysIn[month]
        BY <2>1, CalendarAssumption
      <3>2. MonthEnd(month) \in Date
        BY <2>1, <3>1, MonthDays DEF MonthEnd
      <3>. QED BY <3>2, CalendarAssumption DEF Date, DatesIn
    <2>4. RateDate(month, today, NoMonth) \in Date
      BY <2>3 DEF RateDate, Earlier
    <2>5. full \in Int \union {Unknown}
      BY <2>2, <2>4, ConvertIs DEF MonthValue
    <2>6. FullMonth(month, today) = OrZero(full) /\ OrZero(full) \in Int
      BY <2>5 DEF FullMonth, OrZero
    <2>7. ASSUME HasHappened(month, today)
          PROVE  /\ MonthValue(month, today, cut) = full
                 /\ CategoryValues(month, today, cut) = CategoryValues(month, today, NoMonth)
                 /\ ~(month > today.month)
      <3>1. RateDate(month, today, cut) = RateDate(month, today, NoMonth)
        BY <2>7, SameRate
      <3>2. MonthValue(month, today, cut) = full
        BY <3>1 DEF MonthValue
      <3>3. CategoryValues(month, today, cut) = CategoryValues(month, today, NoMonth)
        BY <3>1, <3>2 DEF CategoryValues
      <3>. QED BY <2>1, <2>3, <2>7, <3>2, <3>3 DEF HasHappened
    <2>8. ThroughCutoff(month, today) = IF HasHappened(month, today) THEN OrZero(full) ELSE 0
      BY <2>7 DEF ThroughCutoff
    <2>9. Remaining(month, today)
            = IF HasHappened(month, today) THEN 0 ELSE FullMonth(month, today)
      <3>1. PICK w \in Int : w = OrZero(full)
        BY <2>6
      <3>2. w - w = 0 /\ w - 0 = w
        OBVIOUS
      <3>. QED BY <2>6, <2>8, <3>1, <3>2 DEF Remaining
    <2>10. CategoriesShown(month, today)
             = IF HasHappened(month, today) \/ month > today.month
               THEN CategoryValues(month, today, NoMonth) ELSE <<>>
      BY <2>7 DEF CategoriesShown
    <2>. QED BY <2>9, <2>10 DEF Reconciles
  <1>. QED BY <1>1, WalkFollows, PTL

-----------------------------------------------------------------------------
(* Holdings: the inductive invariant.                                      *)

\* An operation has a number that was given, and so has an entry of points.
Numbered ==
    /\ \A o \in Live(ops) : o =< issued.op
    /\ \A e \in Live(entries) : e =< issued.entry

\* An entry that an operation or a conversion owns exists, and is its own.
Owned ==
    /\ \A o \in Live(ops) : ops[o].entry # None =>
          /\ entries[ops[o].entry] # None
          /\ \A q \in Live(ops) : ops[q].entry = ops[o].entry => q = o
          /\ \A r \in Live(redemptions) : redemptions[r].entry # ops[o].entry
    /\ \A r, q \in Live(redemptions) : redemptions[q].entry = redemptions[r].entry => q = r

\* A row says of its bank side what its figures ask for.
Says ==
    /\ \A o \in Live(ops) : ops[o].movement <=> WantsMovement(ops[o])
    /\ \A e \in Live(entries) : entries[e].funding <=> entries[e].purchase

BookInv == HoldingsTypeOK /\ Numbered /\ Owned /\ Says /\ BankSideIsBacked

\* What the view in flight loaded was a row, and unless another tab has cut
\* the link its operation still owns the entry it saw.
OperationInFlight ==
    /\ request.id \in OpIds /\ request.seen \in Operation
    /\ request.seen.movement <=> WantsMovement(request.seen)
    /\ request.seen.fx.captured <=> request.seen.fx.rate # None
    /\ ~request.gone /\ request.seen.entry # None =>
          ops[request.id] # None /\ ops[request.id].entry = request.seen.entry
EntryInFlight ==
    /\ request.id \in EntryIds /\ request.seen \in PointsEntry
    /\ request.id =< issued.entry
    /\ request.seen.funding <=> request.seen.purchase
    /\ \A r \in Live(redemptions) : redemptions[r].entry # request.id
OpeningInFlight == request.id \in Pairs /\ request.seen \in Opening

FlightInv ==
    request # None =>
       /\ request = [of |-> request.of, id |-> request.id, seen |-> request.seen,
                     gone |-> request.gone]
       /\ request.of \in {"operation", "entry", "opening"} /\ request.gone \in BOOLEAN
       /\ request.of = "operation" => OperationInFlight
       /\ request.of = "entry" => EntryInFlight
       /\ request.of = "opening" => OpeningInFlight

HoldingsInv == BookInv /\ FlightInv
-----------------------------------------------------------------------------
(* Holdings: numbers, rates and what a save writes.                        *)

LEMMA IdsAreFinite ==
  /\ IsFiniteSet(OpIds) /\ IsFiniteSet(EntryIds) /\ IsFiniteSet(RedemptionIds)
  /\ OpIds \subseteq PosNat /\ EntryIds \subseteq PosNat
  /\ None \notin EntryIds /\ 0 \notin OpIds /\ 0 \notin EntryIds
  <1>1. ASSUME NEW ids \in {OpIds, EntryIds, RedemptionIds}
        PROVE  IsFiniteSet(ids) /\ ids \subseteq PosNat /\ 0 \notin ids
    <2>1. IsFiniteSet(ids) /\ ids = 1 .. Cardinality(ids)
      BY IdsAreNumbered
    <2>2. PICK n : n = Cardinality(ids)
      OBVIOUS
    <2>3. n \in Nat
      BY <2>1, <2>2, FS_CardinalityType
    <2>4. ids = 1 .. n
      BY <2>1, <2>2
    <2>5. ids \subseteq PosNat /\ 0 \notin ids
      BY ONLY <2>3, <2>4 DEF PosNat
    <2>. QED BY <2>1, <2>5
  <1>2. None \notin EntryIds
    BY WorldIsNamed
  <1>. QED BY <1>1, <1>2

LEMMA MaxIsMember ==
  ASSUME NEW S, IsFiniteSet(S), S # {}, S \subseteq Int
  PROVE  Max(S) \in S
  <1>. DEFINE Good == {T \in SUBSET S : T # {} => \E x \in T : \A y \in T : x >= y}
  <1>1. {} \in Good
    OBVIOUS
  <1>2. ASSUME NEW T \in SUBSET S, NEW x \in T, T \ {x} \in Good PROVE T \in Good
    <2>1. CASE T \ {x} = {}
      BY <2>1
    <2>2. CASE T \ {x} # {}
      <3>1. PICK z \in T \ {x} : \A y \in T \ {x} : z >= y
        BY <1>2, <2>2
      <3>2. x \in Int /\ z \in Int /\ \A y \in T : y \in Int
        OBVIOUS
      <3>3. CASE z >= x
        <4>1. \A y \in T : z >= y
          BY <3>1, <3>3
        <4>. QED BY <4>1
      <3>4. CASE ~(z >= x)
        <4>1. \A y \in T : x >= y
          BY <3>1, <3>2, <3>4
        <4>. QED BY <4>1
      <3>. QED BY <3>3, <3>4
    <2>. QED BY <2>1, <2>2
  <1>3. S \in Good
    <2>. HIDE DEF Good
    <2>. QED BY <1>1, <1>2, RemovalInduction
  <1>4. \E x \in S : \A y \in S : x >= y
    BY <1>3
  <1>. QED BY <1>4 DEF Max

\* A rate that is found is one that was declared, or its inverse.
LEMMA RatesAreRates ==
  ASSUME HoldingsTypeOK, NEW from \in Currencies, NEW to \in Currencies, NEW date
  PROVE  RateOf(rates, from, to, date) \in Rates
  <1>1. ASSUME NEW pair \in Currencies \X Currencies
        PROVE  LatestRate(rates[pair], date) \in Nat \union {None}
    <2>1. rates[pair] \in [Dates -> Nat \union {None}]
      BY DEF HoldingsTypeOK
    <2>2. PICK dates : dates = {d \in Live(rates[pair]) : d =< date}
      OBVIOUS
    <2>3. dates \subseteq Dates
      BY <2>1, <2>2 DEF Live
    <2>4. CASE dates = {}
      BY <2>2, <2>4 DEF LatestRate
    <2>5. CASE dates # {}
      <3>1. IsFiniteSet(dates) /\ dates \subseteq Int
        BY <2>3, WorldIsNamed, FS_Subset
      <3>2. Max(dates) \in Dates
        BY <2>3, <2>5, <3>1, MaxIsMember
      <3>3. LatestRate(rates[pair], date) = rates[pair][Max(dates)]
        BY <2>2, <2>5 DEF LatestRate
      <3>. QED BY <2>1, <3>2, <3>3
    <2>. QED BY <2>4, <2>5
  <1>2. /\ LatestRate(rates[<<from, to>>], date) \in Nat \union {None}
        /\ LatestRate(rates[<<to, from>>], date) \in Nat \union {None}
    BY <1>1
  <1>. QED BY <1>2 DEF RateOf, Rates

LEMMA PositionsAreNumbers ==
  ASSUME HoldingsTypeOK, NEW p \in Pairs, NEW date, NEW o
  PROVE  Available(ops, opening[p], p, date, o) \in Int
  <1>1. PICK E : E = EarlierOps(ops, p, date, o)
    OBVIOUS
  <1>2. PICK f : f = Moves(ops)
    OBVIOUS
  <1>3. E \subseteq Live(ops) /\ Live(ops) \subseteq OpIds
    BY <1>1 DEF EarlierOps, Of, Live, HoldingsTypeOK
  <1>4. \A x \in E : f[x] \in Int
    <2>. SUFFICES ASSUME NEW x \in E PROVE f[x] \in Int
      OBVIOUS
    <2>1. ops[x] \in Operation
      BY <1>3 DEF HoldingsTypeOK, Live
    <2>2. ops[x].quantity \in Int
      BY <2>1 DEF Operation, PosNat
    <2>3. f[x] = Signed(ops[x], ops[x].quantity)
      BY <1>2, <1>3 DEF Moves
    <2>. QED BY <2>2, <2>3 DEF Signed
  <1>5. IsFiniteSet(E)
    BY <1>3, IdsAreFinite, FS_Subset
  <1>6. SumFunctionOnSet(f, E) \in Int
    BY <1>4, <1>5, SumIsInt
  <1>7. OpeningBy(opening[p], date) \in Int
    BY DEF HoldingsTypeOK, Opening, NoOpening, OpeningBy
  <1>. QED BY <1>1, <1>2, <1>6, <1>7 DEF Available, SumOver

\* What a save may rely on of the row it was loaded with: it was a row, and
\* an entry it owned is still the operation's.
Knows(o, seen) ==
    /\ o \in OpIds
    /\ seen # None =>
          /\ seen \in Operation
          /\ seen.movement <=> WantsMovement(seen)
          /\ seen.fx.captured <=> seen.fx.rate # None
          /\ seen.entry # None => ops[o] # None /\ ops[o].entry = seen.entry

LEMMA RowsAreSomething ==
  None \notin Operation /\ None \notin Movement /\ None \notin PointsEntry
    /\ None \notin Redemption /\ None \notin Programs
  BY WorldIsNamed

\* The row a save writes, field by field.
LEMMA WrittenIs ==
  ASSUME HoldingsTypeOK, NEW o, NEW seen, Knows(o, seen), NEW form \in OperationForms,
         NEW entry \in EntryIds \union {None},
         Written(o, seen, form, entry).quantity > 0
  PROVE  LET op == Written(o, seen, form, entry)
         IN  /\ op \in Operation
             /\ op.pair = form.pair /\ op.kind = form.kind /\ op.program = form.program
             /\ op.points = form.points /\ op.cash = form.cash /\ op.date = form.date
             /\ op.entry = entry
             /\ op.movement <=> WantsMovement(op)
             /\ op.fx.captured <=> op.fx.rate # None
             /\ seen # None /\ ~Refreshes(seen, form, Figures(op)) => op.fx = seen.fx
  <1>1. form \in OperationForm
    BY FormsAreValid
  <1>2. form.pair \in Pairs /\ Currency[form.pair] \in Currencies /\ base \in Currencies
    BY <1>1, WorldIsNamed DEF OperationForm, HoldingsTypeOK
  <1>3. PICK amount : amount = Amount(o, form)
    OBVIOUS
  <1>4. amount \in Int
    <2>1. Available(ops, opening[form.pair], form.pair, form.date, o) \in Int
      BY <1>2, PositionsAreNumbers
    <2>. QED BY <1>1, <1>3, <2>1 DEF Amount, OperationForm
  <1>5. PICK snap : snap = Snapshot(rates, Currency[form.pair], base, form.date)
    OBVIOUS
  <1>6. /\ snap \in [source : Currencies, target : Currencies, rate : Rates, captured : BOOLEAN]
        /\ snap.captured <=> snap.rate # None
    <2>1. PICK r \in Rates : r = RateOf(rates, Currency[form.pair], base, form.date)
      BY <1>2, RatesAreRates
    <2>2. snap = [source |-> Currency[form.pair], target |-> base, rate |-> r,
                  captured |-> r # None]
      BY <1>5, <2>1 DEF Snapshot
    <2>. QED BY <1>2, <2>2
  <1>7. PICK asked \in BOOLEAN : asked <=>
            Refreshes(seen, form, <<form.pair, amount, form.price, form.fees, form.date>>)
    OBVIOUS
  <1>8. PICK wants \in BOOLEAN : wants = WantsMovement(form)
    BY DEF WantsMovement
  <1>9. PICK fx : fx = IF asked THEN snap ELSE seen.fx
    OBVIOUS
  <1>10. PICK op : op = Written(o, seen, form, entry)
    OBVIOUS
  <1>11. op = [pair |-> form.pair, kind |-> form.kind, quantity |-> amount,
               price |-> form.price, fees |-> form.fees,
               feesInCurrency |-> form.feesInCurrency, cash |-> form.cash,
               program |-> form.program, points |-> form.points, date |-> form.date,
               movement |-> wants, entry |-> entry, fx |-> fx]
    BY ONLY <1>3, <1>5, <1>7, <1>8, <1>9, <1>10, Zenon DEF Written
  <1>12. /\ fx \in [source : Currencies, target : Currencies, rate : Rates, captured : BOOLEAN]
         /\ fx.captured <=> fx.rate # None
    <2>1. CASE asked
      BY <1>6, <1>9, <2>1
    <2>2. CASE ~asked
      <3>1. seen # None /\ fx = seen.fx
        BY <1>7, <1>9, <2>2 DEF Refreshes
      <3>. QED BY <3>1 DEF Knows, Operation
    <2>. QED BY <2>1, <2>2
  <1>13. amount \in PosNat
    BY <1>4, <1>10, <1>11 DEF PosNat
  <1>14. op \in Operation
    BY ONLY <1>1, <1>8, <1>11, <1>12, <1>13 DEF Operation, OperationForm
  <1>15. op.movement <=> WantsMovement(op)
    BY ONLY <1>8, <1>11 DEF WantsMovement
  <1>16. seen # None /\ ~Refreshes(seen, form, Figures(op)) => op.fx = seen.fx
    <2>1. Figures(op) = <<form.pair, amount, form.price, form.fees, form.date>>
      BY ONLY <1>11 DEF Figures
    <2>. QED BY <1>7, <1>9, <1>11, <2>1
  <1>17. /\ op.pair = form.pair /\ op.kind = form.kind /\ op.program = form.program
         /\ op.points = form.points /\ op.cash = form.cash /\ op.date = form.date
         /\ op.entry = entry /\ op.fx = fx
    BY ONLY <1>11
  <1>. QED BY <1>10, <1>12, <1>14, <1>15, <1>16, <1>17
-----------------------------------------------------------------------------
(* Holdings: saving an operation.                                          *)

LinkOf(seen) == IF seen = None THEN None ELSE seen.entry

\* What saving an operation comes to: the row, its movement, its entry.
SavesAs(o, seen, form, op) ==
    /\ op \in Operation
    /\ op.movement <=> WantsMovement(op)
    /\ op.fx.captured <=> op.fx.rate # None
    /\ seen # None /\ ~Refreshes(seen, form, Figures(op)) => op.fx = seen.fx
    /\ op.pair = form.pair /\ op.kind = form.kind /\ op.points = form.points
    /\ WantsMovement(op) => op.cash > 0
    /\ \A p \in Disturbed(o, form) : Covered(ops', opening[p], p)
    /\ ops' = [ops EXCEPT ![o] = op]
    /\ BookCash(o, op, seen # None /\ seen.movement)
    /\ issued' = [op |-> IF o > issued.op THEN o ELSE issued.op, entry |-> issued'.entry]
    /\ UNCHANGED <<opening, redemptions, market>>
    /\ LinkOf(seen) # None => LinkOf(seen) \in EntryIds /\ entries[LinkOf(seen)] # None
    /\ op.entry = None =>
          /\ ~WantsPoints(op)
          /\ entries' = IF LinkOf(seen) = None THEN entries
                        ELSE [entries EXCEPT ![LinkOf(seen)] = None]
          /\ issued'.entry = issued.entry
    /\ op.entry # None =>
          /\ op.entry \in EntryIds /\ op.program \in Programs /\ op.points \in PosNat
          /\ IF LinkOf(seen) = None
             THEN op.entry = issued.entry + 1 /\ issued'.entry = op.entry
             ELSE /\ op.entry = LinkOf(seen) /\ issued'.entry = issued.entry
                  /\ ~entries[op.entry].purchase
          /\ Balance(entries, op.program) + Restored(LinkOf(seen), op.program) >= op.points
          /\ entries' = [entries EXCEPT ![op.entry] = Debit(op.program, op.points)]

LEMMA SavedOperation ==
  ASSUME BookInv, NEW o, NEW seen, Knows(o, seen), NEW form \in OperationForms,
         SaveOperation(o, seen, form)
  PROVE  \E op : SavesAs(o, seen, form, op)
  <1>1. PICK linked : linked = LinkOf(seen)
    OBVIOUS
  <1>2. linked # None => linked \in EntryIds /\ entries[linked] # None
    <2>. SUFFICES ASSUME linked # None PROVE linked \in EntryIds /\ entries[linked] # None
      OBVIOUS
    <2>1. seen # None /\ seen.entry = linked
      BY <1>1 DEF LinkOf
    <2>2. ops[o] # None /\ ops[o].entry = linked /\ seen \in Operation
      BY <2>1 DEF Knows
    <2>3. o \in Live(ops)
      BY <2>2 DEF Knows, Live, BookInv, HoldingsTypeOK
    <2>. QED BY <2>1, <2>2, <2>3 DEF Operation, BookInv, Owned
  <1>3. PICK entry : entry = IF ~WantsPoints(form) THEN None
                             ELSE IF linked = None THEN issued.entry + 1 ELSE linked
    OBVIOUS
  <1>4. PICK op : op = Written(o, seen, form, entry)
    OBVIOUS
  <1>5. /\ op.quantity > 0
        /\ \A p \in Disturbed(o, form) : Covered([ops EXCEPT ![o] = op], opening[p], p)
        /\ ops' = [ops EXCEPT ![o] = op]
        /\ BookCash(o, op, seen # None /\ seen.movement)
        /\ UNCHANGED <<opening, redemptions, market>>
    BY ONLY <1>1, <1>3, <1>4, SaveOperation(o, seen, form), Zenon DEF SaveOperation, LinkOf
  <1>6. CASE WantsPoints(form)
    <2>1. /\ Balance(entries, form.program) + Restored(linked, form.program) >= form.points
          /\ entry \in EntryIds
          /\ linked # None => ~entries[linked].purchase
          /\ entries' = [entries EXCEPT ![entry] = Debit(form.program, form.points)]
          /\ issued' = [op |-> IF o > issued.op THEN o ELSE issued.op,
                        entry |-> IF linked = None THEN issued.entry + 1 ELSE issued.entry]
      BY ONLY <1>1, <1>3, <1>4, <1>6, SaveOperation(o, seen, form), Zenon DEF SaveOperation, LinkOf
    <2>2. entry = IF linked = None THEN issued.entry + 1 ELSE linked
      BY <1>3, <1>6
    <2>3. /\ op \in Operation
          /\ op.pair = form.pair /\ op.kind = form.kind /\ op.program = form.program
          /\ op.points = form.points /\ op.cash = form.cash /\ op.entry = entry
          /\ op.movement <=> WantsMovement(op)
          /\ op.fx.captured <=> op.fx.rate # None
          /\ seen # None /\ ~Refreshes(seen, form, Figures(op)) => op.fx = seen.fx
      BY <1>4, <1>5, <2>1, WrittenIs DEF BookInv
    <2>4. WantsMovement(op) => op.cash > 0
      BY <2>3, FormsAreValid DEF WantsMovement
    <2>5. op.entry # None
      BY <2>1, <2>3, IdsAreFinite
    <2>6. op.program \in Programs /\ op.points \in PosNat
      <3>1. form \in OperationForm /\ form.points > 0 /\ form.program # None
        BY <1>6, FormsAreValid DEF WantsPoints
      <3>. QED BY <2>3, <3>1 DEF OperationForm, PosNat
    <2>7. /\ issued' = [op |-> IF o > issued.op THEN o ELSE issued.op, entry |-> issued'.entry]
          /\ issued'.entry = IF linked = None THEN issued.entry + 1 ELSE issued.entry
      BY <2>1
    <2>8. SavesAs(o, seen, form, op)
      <3>1. IF linked = None THEN op.entry = issued.entry + 1 /\ issued'.entry = op.entry
            ELSE /\ op.entry = linked /\ issued'.entry = issued.entry
                 /\ ~entries[op.entry].purchase
        BY <2>1, <2>2, <2>3, <2>7
      <3>2. /\ op.entry \in EntryIds
            /\ Balance(entries, op.program) + Restored(linked, op.program) >= op.points
            /\ entries' = [entries EXCEPT ![op.entry] = Debit(op.program, op.points)]
        BY <2>1, <2>3
      <3>3. \A p \in Disturbed(o, form) : Covered(ops', opening[p], p)
        BY <1>5
      <3>. QED BY ONLY <1>1, <1>2, <1>5, <2>3, <2>4, <2>5, <2>6, <2>7, <3>1, <3>2, <3>3, Zenon
                  DEF SavesAs
    <2>. QED BY <2>8
  <1>7. CASE ~WantsPoints(form)
    <2>1. /\ entries' = IF linked = None THEN entries ELSE [entries EXCEPT ![linked] = None]
          /\ issued' = [issued EXCEPT !.op = IF o > issued.op THEN o ELSE issued.op]
      BY ONLY <1>1, <1>3, <1>4, <1>7, SaveOperation(o, seen, form), Zenon DEF SaveOperation, LinkOf
    <2>2. entry = None
      BY <1>3, <1>7
    <2>3. /\ op \in Operation
          /\ op.pair = form.pair /\ op.kind = form.kind /\ op.program = form.program
          /\ op.points = form.points /\ op.cash = form.cash /\ op.entry = None
          /\ op.movement <=> WantsMovement(op)
          /\ op.fx.captured <=> op.fx.rate # None
          /\ seen # None /\ ~Refreshes(seen, form, Figures(op)) => op.fx = seen.fx
      BY <1>4, <1>5, <2>2, WrittenIs DEF BookInv
    <2>4. WantsMovement(op) => op.cash > 0
      BY <2>3, FormsAreValid DEF WantsMovement
    <2>5. ~WantsPoints(op)
      BY <1>7, <2>3 DEF WantsPoints
    <2>6. /\ issued' = [op |-> IF o > issued.op THEN o ELSE issued.op, entry |-> issued'.entry]
          /\ issued'.entry = issued.entry
      <3>1. issued \in [op : OpIds \union {0}, entry : EntryIds \union {0}]
        BY DEF BookInv, HoldingsTypeOK
      <3>. QED BY <2>1, <3>1
    <2>7. \A p \in Disturbed(o, form) : Covered(ops', opening[p], p)
      BY <1>5
    <2>8. SavesAs(o, seen, form, op)
      BY ONLY <1>1, <1>2, <1>5, <2>1, <2>3, <2>4, <2>5, <2>6, <2>7, Zenon DEF SavesAs
    <2>. QED BY <2>8
  <1>. QED BY <1>6, <1>7

\* The tables, by what is in their rows.
LEMMA TablesAre ==
  ASSUME NEW os \in [OpIds -> Operation \union {None}],
         NEW es \in [EntryIds -> PointsEntry \union {None}],
         NEW rs \in [RedemptionIds -> Redemption \union {None}],
         NEW given \in [op : OpIds \union {0}, entry : EntryIds \union {0}]
  PROVE  /\ Live(os) = {o \in OpIds : os[o] # None}
         /\ Live(es) = {e \in EntryIds : es[e] # None}
         /\ Live(rs) = {r \in RedemptionIds : rs[r] # None}
         /\ \A o \in Live(os) : o \in OpIds /\ os[o] \in Operation
         /\ \A e \in Live(es) : e \in EntryIds /\ es[e] \in PointsEntry
         /\ \A r \in Live(rs) : r \in RedemptionIds /\ rs[r] \in Redemption
         /\ given.op \in Nat /\ given.entry \in Nat
         /\ OpIds \subseteq Nat /\ EntryIds \subseteq Nat
  <1>1. DOMAIN os = OpIds /\ DOMAIN es = EntryIds /\ DOMAIN rs = RedemptionIds
    BY Zenon
  <1>2. /\ Live(os) = {o \in OpIds : os[o] # None}
        /\ Live(es) = {e \in EntryIds : es[e] # None}
        /\ Live(rs) = {r \in RedemptionIds : rs[r] # None}
    BY ONLY <1>1 DEF Live
  <1>3. /\ \A o \in Live(os) : o \in OpIds /\ os[o] \in Operation
        /\ \A e \in Live(es) : e \in EntryIds /\ es[e] \in PointsEntry
        /\ \A r \in Live(rs) : r \in RedemptionIds /\ rs[r] \in Redemption
    BY <1>2
  <1>4. OpIds \subseteq Nat /\ EntryIds \subseteq Nat
    BY IdsAreFinite DEF PosNat
  <1>5. given.op \in OpIds \union {0} /\ given.entry \in EntryIds \union {0}
    OBVIOUS
  <1>6. 0 \in Nat
    OBVIOUS
  <1>7. given.op \in Nat /\ given.entry \in Nat
    BY ONLY <1>4, <1>5, <1>6, Zenon
  <1>. QED BY <1>2, <1>3, <1>4, <1>7

LEMMA Tables ==
  ASSUME HoldingsTypeOK
  PROVE  /\ Live(ops) = {o \in OpIds : ops[o] # None}
         /\ Live(entries) = {e \in EntryIds : entries[e] # None}
         /\ Live(redemptions) = {r \in RedemptionIds : redemptions[r] # None}
         /\ \A o \in Live(ops) : o \in OpIds /\ ops[o] \in Operation
         /\ \A e \in Live(entries) : e \in EntryIds /\ entries[e] \in PointsEntry
         /\ \A r \in Live(redemptions) : r \in RedemptionIds /\ redemptions[r] \in Redemption
         /\ issued.op \in Nat /\ issued.entry \in Nat
         /\ OpIds \subseteq Nat /\ EntryIds \subseteq Nat
  <1>1. /\ ops \in [OpIds -> Operation \union {None}]
        /\ entries \in [EntryIds -> PointsEntry \union {None}]
        /\ redemptions \in [RedemptionIds -> Redemption \union {None}]
        /\ issued \in [op : OpIds \union {0}, entry : EntryIds \union {0}]
    BY DEF HoldingsTypeOK
  <1>. QED BY ONLY <1>1, TablesAre

LEMMA TablesAfter ==
  ASSUME HoldingsTypeOK'
  PROVE  /\ Live(ops') = {o \in OpIds : ops'[o] # None}
         /\ Live(entries') = {e \in EntryIds : entries'[e] # None}
         /\ Live(redemptions') = {r \in RedemptionIds : redemptions'[r] # None}
         /\ \A o \in Live(ops') : o \in OpIds /\ ops'[o] \in Operation
         /\ \A e \in Live(entries') : e \in EntryIds /\ entries'[e] \in PointsEntry
         /\ \A r \in Live(redemptions') : r \in RedemptionIds /\ redemptions'[r] \in Redemption
         /\ issued'.op \in Nat /\ issued'.entry \in Nat
         /\ OpIds \subseteq Nat /\ EntryIds \subseteq Nat
  <1>1. /\ ops' \in [OpIds -> Operation \union {None}]
        /\ entries' \in [EntryIds -> PointsEntry \union {None}]
        /\ redemptions' \in [RedemptionIds -> Redemption \union {None}]
        /\ issued' \in [op : OpIds \union {0}, entry : EntryIds \union {0}]
    BY DEF HoldingsTypeOK
  <1>. QED BY ONLY <1>1, TablesAre

\* A movement a row asks for is one.
LEMMA PaymentsAreMovements ==
  \A n \in PosNat, d \in BOOLEAN :
     [debit |-> d, amount |-> n] \in Movement /\ [debit |-> d, amount |-> n] # None
  BY RowsAreSomething DEF Movement

LEMMA DebitsAreEntries ==
  \A p \in Programs, n \in PosNat :
     Debit(p, n) \in PointsEntry /\ Debit(p, n) # None /\ ~Debit(p, n).purchase
       /\ ~Debit(p, n).funding /\ ~Debit(p, n).credit /\ Debit(p, n).program = p /\ Debit(p, n).amount = n
  <1>. SUFFICES ASSUME NEW p \in Programs, NEW n \in PosNat
                PROVE  /\ Debit(p, n) \in PointsEntry
                       /\ ~Debit(p, n).purchase /\ ~Debit(p, n).funding /\ ~Debit(p, n).credit
                       /\ Debit(p, n).program = p /\ Debit(p, n).amount = n
    BY RowsAreSomething
  <1>. QED BY DEF Debit, PointsEntry

LEMMA SavesTyped ==
  ASSUME BookInv, NEW o \in OpIds, NEW seen, NEW form, NEW op, SavesAs(o, seen, form, op)
  PROVE  HoldingsTypeOK'
  <1>1. ops' \in [OpIds -> Operation \union {None}] /\ Live(ops') \subseteq Live(ops) \union {o}
    <2>1. ops' = [ops EXCEPT ![o] = op] /\ op \in Operation
      BY DEF SavesAs
    <2>2. ops \in [OpIds -> Operation \union {None}]
      BY DEF BookInv, HoldingsTypeOK
    <2>. QED BY <2>1, <2>2 DEF Live
  <1>2. \A q \in Live(ops') : ops'[q].fx.captured <=> ops'[q].fx.rate # None
    <2>. SUFFICES ASSUME NEW q \in Live(ops')
                  PROVE  ops'[q].fx.captured <=> ops'[q].fx.rate # None
      OBVIOUS
    <2>1. ops' = [ops EXCEPT ![o] = op] /\ (op.fx.captured <=> op.fx.rate # None)
      BY DEF SavesAs
    <2>2. ops \in [OpIds -> Operation \union {None}]
      BY DEF BookInv, HoldingsTypeOK
    <2>3. CASE q = o
      <3>1. ops'[q] = op
        BY <2>1, <2>2, <2>3
      <3>. QED BY <2>1, <3>1
    <2>4. CASE q # o
      <3>1. ops'[q] = ops[q] /\ q \in Live(ops)
        <4>1. q \in Live(ops)
          BY <1>1, <2>4
        <4>2. q \in OpIds
          BY ONLY <2>2, <4>1 DEF Live
        <4>. QED BY ONLY <2>1, <2>2, <2>4, <4>1, <4>2
      <3>. QED BY <3>1 DEF BookInv, HoldingsTypeOK
    <2>. QED BY <2>3, <2>4
  <1>3. movements' \in [Keys -> Movement \union {None}]
    <2>1. movements \in [Keys -> Movement \union {None}]
      BY DEF BookInv, HoldingsTypeOK
    <2>2. PICK m : movements' = [movements EXCEPT ![<<"operation", o>>] = m]
                     /\ m \in {[debit |-> op.kind = "DEPOSIT", amount |-> op.cash], None,
                               movements[<<"operation", o>>]}
                     /\ (m = [debit |-> op.kind = "DEPOSIT", amount |-> op.cash] =>
                            WantsMovement(op) \/ m = None \/ m = movements[<<"operation", o>>])
      BY DEF SavesAs, BookCash
    <2>3. <<"operation", o>> \in Keys
      BY DEF Keys
    <2>4. WantsMovement(op) => [debit |-> op.kind = "DEPOSIT", amount |-> op.cash] \in Movement
      <3>1. WantsMovement(op) => op.cash \in PosNat
        BY DEF SavesAs, Operation, PosNat
      <3>. QED BY <3>1, PaymentsAreMovements
    <2>5. m \in Movement \union {None}
      BY <2>1, <2>2, <2>3, <2>4
    <2>. QED BY <2>1, <2>2, <2>3, <2>5
  <1>4. entries' \in [EntryIds -> PointsEntry \union {None}]
    <2>1. entries \in [EntryIds -> PointsEntry \union {None}]
      BY DEF BookInv, HoldingsTypeOK
    <2>2. CASE op.entry = None
      BY <2>1, <2>2 DEF SavesAs
    <2>3. CASE op.entry # None
      <3>1. /\ op.entry \in EntryIds /\ op.program \in Programs /\ op.points \in PosNat
            /\ entries' = [entries EXCEPT ![op.entry] = Debit(op.program, op.points)]
        BY <2>3 DEF SavesAs
      <3>2. Debit(op.program, op.points) \in PointsEntry
        BY <3>1, DebitsAreEntries
      <3>. QED BY <2>1, <3>1, <3>2
    <2>. QED BY <2>2, <2>3
  <1>5. issued' \in [op : OpIds \union {0}, entry : EntryIds \union {0}]
    <2>1. issued \in [op : OpIds \union {0}, entry : EntryIds \union {0}]
      BY DEF BookInv, HoldingsTypeOK
    <2>2. issued'.entry \in EntryIds \union {0}
      BY <2>1 DEF SavesAs
    <2>3. issued' = [op |-> IF o > issued.op THEN o ELSE issued.op, entry |-> issued'.entry]
      BY DEF SavesAs
    <2>. QED BY <2>1, <2>2, <2>3
  <1>6. UNCHANGED <<opening, redemptions, rates, base>>
    BY DEF SavesAs, market
  <1>7. /\ opening' \in [Pairs -> Opening \union {NoOpening}]
        /\ redemptions' \in [RedemptionIds -> Redemption \union {None}]
        /\ rates' \in [Currencies \X Currencies -> [Dates -> Nat \union {None}]]
        /\ base' \in Currencies
    BY <1>6 DEF BookInv, HoldingsTypeOK
  <1>. QED BY <1>1, <1>2, <1>3, <1>4, <1>5, <1>7 DEF HoldingsTypeOK

\* What a save leaves of the entries, the numbers and the other operations.
LEMMA SavesFacts ==
  ASSUME BookInv, NEW o \in OpIds, NEW seen, Knows(o, seen), NEW form, NEW op,
         SavesAs(o, seen, form, op)
  PROVE  /\ ops'[o] = op /\ op # None /\ \A q \in OpIds : q # o => ops'[q] = ops[q]
         /\ redemptions' = redemptions
         /\ issued.op =< issued'.op /\ o =< issued'.op /\ issued.entry =< issued'.entry
         /\ LinkOf(seen) # None =>
               /\ ops[o] # None /\ ops[o].entry = LinkOf(seen) /\ LinkOf(seen) \in EntryIds
               /\ entries[LinkOf(seen)] # None
         /\ op.entry # None =>
               /\ op.entry \in EntryIds /\ op.entry =< issued'.entry
               /\ entries'[op.entry] = Debit(op.program, op.points)
               /\ \A e \in EntryIds : e # op.entry => entries'[e] = entries[e]
               /\ LinkOf(seen) = None => op.entry = issued.entry + 1 /\ entries[op.entry] = None
               /\ LinkOf(seen) # None => op.entry = LinkOf(seen) /\ ~entries[op.entry].purchase
         /\ op.entry = None =>
               /\ LinkOf(seen) # None => entries'[LinkOf(seen)] = None
               /\ \A e \in EntryIds : e # LinkOf(seen) => entries'[e] = entries[e]
         /\ HoldingsTypeOK'
  <1>0. HoldingsTypeOK'
    BY SavesTyped
  <1>1. ops'[o] = op /\ op # None /\ \A q \in OpIds : q # o => ops'[q] = ops[q]
    <2>1. ops' = [ops EXCEPT ![o] = op] /\ op \in Operation
      BY DEF SavesAs
    <2>2. ops \in [OpIds -> Operation \union {None}]
      BY DEF BookInv, HoldingsTypeOK
    <2>. QED BY <2>1, <2>2, RowsAreSomething
  <1>2. redemptions' = redemptions
    BY DEF SavesAs
  <1>3. issued.op \in Nat /\ issued.entry \in Nat /\ OpIds \subseteq Nat /\ EntryIds \subseteq Nat
    BY Tables DEF BookInv
  <1>4. issued.op =< issued'.op /\ o =< issued'.op
    <2>1. issued'.op = IF o > issued.op THEN o ELSE issued.op
      BY DEF SavesAs
    <2>. QED BY <1>3, <2>1
  <1>5. LinkOf(seen) # None =>
               /\ ops[o] # None /\ ops[o].entry = LinkOf(seen) /\ LinkOf(seen) \in EntryIds
               /\ entries[LinkOf(seen)] # None
    BY DEF SavesAs, Knows, LinkOf
  <1>6. entries \in [EntryIds -> PointsEntry \union {None}]
    BY DEF BookInv, HoldingsTypeOK
  <1>7. ASSUME op.entry # None
        PROVE  /\ op.entry \in EntryIds /\ op.entry =< issued'.entry
               /\ issued.entry =< issued'.entry
               /\ entries'[op.entry] = Debit(op.program, op.points)
               /\ \A e \in EntryIds : e # op.entry => entries'[e] = entries[e]
               /\ LinkOf(seen) = None => op.entry = issued.entry + 1 /\ entries[op.entry] = None
               /\ LinkOf(seen) # None => op.entry = LinkOf(seen) /\ ~entries[op.entry].purchase
    <2>1. /\ op.entry \in EntryIds
          /\ entries' = [entries EXCEPT ![op.entry] = Debit(op.program, op.points)]
          /\ IF LinkOf(seen) = None
             THEN op.entry = issued.entry + 1 /\ issued'.entry = op.entry
             ELSE /\ op.entry = LinkOf(seen) /\ issued'.entry = issued.entry
                  /\ ~entries[op.entry].purchase
      BY <1>7 DEF SavesAs
    <2>2. /\ entries'[op.entry] = Debit(op.program, op.points)
          /\ \A e \in EntryIds : e # op.entry => entries'[e] = entries[e]
      BY <1>6, <2>1
    <2>3. \A e \in EntryIds : entries[e] # None => e =< issued.entry
      BY Tables DEF BookInv, Numbered
    <2>4. LinkOf(seen) = None => entries[op.entry] = None
      BY <1>3, <2>1, <2>3
    <2>5. op.entry =< issued'.entry /\ issued.entry =< issued'.entry
      <3>1. CASE LinkOf(seen) = None
        BY <1>3, <2>1, <3>1
      <3>2. CASE LinkOf(seen) # None
        <4>1. op.entry \in EntryIds /\ entries[op.entry] # None /\ issued'.entry = issued.entry
          BY ONLY <1>5, <2>1, <3>2
        <4>2. op.entry =< issued.entry
          BY ONLY <2>3, <4>1
        <4>. QED BY ONLY <1>3, <4>1, <4>2
      <3>. QED BY <3>1, <3>2
    <2>. QED BY <2>1, <2>2, <2>4, <2>5
  <1>8. ASSUME op.entry = None
        PROVE  /\ issued.entry =< issued'.entry
               /\ LinkOf(seen) # None => entries'[LinkOf(seen)] = None
               /\ \A e \in EntryIds : e # LinkOf(seen) => entries'[e] = entries[e]
    <2>1. /\ entries' = IF LinkOf(seen) = None THEN entries
                        ELSE [entries EXCEPT ![LinkOf(seen)] = None]
          /\ issued'.entry = issued.entry
      BY <1>8 DEF SavesAs
    <2>. QED BY <1>3, <1>5, <1>6, <2>1
  <1>. QED BY <1>0, <1>1, <1>2, <1>4, <1>5, <1>7, <1>8

\* A save touches no other movement than the operation's.
LEMMA SavesMovements ==
  ASSUME BookInv, NEW o \in OpIds, NEW seen, NEW form, NEW op, SavesAs(o, seen, form, op)
  PROVE  /\ \A k \in Keys : k # <<"operation", o>> => movements'[k] = movements[k]
         /\ WantsMovement(op) =>
               movements'[<<"operation", o>>] = [debit |-> op.kind = "DEPOSIT", amount |-> op.cash]
         /\ ~WantsMovement(op) /\ seen # None /\ seen.movement =>
               movements'[<<"operation", o>>] = None
         /\ ~WantsMovement(op) /\ ~(seen # None /\ seen.movement) =>
               movements'[<<"operation", o>>] = movements[<<"operation", o>>]
  <1>1. movements \in [Keys -> Movement \union {None}]
    BY DEF BookInv, HoldingsTypeOK
  <1>2. <<"operation", o>> \in Keys
    BY DEF Keys
  <1>3. DOMAIN movements = Keys
    BY ONLY <1>1, Zenon
  <1>4. BookCash(o, op, seen # None /\ seen.movement)
    BY DEF SavesAs
  <1>5. PICK made : made = [debit |-> op.kind = "DEPOSIT", amount |-> op.cash]
    OBVIOUS
  <1>6. PICK wants \in BOOLEAN : wants <=> WantsMovement(op)
    OBVIOUS
  <1>7. PICK linked \in BOOLEAN : linked <=> seen # None /\ seen.movement
    OBVIOUS
  <1>8. PICK m : /\ movements' = [movements EXCEPT ![<<"operation", o>>] = m]
                 /\ m = CASE wants -> made [] ~wants /\ linked -> None
                          [] OTHER -> movements[<<"operation", o>>]
    <2>1. BookCash(o, op, linked)
      BY <1>4, <1>7
    <2>. QED BY ONLY <1>5, <1>6, <2>1 DEF BookCash
  <1>9. /\ wants => m = made
        /\ ~wants /\ linked => m = None
        /\ ~wants /\ ~linked => m = movements[<<"operation", o>>]
    BY ONLY <1>8
  <1>10. /\ movements'[<<"operation", o>>] = m
         /\ \A k \in Keys : k # <<"operation", o>> => movements'[k] = movements[k]
    BY ONLY <1>2, <1>3, <1>8
  <1>. QED BY <1>5, <1>6, <1>7, <1>9, <1>10

LEMMA SavesKeep ==
  ASSUME BookInv, NEW o \in OpIds, NEW seen, Knows(o, seen), NEW form, NEW op,
         SavesAs(o, seen, form, op)
  PROVE  BookInv'
  <1>1. /\ ops'[o] = op /\ op # None /\ \A q \in OpIds : q # o => ops'[q] = ops[q]
        /\ redemptions' = redemptions
        /\ issued.op =< issued'.op /\ o =< issued'.op /\ issued.entry =< issued'.entry
        /\ LinkOf(seen) # None =>
              /\ ops[o] # None /\ ops[o].entry = LinkOf(seen) /\ LinkOf(seen) \in EntryIds
              /\ entries[LinkOf(seen)] # None
        /\ op.entry # None =>
              /\ op.entry \in EntryIds /\ op.entry =< issued'.entry
              /\ entries'[op.entry] = Debit(op.program, op.points)
              /\ \A e \in EntryIds : e # op.entry => entries'[e] = entries[e]
              /\ LinkOf(seen) = None => op.entry = issued.entry + 1 /\ entries[op.entry] = None
              /\ LinkOf(seen) # None => op.entry = LinkOf(seen) /\ ~entries[op.entry].purchase
        /\ op.entry = None =>
              /\ LinkOf(seen) # None => entries'[LinkOf(seen)] = None
              /\ \A e \in EntryIds : e # LinkOf(seen) => entries'[e] = entries[e]
        /\ HoldingsTypeOK'
    BY SavesFacts
  <1>2. /\ Live(ops) = {q \in OpIds : ops[q] # None}
        /\ Live(entries) = {e \in EntryIds : entries[e] # None}
        /\ \A q \in Live(ops) : q \in OpIds /\ ops[q] \in Operation
        /\ \A r \in Live(redemptions) : r \in RedemptionIds /\ redemptions[r] \in Redemption
        /\ issued.op \in Nat /\ issued.entry \in Nat
        /\ OpIds \subseteq Nat /\ EntryIds \subseteq Nat
    BY Tables DEF BookInv
  <1>3. /\ Live(ops') = {q \in OpIds : ops'[q] # None}
        /\ Live(entries') = {e \in EntryIds : entries'[e] # None}
        /\ \A q \in Live(ops') : q \in OpIds
        /\ issued'.op \in Nat /\ issued'.entry \in Nat
    BY <1>1, TablesAfter
  <1>4. \A q \in Live(ops') : q # o => q \in Live(ops) /\ ops'[q] = ops[q]
    BY <1>1, <1>2, <1>3
  <1>5. op \in Operation /\ (op.movement <=> WantsMovement(op))
          /\ (op.entry # None => op.program \in Programs /\ op.points \in PosNat)
    BY DEF SavesAs
  <1>6. op.entry # None =>
           /\ Debit(op.program, op.points) # None
           /\ ~Debit(op.program, op.points).purchase /\ ~Debit(op.program, op.points).funding
    BY <1>5, DebitsAreEntries
  \* The entry an operation owned or takes is nobody else's.
  <1>7. /\ LinkOf(seen) # None =>
              /\ \A q \in Live(ops) : ops[q].entry = LinkOf(seen) => q = o
              /\ \A r \in Live(redemptions) : redemptions[r].entry # LinkOf(seen)
    BY <1>1, <1>2 DEF BookInv, Owned
  <1>8. /\ \A q \in Live(ops) : ops[q].entry # None => ops[q].entry =< issued.entry
        /\ \A r \in Live(redemptions) : redemptions[r].entry \in EntryIds
              /\ entries[redemptions[r].entry] # None /\ redemptions[r].entry =< issued.entry
    <2>1. \A e \in EntryIds : entries[e] # None => e =< issued.entry
      BY <1>2 DEF BookInv, Numbered
    <2>2. \A q \in Live(ops) : ops[q].entry # None =>
             ops[q].entry \in EntryIds /\ entries[ops[q].entry] # None
      BY <1>2 DEF BookInv, Owned, Operation
    <2>3. ASSUME NEW r \in Live(redemptions)
          PROVE  redemptions[r].entry \in EntryIds /\ entries[redemptions[r].entry] # None
      <3>1. redemptions[r] \in Redemption
        BY <1>2
      <3>2. /\ redemptions[r].entry \in EntryIds /\ redemptions[r].program \in Programs
            /\ redemptions[r].points \in PosNat
        BY <3>1 DEF Redemption
      <3>3. entries[redemptions[r].entry] = Debit(redemptions[r].program, redemptions[r].points)
        BY DEF BookInv, BankSideIsBacked
      <3>. QED BY <3>2, <3>3, DebitsAreEntries
    <2>. QED BY <2>1, <2>2, <2>3
  <1>9. op.entry # None =>
           /\ \A q \in Live(ops) : q # o => ops[q].entry # op.entry
           /\ \A r \in Live(redemptions) : redemptions[r].entry # op.entry
    <2>1. CASE op.entry # None /\ LinkOf(seen) = None
      <3>1. op.entry = issued.entry + 1
        BY <1>1, <2>1
      <3>2. ~(op.entry =< issued.entry)
        BY <1>2, <3>1
      <3>. QED BY <1>8, <2>1, <3>2
    <2>2. CASE op.entry # None /\ LinkOf(seen) # None
      BY <1>1, <1>7, <2>2
    <2>. QED BY <2>1, <2>2
  <1>10. Numbered'
    <2>1. \A q \in Live(ops') : q =< issued'.op
      <3>1. \A q \in Live(ops) : q =< issued.op /\ q \in Nat
        BY <1>2 DEF BookInv, Numbered
      <3>. QED BY <1>1, <1>2, <1>3, <1>4, <3>1
    <2>2. \A e \in Live(entries') : e =< issued'.entry
      <3>. SUFFICES ASSUME NEW e \in Live(entries') PROVE e =< issued'.entry
        OBVIOUS
      <3>1. e \in EntryIds /\ entries'[e] # None
        BY <1>3
      <3>2. CASE e = op.entry
        BY <1>1, <3>1, <3>2, IdsAreFinite
      <3>3. CASE e # op.entry
        <4>1. entries'[e] = entries[e]
          BY <1>1, <3>1, <3>3
        <4>2. e =< issued.entry
          BY <1>2, <3>1, <4>1 DEF BookInv, Numbered
        <4>3. e \in Int /\ issued.entry =< issued'.entry
          BY <1>1, <1>2, <3>1
        <4>. QED BY ONLY <1>2, <1>3, <4>2, <4>3
      <3>. QED BY <3>2, <3>3
    <2>. QED BY <2>1, <2>2 DEF Numbered
  <1>11. Owned'
    <2>1. ASSUME NEW q \in Live(ops'), ops'[q].entry # None
          PROVE  /\ entries'[ops'[q].entry] # None
                 /\ \A x \in Live(ops') : ops'[x].entry = ops'[q].entry => x = q
                 /\ \A r \in Live(redemptions') : redemptions'[r].entry # ops'[q].entry
      <3>1. CASE q = o
        <4>1. ops'[q] = op /\ op.entry # None
          BY <1>1, <2>1, <3>1
        <4>2. entries'[op.entry] # None
          BY <1>1, <1>6, <4>1
        <4>3. \A x \in Live(ops') : ops'[x].entry = op.entry => x = o
          BY <1>4, <1>9, <4>1
        <4>. QED BY <1>1, <1>9, <3>1, <4>1, <4>2, <4>3
      <3>2. CASE q # o
        <4>1. q \in Live(ops) /\ ops'[q] = ops[q] /\ ops[q].entry # None
          BY <1>4, <2>1, <3>2
        <4>2. /\ entries[ops[q].entry] # None /\ ops[q].entry \in EntryIds
              /\ \A x \in Live(ops) : ops[x].entry = ops[q].entry => x = q
              /\ \A r \in Live(redemptions) : redemptions[r].entry # ops[q].entry
          BY <1>2, <4>1 DEF BookInv, Owned, Operation
        <4>3. ops[q].entry # LinkOf(seen) /\ (op.entry # None => ops[q].entry # op.entry)
          BY <1>7, <1>9, <3>2, <4>1
        <4>4. entries'[ops[q].entry] = entries[ops[q].entry]
          BY <1>1, <4>2, <4>3
        <4>5. \A x \in Live(ops') : ops'[x].entry = ops[q].entry => x = q
          BY <1>1, <1>4, <1>9, <4>1, <4>2, <4>3
        <4>. QED BY <1>1, <4>1, <4>2, <4>4, <4>5
      <3>. QED BY <3>1, <3>2
    <2>2. \A r, x \in Live(redemptions') : redemptions'[x].entry = redemptions'[r].entry => x = r
      BY <1>1 DEF BookInv, Owned
    <2>. QED BY <2>1, <2>2 DEF Owned
  <1>12. Says'
    <2>1. \A q \in Live(ops') : ops'[q].movement <=> WantsMovement(ops'[q])
      BY <1>1, <1>4, <1>5 DEF BookInv, Says
    <2>2. ASSUME NEW e \in Live(entries')
          PROVE  entries'[e].funding <=> entries'[e].purchase
      <3>1. e \in EntryIds /\ entries'[e] # None
        BY <1>3
      <3>2. CASE e = op.entry
        BY <1>1, <1>6, <3>1, <3>2, IdsAreFinite
      <3>3. CASE e # op.entry
        <4>1. entries'[e] = entries[e]
          BY <1>1, <3>1, <3>3
        <4>. QED BY <1>2, <3>1, <4>1 DEF BookInv, Says
      <3>. QED BY <3>2, <3>3
    <2>3. \A q \in Live(ops') : ops'[q].movement <=> WantsMovement(ops'[q])
      BY <2>1
    <2>. QED BY <2>2, <2>3 DEF Says, WantsMovement
  <1>13. BankSideIsBacked'
    <2>0. /\ \A k \in Keys : k # <<"operation", o>> => movements'[k] = movements[k]
          /\ WantsMovement(op) =>
               movements'[<<"operation", o>>] = [debit |-> op.kind = "DEPOSIT", amount |-> op.cash]
      BY SavesMovements
    <2>1. ASSUME NEW q \in Live(ops'), WantsMovement(ops'[q])
          PROVE  movements'[<<"operation", q>>]
                   = [debit |-> ops'[q].kind = "DEPOSIT", amount |-> ops'[q].cash]
      <3>1. CASE q = o
        BY <1>1, <2>0, <2>1, <3>1
      <3>2. CASE q # o
        <4>1. q \in Live(ops) /\ ops'[q] = ops[q] /\ q \in OpIds
          BY <1>2, <1>4, <3>2
        <4>2. movements'[<<"operation", q>>] = movements[<<"operation", q>>]
          BY <2>0, <3>2, <4>1 DEF Keys
        <4>3. movements[<<"operation", q>>]
                = [debit |-> ops[q].kind = "DEPOSIT", amount |-> ops[q].cash]
          BY <2>1, <4>1 DEF BookInv, BankSideIsBacked
        <4>. QED BY <4>1, <4>2, <4>3
      <3>. QED BY <3>1, <3>2
    <2>2. ASSUME NEW e \in Live(entries'), entries'[e].purchase
          PROVE  movements'[<<"purchase", e>>] = [debit |-> TRUE, amount |-> entries'[e].cash]
      <3>1. e \in EntryIds /\ entries'[e] # None
        BY <1>3
      <3>2. e # op.entry
        BY <1>1, <1>6, <2>2, <3>1, IdsAreFinite
      <3>3. entries'[e] = entries[e]
        BY <1>1, <3>1, <3>2
      <3>4. movements'[<<"purchase", e>>] = movements[<<"purchase", e>>]
        BY <2>0, <3>1 DEF Keys
      <3>5. e \in Live(entries)
        BY <1>2, <3>1, <3>3
      <3>. QED BY <2>2, <3>3, <3>4, <3>5 DEF BookInv, BankSideIsBacked
    <2>3. ASSUME NEW r \in Live(redemptions')
          PROVE  LET red == redemptions'[r]
                 IN  /\ entries'[red.entry] = Debit(red.program, red.points)
                     /\ movements'[<<"reward", r>>] = [debit |-> FALSE, amount |-> red.target]
                     /\ red.by = "account" =>
                           movements'[<<"iof", r>>] = [debit |-> TRUE, amount |-> red.iof]
      <3>1. r \in Live(redemptions) /\ r \in RedemptionIds /\ redemptions'[r] = redemptions[r]
        BY <1>1, <1>2
      <3>2. redemptions[r].entry \in EntryIds
        BY <1>8, <3>1
      <3>3. entries'[redemptions[r].entry] = entries[redemptions[r].entry]
        <4>1. redemptions[r].entry # LinkOf(seen)
          BY <1>7, <3>1, <3>2, IdsAreFinite
        <4>2. redemptions[r].entry # op.entry
          BY <1>9, <3>1, <3>2, IdsAreFinite
        <4>. QED BY <1>1, <3>2, <4>1, <4>2
      <3>4. /\ movements'[<<"reward", r>>] = movements[<<"reward", r>>]
            /\ movements'[<<"iof", r>>] = movements[<<"iof", r>>]
        BY <2>0, <3>1 DEF Keys
      <3>. QED BY <3>1, <3>3, <3>4 DEF BookInv, BankSideIsBacked
    <2>. QED BY <2>1, <2>2, <2>3 DEF BankSideIsBacked, WantsMovement
  <1>. QED BY <1>1, <1>10, <1>11, <1>12, <1>13 DEF BookInv
-----------------------------------------------------------------------------
(* Holdings: the other operations keep the books.                          *)

\* The entries operations and conversions own are given numbers.
LEMMA OwnedAreGiven ==
  ASSUME BookInv
  PROVE  /\ \A e \in EntryIds : entries[e] # None => e =< issued.entry
         /\ \A o \in Live(ops) : ops[o].entry # None =>
               ops[o].entry \in EntryIds /\ entries[ops[o].entry] # None
                 /\ ops[o].entry =< issued.entry
         /\ \A r \in Live(redemptions) :
               /\ redemptions[r].entry \in EntryIds /\ redemptions[r].entry =< issued.entry
               /\ entries[redemptions[r].entry] # None /\ ~entries[redemptions[r].entry].purchase
               /\ ~entries[redemptions[r].entry].credit
               /\ entries[redemptions[r].entry].program = redemptions[r].program
               /\ entries[redemptions[r].entry].amount = redemptions[r].points
  <1>1. /\ Live(entries) = {e \in EntryIds : entries[e] # None}
        /\ \A q \in Live(ops) : q \in OpIds /\ ops[q] \in Operation
        /\ \A r \in Live(redemptions) : r \in RedemptionIds /\ redemptions[r] \in Redemption
    BY Tables DEF BookInv
  <1>2. \A e \in EntryIds : entries[e] # None => e =< issued.entry
    BY <1>1 DEF BookInv, Numbered
  <1>3. \A q \in Live(ops) : ops[q].entry # None =>
           ops[q].entry \in EntryIds /\ entries[ops[q].entry] # None
    BY <1>1 DEF BookInv, Owned, Operation
  <1>4. ASSUME NEW r \in Live(redemptions)
        PROVE  /\ redemptions[r].entry \in EntryIds
               /\ entries[redemptions[r].entry] # None /\ ~entries[redemptions[r].entry].purchase
               /\ ~entries[redemptions[r].entry].credit
               /\ entries[redemptions[r].entry].program = redemptions[r].program
               /\ entries[redemptions[r].entry].amount = redemptions[r].points
    <2>1. redemptions[r] \in Redemption
      BY <1>1
    <2>2. /\ redemptions[r].entry \in EntryIds /\ redemptions[r].program \in Programs
          /\ redemptions[r].points \in PosNat
      BY <2>1 DEF Redemption
    <2>3. entries[redemptions[r].entry] = Debit(redemptions[r].program, redemptions[r].points)
      BY DEF BookInv, BankSideIsBacked
    <2>. QED BY <2>2, <2>3, DebitsAreEntries
  <1>. QED BY <1>2, <1>3, <1>4

\* The books are kept by a step that saves or deletes an entry no conversion
\* owns, and touches no other row but the operation it was of.
LEMMA EntryStepKeeps ==
  ASSUME BookInv, HoldingsTypeOK', NEW e \in EntryIds,
         \A r \in Live(redemptions) : redemptions[r].entry # e,
         redemptions' = redemptions, issued'.op = issued.op, issued.entry =< issued'.entry,
         \A d \in EntryIds : d # e => entries'[d] = entries[d],
         entries'[e] # None =>
            /\ e =< issued'.entry
            /\ entries'[e].funding <=> entries'[e].purchase
            /\ entries'[e].purchase =>
                  movements'[<<"purchase", e>>] = [debit |-> TRUE, amount |-> entries'[e].cash],
         \A k \in Keys : k # <<"purchase", e>> => movements'[k] = movements[k],
         \A o \in OpIds : /\ ops'[o] = None <=> ops[o] = None
                          /\ ops[o] # None =>
                                /\ ops'[o].kind = ops[o].kind /\ ops'[o].program = ops[o].program
                                /\ ops'[o].cash = ops[o].cash /\ ops'[o].movement = ops[o].movement
                                /\ ops'[o].entry \in {ops[o].entry, None}
                                /\ ops'[o].entry = e => entries'[e] # None
  PROVE  BookInv'
  <1>1. /\ Live(ops) = {q \in OpIds : ops[q] # None}
        /\ Live(entries) = {d \in EntryIds : entries[d] # None}
        /\ Live(redemptions) = {r \in RedemptionIds : redemptions[r] # None}
        /\ issued.op \in Nat /\ issued.entry \in Nat
        /\ OpIds \subseteq Nat /\ EntryIds \subseteq Nat
    BY Tables DEF BookInv
  <1>2. /\ Live(ops') = {q \in OpIds : ops'[q] # None}
        /\ Live(entries') = {d \in EntryIds : entries'[d] # None}
        /\ issued'.op \in Nat /\ issued'.entry \in Nat
    BY TablesAfter
  <1>3. Live(ops') = Live(ops)
    <2>1. \A q \in OpIds : ops'[q] = None <=> ops[q] = None
      OBVIOUS
    <2>. QED BY ONLY <1>1, <1>2, <2>1
  <1>4. /\ \A d \in EntryIds : entries[d] # None => d =< issued.entry
        /\ \A o \in Live(ops) : ops[o].entry # None =>
               ops[o].entry \in EntryIds /\ entries[ops[o].entry] # None
                 /\ ops[o].entry =< issued.entry
        /\ \A r \in Live(redemptions) : redemptions[r].entry \in EntryIds
    BY OwnedAreGiven
  <1>5. Numbered'
    <2>1. \A o \in Live(ops') : o =< issued'.op
      BY <1>3 DEF BookInv, Numbered
    <2>2. \A d \in Live(entries') : d =< issued'.entry
      <3>. SUFFICES ASSUME NEW d \in EntryIds, entries'[d] # None PROVE d =< issued'.entry
        BY <1>2
      <3>1. CASE d = e
        BY <3>1
      <3>2. CASE d # e
        <4>1. d =< issued.entry
          BY <1>4, <3>2
        <4>. QED BY <1>1, <1>2, <4>1
      <3>. QED BY <3>1, <3>2
    <2>. QED BY <2>1, <2>2 DEF Numbered
  <1>6. Owned'
    <2>1. ASSUME NEW o \in Live(ops'), ops'[o].entry # None
          PROVE  /\ entries'[ops'[o].entry] # None
                 /\ \A q \in Live(ops') : ops'[q].entry = ops'[o].entry => q = o
                 /\ \A r \in Live(redemptions') : redemptions'[r].entry # ops'[o].entry
      <3>1. o \in Live(ops) /\ o \in OpIds /\ ops'[o].entry = ops[o].entry
        BY <1>1, <1>3, <2>1
      <3>2. /\ ops[o].entry \in EntryIds /\ entries[ops[o].entry] # None
            /\ \A q \in Live(ops) : ops[q].entry = ops[o].entry => q = o
            /\ \A r \in Live(redemptions) : redemptions[r].entry # ops[o].entry
        BY <1>4, <2>1, <3>1 DEF BookInv, Owned
      <3>3. \A q \in Live(ops') : ops'[q].entry = ops[o].entry => q = o
        BY <1>1, <1>3, <2>1, <3>1, <3>2
      <3>4. entries'[ops[o].entry] # None
        <4>1. CASE ops[o].entry = e
          BY <1>1, <3>1, <4>1
        <4>2. CASE ops[o].entry # e
          BY <3>2, <4>2
        <4>. QED BY <4>1, <4>2
      <3>. QED BY <3>1, <3>2, <3>3, <3>4
    <2>2. \A r, q \in Live(redemptions') : redemptions'[q].entry = redemptions'[r].entry => q = r
      BY DEF BookInv, Owned
    <2>. QED BY <2>1, <2>2 DEF Owned
  <1>7. \A o \in Live(ops) : WantsMovement(ops'[o]) <=> WantsMovement(ops[o])
    BY <1>1 DEF WantsMovement
  <1>8. Says'
    <2>1. \A o \in Live(ops') : ops'[o].movement <=> WantsMovement(ops'[o])
      <3>1. \A o \in Live(ops) : ops'[o].movement = ops[o].movement
        BY <1>1
      <3>2. \A o \in Live(ops) : ops[o].movement <=> WantsMovement(ops[o])
        BY DEF BookInv, Says
      <3>. QED BY ONLY <1>3, <1>7, <3>1, <3>2
    <2>2. ASSUME NEW d \in Live(entries')
          PROVE  entries'[d].funding <=> entries'[d].purchase
      <3>1. d \in EntryIds /\ entries'[d] # None
        BY <1>2
      <3>2. CASE d = e
        BY <3>1, <3>2
      <3>3. CASE d # e
        <4>1. entries'[d] = entries[d] /\ d \in Live(entries)
          BY <1>1, <3>1, <3>3
        <4>. QED BY <4>1 DEF BookInv, Says
      <3>. QED BY <3>2, <3>3
    <2>. QED BY <2>1, <2>2 DEF Says, WantsMovement
  <1>9. BankSideIsBacked'
    <2>1. ASSUME NEW o \in Live(ops'), WantsMovement(ops'[o])
          PROVE  movements'[<<"operation", o>>]
                   = [debit |-> ops'[o].kind = "DEPOSIT", amount |-> ops'[o].cash]
      <3>1. o \in Live(ops) /\ o \in OpIds /\ WantsMovement(ops[o])
        BY <1>1, <1>3, <1>7, <2>1
      <3>2. movements'[<<"operation", o>>] = movements[<<"operation", o>>]
        BY <3>1 DEF Keys
      <3>3. movements[<<"operation", o>>]
              = [debit |-> ops[o].kind = "DEPOSIT", amount |-> ops[o].cash]
        BY <3>1 DEF BookInv, BankSideIsBacked
      <3>. QED BY <1>1, <3>1, <3>2, <3>3
    <2>2. ASSUME NEW d \in Live(entries'), entries'[d].purchase
          PROVE  movements'[<<"purchase", d>>] = [debit |-> TRUE, amount |-> entries'[d].cash]
      <3>1. d \in EntryIds /\ entries'[d] # None
        BY <1>2
      <3>2. CASE d = e
        BY <2>2, <3>1, <3>2
      <3>3. CASE d # e
        <4>1. entries'[d] = entries[d] /\ d \in Live(entries)
          BY <1>1, <3>1, <3>3
        <4>2. movements'[<<"purchase", d>>] = movements[<<"purchase", d>>]
          BY <3>1, <3>3 DEF Keys
        <4>. QED BY <2>2, <4>1, <4>2 DEF BookInv, BankSideIsBacked
      <3>. QED BY <3>2, <3>3
    <2>3. ASSUME NEW r \in Live(redemptions')
          PROVE  LET red == redemptions'[r]
                 IN  /\ entries'[red.entry] = Debit(red.program, red.points)
                     /\ movements'[<<"reward", r>>] = [debit |-> FALSE, amount |-> red.target]
                     /\ red.by = "account" =>
                           movements'[<<"iof", r>>] = [debit |-> TRUE, amount |-> red.iof]
      <3>1. r \in Live(redemptions) /\ r \in RedemptionIds /\ redemptions'[r] = redemptions[r]
        BY <1>1
      <3>2. entries'[redemptions[r].entry] = entries[redemptions[r].entry]
        BY <1>4, <3>1
      <3>3. /\ movements'[<<"reward", r>>] = movements[<<"reward", r>>]
            /\ movements'[<<"iof", r>>] = movements[<<"iof", r>>]
        BY <3>1 DEF Keys
      <3>. QED BY <3>1, <3>2, <3>3 DEF BookInv, BankSideIsBacked
    <2>. QED BY <2>1, <2>2, <2>3 DEF BankSideIsBacked, WantsMovement
  <1>. QED BY <1>5, <1>6, <1>8, <1>9 DEF BookInv

LEMMA EntryIsEntry ==
  \A form \in EntryForms :
     LET entry == Entry(form, form.cash > 0)
     IN  /\ entry \in PointsEntry /\ (entry.funding <=> entry.purchase)
         /\ (entry.purchase <=> form.cash > 0) /\ entry.cash = form.cash
         /\ (form.cash > 0 => form.cash \in PosNat)
  <1>. SUFFICES ASSUME NEW form \in EntryForms, NEW entry, entry = Entry(form, form.cash > 0)
                PROVE  /\ entry \in PointsEntry /\ (entry.funding <=> entry.purchase)
                       /\ (entry.purchase <=> form.cash > 0) /\ entry.cash = form.cash
                       /\ (form.cash > 0 => form.cash \in PosNat)
    BY Zenon
  <1>1. form \in [program : Programs, amount : PosNat, credit : BOOLEAN, cash : Nat]
    BY FormsAreValid
  <1>2. PICK bought \in BOOLEAN : bought <=> form.cash > 0
    OBVIOUS
  <1>3. entry = [program |-> form.program, amount |-> form.amount, credit |-> form.credit,
                 purchase |-> bought, cash |-> form.cash, funding |-> bought]
    BY <1>2 DEF Entry
  <1>. QED BY <1>1, <1>2, <1>3 DEF PointsEntry, PosNat

LEMMA SaveEntryKeeps ==
  ASSUME BookInv, NEW e \in EntryIds, NEW form \in EntryForms, NEW linked,
         SaveEntry(e, form, linked),
         \A r \in Live(redemptions) : redemptions[r].entry # e,
         issued' \in [op : OpIds \union {0}, entry : EntryIds \union {0}],
         issued'.op = issued.op, issued.entry =< issued'.entry, e =< issued'.entry
  PROVE  BookInv' /\ entries'[e] # None
  <1>1. PICK entry : entry = Entry(form, form.cash > 0)
    OBVIOUS
  <1>2. /\ entry \in PointsEntry /\ (entry.funding <=> entry.purchase)
        /\ (entry.purchase <=> form.cash > 0) /\ entry.cash = form.cash
        /\ form.cash > 0 => form.cash \in PosNat
    BY <1>1, EntryIsEntry
  <1>3. /\ entries \in [EntryIds -> PointsEntry \union {None}]
        /\ movements \in [Keys -> Movement \union {None}]
        /\ ops \in [OpIds -> Operation \union {None}]
    BY DEF BookInv, HoldingsTypeOK
  <1>4. PICK m : m = Funded(e, form, linked)
    OBVIOUS
  <1>5. /\ entries' = [entries EXCEPT ![e] = entry]
        /\ movements' = [movements EXCEPT ![<<"purchase", e>>] = m]
        /\ UNCHANGED <<ops, opening, redemptions, rates, base>>
    BY <1>1, <1>4 DEF SaveEntry, market
  <1>6. <<"purchase", e>> \in Keys
    BY DEF Keys
  <1>7. m \in Movement \union {None} /\ (form.cash > 0 => m = [debit |-> TRUE, amount |-> form.cash])
    <2>1. \/ m = [debit |-> TRUE, amount |-> form.cash] /\ form.cash > 0
          \/ m = None \/ m = movements[<<"purchase", e>>]
      BY <1>4 DEF Funded
    <2>2. form.cash > 0 => [debit |-> TRUE, amount |-> form.cash] \in Movement
      BY <1>2, PaymentsAreMovements
    <2>3. movements[<<"purchase", e>>] \in Movement \union {None}
      BY <1>3, <1>6
    <2>4. form.cash > 0 => m = [debit |-> TRUE, amount |-> form.cash]
      <3>1. form \in [program : Programs, amount : PosNat, credit : BOOLEAN, cash : Nat]
        BY FormsAreValid
      <3>2. form.cash \in Nat
        BY <3>1
      <3>. QED BY <1>4, <3>2 DEF Funded
    <2>. QED BY <2>1, <2>2, <2>3, <2>4
  <1>8. /\ entries' \in [EntryIds -> PointsEntry \union {None}]
        /\ movements' \in [Keys -> Movement \union {None}]
    BY <1>2, <1>3, <1>5, <1>6, <1>7
  <1>9. HoldingsTypeOK'
    BY <1>5, <1>8 DEF BookInv, HoldingsTypeOK
  <1>10. /\ entries'[e] = entry /\ entry # None
         /\ \A d \in EntryIds : d # e => entries'[d] = entries[d]
         /\ movements'[<<"purchase", e>>] = m
         /\ \A k \in Keys : k # <<"purchase", e>> => movements'[k] = movements[k]
    BY <1>2, <1>3, <1>5, <1>6, RowsAreSomething
  <1>11. entries'[e] # None =>
            /\ e =< issued'.entry
            /\ entries'[e].funding <=> entries'[e].purchase
            /\ entries'[e].purchase =>
                  movements'[<<"purchase", e>>] = [debit |-> TRUE, amount |-> entries'[e].cash]
    BY <1>2, <1>7, <1>10
  <1>12. \A o \in OpIds : /\ ops'[o] = None <=> ops[o] = None
                          /\ ops[o] # None =>
                                /\ ops'[o].kind = ops[o].kind /\ ops'[o].program = ops[o].program
                                /\ ops'[o].cash = ops[o].cash /\ ops'[o].movement = ops[o].movement
                                /\ ops'[o].entry \in {ops[o].entry, None}
                                /\ ops'[o].entry = e => entries'[e] # None
    BY <1>5, <1>10
  <1>13. redemptions' = redemptions
    BY <1>5
  <1>. QED BY ONLY BookInv, e \in EntryIds, <1>9, <1>10, <1>11, <1>12, <1>13,
              \A r \in Live(redemptions) : redemptions[r].entry # e,
              issued'.op = issued.op, issued.entry =< issued'.entry,
              EntryStepKeeps

LEMMA DeleteEntryKeeps ==
  ASSUME BookInv, NEW e \in EntryIds, NEW seen, DeleteEntry(e, seen),
         \A r \in Live(redemptions) : redemptions[r].entry # e
  PROVE  /\ BookInv' /\ entries'[e] = None
         /\ \A o \in OpIds : /\ ops'[o] = None <=> ops[o] = None
                             /\ ops[o] # None =>
                                   ops'[o] = IF ops[o].entry = e THEN [ops[o] EXCEPT !.entry = None]
                                             ELSE ops[o]
  <1>1. /\ entries' = [entries EXCEPT ![e] = None]
        /\ ops' = [o \in OpIds |-> IF ops[o] # None /\ ops[o].entry = e
                                   THEN [ops[o] EXCEPT !.entry = None] ELSE ops[o]]
        /\ movements' = IF seen.funding THEN [movements EXCEPT ![<<"purchase", e>>] = None]
                        ELSE movements
        /\ UNCHANGED <<opening, redemptions, rates, base, issued>>
    BY DEF DeleteEntry, market
  <1>2. /\ entries \in [EntryIds -> PointsEntry \union {None}]
        /\ movements \in [Keys -> Movement \union {None}]
        /\ ops \in [OpIds -> Operation \union {None}]
        /\ \A o \in Live(ops) : ops[o].fx.captured <=> ops[o].fx.rate # None
        /\ issued \in [op : OpIds \union {0}, entry : EntryIds \union {0}]
    BY DEF BookInv, HoldingsTypeOK
  <1>3. ASSUME NEW o \in OpIds, ops[o] # None
        PROVE  /\ ops'[o] \in Operation
               /\ ops'[o].kind = ops[o].kind /\ ops'[o].program = ops[o].program
               /\ ops'[o].cash = ops[o].cash /\ ops'[o].movement = ops[o].movement
               /\ ops'[o].entry \in {ops[o].entry, None} /\ ops'[o].entry # e
               /\ ops'[o].fx = ops[o].fx
               /\ ops'[o] = IF ops[o].entry = e THEN [ops[o] EXCEPT !.entry = None] ELSE ops[o]
    <2>1. PICK old \in Operation : old = ops[o]
      BY <1>2, <1>3
    <2>2. ops'[o] = IF old.entry = e THEN [old EXCEPT !.entry = None] ELSE old
      BY <1>1, <1>3, <2>1
    <2>3. CASE old.entry = e
      <3>1. ops'[o] = [old EXCEPT !.entry = None]
        BY <2>2, <2>3
      <3>2. None # e
        BY IdsAreFinite
      <3>. QED BY ONLY <2>1, <2>2, <2>3, <3>1, <3>2 DEF Operation
    <2>4. CASE old.entry # e
      BY ONLY <2>1, <2>2, <2>4
    <2>. QED BY <2>3, <2>4
  <1>4. \A o \in OpIds : ops'[o] = None <=> ops[o] = None
    <2>. SUFFICES ASSUME NEW o \in OpIds PROVE ops'[o] = None <=> ops[o] = None
      OBVIOUS
    <2>1. ops[o] = None => ops'[o] = None
      BY <1>1
    <2>2. ops[o] # None => ops'[o] # None
      BY <1>3, RowsAreSomething
    <2>. QED BY <2>1, <2>2
  <1>5. /\ entries' \in [EntryIds -> PointsEntry \union {None}]
        /\ entries'[e] = None /\ \A d \in EntryIds : d # e => entries'[d] = entries[d]
    BY <1>1, <1>2
  <1>6. /\ movements' \in [Keys -> Movement \union {None}]
        /\ \A k \in Keys : k # <<"purchase", e>> => movements'[k] = movements[k]
    BY <1>1, <1>2
  <1>7. ops' \in [OpIds -> Operation \union {None}]
    <2>1. \A o \in OpIds : ops'[o] \in Operation \union {None}
      BY <1>3, <1>4
    <2>. QED BY <1>1, <2>1
  <1>8. \A o \in Live(ops') : ops'[o].fx.captured <=> ops'[o].fx.rate # None
    <2>. SUFFICES ASSUME NEW o \in Live(ops')
                  PROVE  ops'[o].fx.captured <=> ops'[o].fx.rate # None
      OBVIOUS
    <2>1. o \in OpIds /\ ops'[o] # None
      BY <1>1 DEF Live
    <2>2. ops[o] # None /\ ops'[o].fx = ops[o].fx
      BY <1>3, <1>4, <2>1
    <2>3. o \in Live(ops)
      BY <2>1, <2>2, Tables DEF BookInv
    <2>. QED BY <1>2, <2>2, <2>3
  <1>9. HoldingsTypeOK'
    BY <1>1, <1>5, <1>6, <1>7, <1>8 DEF BookInv, HoldingsTypeOK
  <1>10. \A o \in OpIds : /\ ops'[o] = None <=> ops[o] = None
                          /\ ops[o] # None =>
                                /\ ops'[o].kind = ops[o].kind /\ ops'[o].program = ops[o].program
                                /\ ops'[o].cash = ops[o].cash /\ ops'[o].movement = ops[o].movement
                                /\ ops'[o].entry \in {ops[o].entry, None}
                                /\ ops'[o].entry = e => entries'[e] # None
    BY <1>3, <1>4
  <1>11. redemptions' = redemptions /\ issued'.op = issued.op /\ issued.entry =< issued'.entry
    <2>1. issued.entry \in Nat
      BY Tables DEF BookInv
    <2>. QED BY <1>1, <2>1
  <1>12. BookInv'
    BY ONLY BookInv, e \in EntryIds, <1>5, <1>6, <1>9, <1>10, <1>11,
            \A r \in Live(redemptions) : redemptions[r].entry # e, EntryStepKeeps
  <1>. QED BY <1>3, <1>4, <1>5, <1>12

LEMMA DeleteOperationKeeps ==
  ASSUME BookInv, NEW id, NEW seen, seen # None, Knows(id, seen), DeleteOperation(id, seen)
  PROVE  /\ BookInv' /\ ops'[id] = None /\ (seen.entry # None => entries'[seen.entry] = None)
         /\ \A o \in OpIds : o # id => ops'[o] = ops[o]
         /\ \A e \in EntryIds : e # seen.entry => entries'[e] = entries[e]
         /\ \A k \in Keys : k # <<"operation", id>> => movements'[k] = movements[k]
         /\ movements'[<<"operation", id>>]
               = IF seen.movement THEN None ELSE movements[<<"operation", id>>]
         /\ redemptions' = redemptions /\ issued' = issued
  <1>1. /\ ops' = [ops EXCEPT ![id] = None]
        /\ movements' = IF seen.movement THEN [movements EXCEPT ![<<"operation", id>>] = None]
                        ELSE movements
        /\ entries' = IF seen.entry # None THEN [entries EXCEPT ![seen.entry] = None] ELSE entries
        /\ UNCHANGED <<opening, redemptions, rates, base, issued>>
    BY DEF DeleteOperation, market
  <1>2. /\ entries \in [EntryIds -> PointsEntry \union {None}]
        /\ movements \in [Keys -> Movement \union {None}]
        /\ ops \in [OpIds -> Operation \union {None}]
        /\ \A o \in Live(ops) : ops[o].fx.captured <=> ops[o].fx.rate # None
    BY DEF BookInv, HoldingsTypeOK
  <1>3. /\ id \in OpIds /\ seen \in Operation
        /\ seen.entry # None => ops[id] # None /\ ops[id].entry = seen.entry
    BY DEF Knows
  <1>4. seen.entry \in EntryIds \union {None} /\ <<"operation", id>> \in Keys
    BY <1>3 DEF Operation, Keys
  <1>5. /\ ops' \in [OpIds -> Operation \union {None}]
        /\ ops'[id] = None /\ \A o \in OpIds : o # id => ops'[o] = ops[o]
    BY <1>1, <1>2, <1>3
  <1>6. /\ entries' \in [EntryIds -> PointsEntry \union {None}]
        /\ seen.entry # None => entries'[seen.entry] = None
        /\ \A e \in EntryIds : e # seen.entry => entries'[e] = entries[e]
    BY <1>1, <1>2, <1>4
  <1>7. /\ movements' \in [Keys -> Movement \union {None}]
        /\ \A k \in Keys : k # <<"operation", id>> => movements'[k] = movements[k]
        /\ movements'[<<"operation", id>>]
               = IF seen.movement THEN None ELSE movements[<<"operation", id>>]
    BY <1>1, <1>2, <1>4
  <1>8. /\ Live(ops) = {q \in OpIds : ops[q] # None}
        /\ Live(entries) = {d \in EntryIds : entries[d] # None}
        /\ Live(redemptions) = {r \in RedemptionIds : redemptions[r] # None}
    BY Tables DEF BookInv
  <1>9. DOMAIN ops' = OpIds /\ DOMAIN entries' = EntryIds
    BY ONLY <1>5, <1>6, Zenon
  <1>10. /\ Live(ops') = {q \in OpIds : ops'[q] # None}
         /\ Live(entries') = {d \in EntryIds : entries'[d] # None}
    BY ONLY <1>9 DEF Live
  <1>11. /\ \A o \in Live(ops') : o # id /\ o \in OpIds /\ o \in Live(ops) /\ ops'[o] = ops[o]
         /\ \A e \in Live(entries') : e # seen.entry /\ e \in EntryIds /\ e \in Live(entries)
                                        /\ entries'[e] = entries[e]
    BY ONLY <1>5, <1>6, <1>8, <1>10, IdsAreFinite
  <1>12. HoldingsTypeOK'
    <2>1. \A o \in Live(ops') : ops'[o].fx.captured <=> ops'[o].fx.rate # None
      BY <1>2, <1>11
    <2>. QED BY <1>1, <1>5, <1>6, <1>7, <2>1 DEF BookInv, HoldingsTypeOK
  <1>13. Numbered'
    BY <1>1, <1>11 DEF BookInv, Numbered
  <1>14. seen.entry # None =>
            /\ \A q \in Live(ops) : ops[q].entry = seen.entry => q = id
            /\ \A r \in Live(redemptions) : redemptions[r].entry # seen.entry
    BY <1>3, <1>8 DEF BookInv, Owned
  <1>15. /\ \A o \in Live(ops) : ops[o].entry # None => ops[o].entry \in EntryIds
         /\ \A r \in Live(redemptions) : redemptions[r].entry \in EntryIds
    BY OwnedAreGiven
  <1>16. Owned'
    <2>1. ASSUME NEW o \in Live(ops'), ops'[o].entry # None
          PROVE  /\ entries'[ops'[o].entry] # None
                 /\ \A q \in Live(ops') : ops'[q].entry = ops'[o].entry => q = o
                 /\ \A r \in Live(redemptions') : redemptions'[r].entry # ops'[o].entry
      <3>1. o # id /\ o \in Live(ops) /\ ops'[o] = ops[o]
        BY <1>11
      <3>2. /\ entries[ops[o].entry] # None
            /\ \A q \in Live(ops) : ops[q].entry = ops[o].entry => q = o
            /\ \A r \in Live(redemptions) : redemptions[r].entry # ops[o].entry
        BY <2>1, <3>1 DEF BookInv, Owned
      <3>3. entries'[ops[o].entry] = entries[ops[o].entry]
        BY <1>6, <1>14, <1>15, <2>1, <3>1
      <3>. QED BY <1>1, <1>11, <3>1, <3>2, <3>3
    <2>2. \A r, q \in Live(redemptions') : redemptions'[q].entry = redemptions'[r].entry => q = r
      BY <1>1 DEF BookInv, Owned
    <2>. QED BY <2>1, <2>2 DEF Owned
  <1>17. Says'
    BY <1>11 DEF BookInv, Says, WantsMovement
  <1>18. BankSideIsBacked'
    <2>1. ASSUME NEW o \in Live(ops'), WantsMovement(ops'[o])
          PROVE  movements'[<<"operation", o>>]
                   = [debit |-> ops'[o].kind = "DEPOSIT", amount |-> ops'[o].cash]
      <3>1. o # id /\ o \in OpIds /\ o \in Live(ops) /\ ops'[o] = ops[o]
        BY <1>11
      <3>2. movements'[<<"operation", o>>] = movements[<<"operation", o>>]
        BY <1>7, <3>1 DEF Keys
      <3>3. movements[<<"operation", o>>]
              = [debit |-> ops[o].kind = "DEPOSIT", amount |-> ops[o].cash]
        BY <2>1, <3>1 DEF BookInv, BankSideIsBacked
      <3>. QED BY <3>1, <3>2, <3>3
    <2>2. ASSUME NEW e \in Live(entries'), entries'[e].purchase
          PROVE  movements'[<<"purchase", e>>] = [debit |-> TRUE, amount |-> entries'[e].cash]
      <3>1. e \in EntryIds /\ e \in Live(entries) /\ entries'[e] = entries[e]
        BY <1>11
      <3>2. movements'[<<"purchase", e>>] = movements[<<"purchase", e>>]
        BY <1>7, <3>1 DEF Keys
      <3>. QED BY <2>2, <3>1, <3>2 DEF BookInv, BankSideIsBacked
    <2>3. ASSUME NEW r \in Live(redemptions')
          PROVE  LET red == redemptions'[r]
                 IN  /\ entries'[red.entry] = Debit(red.program, red.points)
                     /\ movements'[<<"reward", r>>] = [debit |-> FALSE, amount |-> red.target]
                     /\ red.by = "account" =>
                           movements'[<<"iof", r>>] = [debit |-> TRUE, amount |-> red.iof]
      <3>1. r \in Live(redemptions) /\ r \in RedemptionIds /\ redemptions'[r] = redemptions[r]
        BY <1>1, <1>8
      <3>2. entries'[redemptions[r].entry] = entries[redemptions[r].entry]
        BY <1>6, <1>14, <1>15, <3>1, IdsAreFinite
      <3>3. /\ movements'[<<"reward", r>>] = movements[<<"reward", r>>]
            /\ movements'[<<"iof", r>>] = movements[<<"iof", r>>]
        BY <1>7, <3>1 DEF Keys
      <3>. QED BY <3>1, <3>2, <3>3 DEF BookInv, BankSideIsBacked
    <2>. QED BY <2>1, <2>2, <2>3 DEF BankSideIsBacked, WantsMovement
  <1>. QED BY <1>1, <1>5, <1>6, <1>7, <1>12, <1>13, <1>16, <1>17, <1>18 DEF BookInv

\* What saving a conversion comes to.
LEMMA SavedRedemption ==
  ASSUME BookInv, NEW r \in RedemptionIds, NEW form \in RedemptionForms, SaveRedemption(r, form)
  PROVE  \E e \in EntryIds, red \in Redemption, m \in Movement \union {None} :
            /\ red.program = form.program /\ red.points = form.points /\ red.target = form.target
            /\ red.iof = form.iof /\ red.by = form.by /\ red.entry = e
            /\ form.program \in Programs /\ form.points \in PosNat /\ form.target \in PosNat
            /\ redemptions[r] # None => e = redemptions[r].entry /\ issued'.entry = issued.entry
            /\ redemptions[r] = None => e = issued.entry + 1 /\ issued'.entry = e
            /\ Balance(entries, form.program) + GivenBack(redemptions[r], form.program) >= form.points
            /\ redemptions' = [redemptions EXCEPT ![r] = red]
            /\ entries' = [entries EXCEPT ![e] = Debit(form.program, form.points)]
            /\ movements' = [movements EXCEPT
                  ![<<"reward", r>>] = [debit |-> FALSE, amount |-> form.target],
                  ![<<"iof", r>>] = m]
            /\ form.by = "account" => m = [debit |-> TRUE, amount |-> form.iof]
            /\ form.by # "account" /\ redemptions[r] # None => m = None
            /\ form.by # "account" /\ redemptions[r] = None => m = movements[<<"iof", r>>]
            /\ issued'.op = issued.op /\ issued' \in [op : OpIds \union {0}, entry : EntryIds \union {0}]
            /\ UNCHANGED <<ops, opening, rates, base>>
  <1>1. PICK old : old = redemptions[r]
    OBVIOUS
  <1>2. PICK e : e = IF old = None THEN issued.entry + 1 ELSE old.entry
    OBVIOUS
  <1>3. PICK byAccount \in BOOLEAN : byAccount <=> form.by = "account"
    OBVIOUS
  <1>4. form \in [program : Programs, points : PosNat, target : PosNat, iof : Nat,
                  by : {"account", "card"}]
    BY FormsAreValid
  <1>5. PICK expense : expense = IF form.iof > 0 THEN [by |-> form.by, amount |-> form.iof]
                                 ELSE None
    OBVIOUS
  <1>6. PICK m : m = CASE byAccount -> [debit |-> TRUE, amount |-> form.iof]
                       [] ~byAccount /\ old # None -> None
                       [] OTHER -> movements[<<"iof", r>>]
    OBVIOUS
  <1>7. PICK red : red = [program |-> form.program, points |-> form.points,
                          target |-> form.target, iof |-> form.iof, by |-> form.by,
                          entry |-> e, expense |-> expense]
    OBVIOUS
  <1>8. /\ movements \in [Keys -> Movement \union {None}]
        /\ <<"reward", r>> \in Keys /\ <<"iof", r>> \in Keys /\ <<"iof", r>> # <<"reward", r>>
        /\ issued \in [op : OpIds \union {0}, entry : EntryIds \union {0}]
    BY DEF BookInv, HoldingsTypeOK, Keys
  <1>9. /\ e \in EntryIds
        /\ Balance(entries, form.program) + GivenBack(old, form.program) >= form.points
        /\ entries' = [entries EXCEPT ![e] = Debit(form.program, form.points)]
        /\ redemptions' = [redemptions EXCEPT ![r] = red]
        /\ issued' = [issued EXCEPT !.entry = IF old = None THEN e ELSE @]
        /\ UNCHANGED <<ops, opening, rates, base>>
    BY ONLY <1>1, <1>2, <1>5, <1>7, SaveRedemption(r, form) DEF SaveRedemption, market
  <1>10. movements' = [movements EXCEPT
                  ![<<"reward", r>>] = [debit |-> FALSE, amount |-> form.target],
                  ![<<"iof", r>>] = m]
    <2>1. movements' = [movements EXCEPT
               ![<<"reward", r>>] = [debit |-> FALSE, amount |-> form.target],
               ![<<"iof", r>>] = CASE form.by = "account" -> [debit |-> TRUE, amount |-> form.iof]
                                   [] form.by # "account" /\ old # None -> None
                                   [] OTHER -> @]
      BY ONLY <1>1, SaveRedemption(r, form) DEF SaveRedemption
    <2>2. PICK moved : moved = [movements EXCEPT
               ![<<"reward", r>>] = [debit |-> FALSE, amount |-> form.target]]
      OBVIOUS
    <2>3. moved[<<"iof", r>>] = movements[<<"iof", r>>]
      BY <1>8, <2>2
    <2>. QED BY ONLY <1>3, <1>6, <1>8, <2>1, <2>2, <2>3
  <1>11. /\ byAccount => m = [debit |-> TRUE, amount |-> form.iof]
         /\ ~byAccount /\ old # None => m = None
         /\ ~byAccount /\ old = None => m = movements[<<"iof", r>>]
    BY ONLY <1>6
  <1>12. form.by = "account" => form.iof \in PosNat
    BY <1>4, FormsAreValid DEF PosNat
  <1>13. m \in Movement \union {None}
    <2>1. movements[<<"iof", r>>] \in Movement \union {None}
      BY <1>8
    <2>2. byAccount => [debit |-> TRUE, amount |-> form.iof] \in Movement
      BY <1>3, <1>12, PaymentsAreMovements
    <2>. QED BY <1>11, <2>1, <2>2
  <1>14. red \in Redemption
    <2>1. expense \in [by : {"account", "card"}, amount : PosNat] \union {None}
      <3>1. form.iof > 0 => form.iof \in PosNat
        BY <1>4 DEF PosNat
      <3>2. form.by \in {"account", "card"}
        BY <1>4
      <3>. QED BY ONLY <1>5, <3>1, <3>2
    <2>. QED BY ONLY <1>4, <1>7, <1>9, <2>1 DEF Redemption
  <1>15. /\ issued' \in [op : OpIds \union {0}, entry : EntryIds \union {0}]
         /\ issued'.op = issued.op
         /\ issued'.entry = IF old = None THEN e ELSE issued.entry
    BY ONLY <1>8, <1>9
  <1>16. /\ red.program = form.program /\ red.points = form.points /\ red.target = form.target
         /\ red.iof = form.iof /\ red.by = form.by /\ red.entry = e
         /\ form.program \in Programs /\ form.points \in PosNat /\ form.target \in PosNat
    BY ONLY <1>4, <1>7
  <1>. QED BY ONLY <1>1, <1>2, <1>3, <1>9, <1>10, <1>11, <1>13, <1>14, <1>15, <1>16

LEMMA SaveRedemptionKeeps ==
  ASSUME BookInv, NEW r \in RedemptionIds, NEW form \in RedemptionForms, SaveRedemption(r, form)
  PROVE  /\ BookInv' /\ ops' = ops /\ issued.entry =< issued'.entry
         /\ \A q \in Live(redemptions') :
               \/ q \in Live(redemptions) /\ redemptions'[q].entry = redemptions[q].entry
               \/ redemptions'[q].entry = issued.entry + 1
         /\ \A e \in EntryIds : entries[e] # None => entries'[e] # None
  <1>1. PICK e \in EntryIds, red \in Redemption, m \in Movement \union {None} :
            /\ red.program = form.program /\ red.points = form.points /\ red.target = form.target
            /\ red.iof = form.iof /\ red.by = form.by /\ red.entry = e
            /\ form.program \in Programs /\ form.points \in PosNat /\ form.target \in PosNat
            /\ redemptions[r] # None => e = redemptions[r].entry /\ issued'.entry = issued.entry
            /\ redemptions[r] = None => e = issued.entry + 1 /\ issued'.entry = e
            /\ Balance(entries, form.program) + GivenBack(redemptions[r], form.program) >= form.points
            /\ redemptions' = [redemptions EXCEPT ![r] = red]
            /\ entries' = [entries EXCEPT ![e] = Debit(form.program, form.points)]
            /\ movements' = [movements EXCEPT
                  ![<<"reward", r>>] = [debit |-> FALSE, amount |-> form.target],
                  ![<<"iof", r>>] = m]
            /\ form.by = "account" => m = [debit |-> TRUE, amount |-> form.iof]
            /\ form.by # "account" /\ redemptions[r] # None => m = None
            /\ form.by # "account" /\ redemptions[r] = None => m = movements[<<"iof", r>>]
            /\ issued'.op = issued.op /\ issued' \in [op : OpIds \union {0}, entry : EntryIds \union {0}]
            /\ UNCHANGED <<ops, opening, rates, base>>
    BY SavedRedemption
  <1>2. /\ entries \in [EntryIds -> PointsEntry \union {None}]
        /\ movements \in [Keys -> Movement \union {None}]
        /\ redemptions \in [RedemptionIds -> Redemption \union {None}]
    BY DEF BookInv, HoldingsTypeOK
  <1>3. <<"reward", r>> \in Keys /\ <<"iof", r>> \in Keys /\ <<"iof", r>> # <<"reward", r>>
    BY DEF Keys
  <1>4. /\ Live(ops) = {q \in OpIds : ops[q] # None}
        /\ Live(entries) = {d \in EntryIds : entries[d] # None}
        /\ Live(redemptions) = {q \in RedemptionIds : redemptions[q] # None}
        /\ issued.op \in Nat /\ issued.entry \in Nat
        /\ OpIds \subseteq Nat /\ EntryIds \subseteq Nat
    BY Tables DEF BookInv
  <1>5. PICK debit : debit = Debit(form.program, form.points)
    OBVIOUS
  <1>6. debit \in PointsEntry /\ debit # None /\ ~debit.purchase /\ ~debit.funding
    BY <1>1, <1>5, DebitsAreEntries
  <1>7. /\ entries' \in [EntryIds -> PointsEntry \union {None}]
        /\ entries'[e] = debit /\ \A d \in EntryIds : d # e => entries'[d] = entries[d]
    BY <1>1, <1>2, <1>5, <1>6
  <1>8. PICK reward : reward = [debit |-> FALSE, amount |-> form.target]
    OBVIOUS
  <1>9. reward \in Movement
    BY <1>1, <1>8, PaymentsAreMovements
  <1>10. /\ movements' \in [Keys -> Movement \union {None}]
         /\ movements'[<<"reward", r>>] = reward /\ movements'[<<"iof", r>>] = m
         /\ \A k \in Keys : k # <<"reward", r>> /\ k # <<"iof", r>> => movements'[k] = movements[k]
    BY <1>1, <1>2, <1>3, <1>8, <1>9
  <1>11. /\ redemptions' \in [RedemptionIds -> Redemption \union {None}]
         /\ redemptions'[r] = red
         /\ \A q \in RedemptionIds : q # r => redemptions'[q] = redemptions[q]
    BY <1>1, <1>2
  <1>12. DOMAIN entries' = EntryIds /\ DOMAIN redemptions' = RedemptionIds
    BY ONLY <1>7, <1>11, Zenon
  <1>13. /\ Live(entries') = {d \in EntryIds : entries'[d] # None}
         /\ Live(redemptions') = {q \in RedemptionIds : redemptions'[q] # None}
    BY ONLY <1>12 DEF Live
  <1>14. HoldingsTypeOK'
    BY <1>1, <1>7, <1>10, <1>11 DEF BookInv, HoldingsTypeOK
  <1>15. /\ \A d \in EntryIds : entries[d] # None => d =< issued.entry
         /\ \A o \in Live(ops) : ops[o].entry # None =>
               ops[o].entry \in EntryIds /\ entries[ops[o].entry] # None
                 /\ ops[o].entry =< issued.entry
         /\ \A q \in Live(redemptions) :
               /\ redemptions[q].entry \in EntryIds /\ redemptions[q].entry =< issued.entry
               /\ entries[redemptions[q].entry] # None /\ ~entries[redemptions[q].entry].purchase
    BY OwnedAreGiven
  \* The entry is new, or was this conversion's own.
  <1>16. /\ \A o \in Live(ops) : ops[o].entry # e
         /\ \A q \in Live(redemptions) : q # r => redemptions[q].entry # e
         /\ e =< issued'.entry /\ issued.entry =< issued'.entry
    <2>1. CASE redemptions[r] = None
      <3>1. e = issued.entry + 1 /\ issued'.entry = e
        BY <1>1, <2>1
      <3>2. ~(e =< issued.entry) /\ issued.entry =< issued'.entry /\ e =< issued'.entry
        BY <1>4, <3>1
      <3>. QED BY <1>15, <3>2, IdsAreFinite
    <2>2. CASE redemptions[r] # None
      <3>1. r \in Live(redemptions) /\ e = redemptions[r].entry /\ issued'.entry = issued.entry
        BY <1>1, <1>4, <2>2
      <3>2. \A q \in Live(redemptions) : redemptions[q].entry = e => q = r
        BY <3>1 DEF BookInv, Owned
      <3>3. \A o \in Live(ops) : ops[o].entry # e
        BY <3>1, IdsAreFinite DEF BookInv, Owned
      <3>4. e =< issued.entry
        BY <1>15, <3>1
      <3>5. issued.entry =< issued'.entry /\ e =< issued'.entry
        BY <1>4, <3>1, <3>4
      <3>. QED BY <3>2, <3>3, <3>5
    <2>. QED BY <2>1, <2>2
  <1>17. \A q \in Live(redemptions') : q # r =>
            q \in RedemptionIds /\ q \in Live(redemptions) /\ redemptions'[q] = redemptions[q]
    BY <1>4, <1>11, <1>13
  <1>18. Numbered'
    <2>1. \A o \in Live(ops') : o =< issued'.op
      BY <1>1 DEF BookInv, Numbered
    <2>2. \A d \in Live(entries') : d =< issued'.entry
      <3>. SUFFICES ASSUME NEW d \in EntryIds, entries'[d] # None PROVE d =< issued'.entry
        BY <1>13
      <3>1. CASE d = e
        BY <1>16, <3>1
      <3>2. CASE d # e
        <4>1. d =< issued.entry
          BY <1>7, <1>15, <3>2
        <4>2. issued'.entry \in Nat
          BY <1>14, TablesAfter
        <4>. QED BY <1>4, <1>16, <4>1, <4>2
      <3>. QED BY <3>1, <3>2
    <2>. QED BY <2>1, <2>2 DEF Numbered
  <1>19. Owned'
    <2>1. ASSUME NEW o \in Live(ops'), ops'[o].entry # None
          PROVE  /\ entries'[ops'[o].entry] # None
                 /\ \A q \in Live(ops') : ops'[q].entry = ops'[o].entry => q = o
                 /\ \A q \in Live(redemptions') : redemptions'[q].entry # ops'[o].entry
      <3>1. o \in Live(ops) /\ ops' = ops
        BY <1>1
      <3>2. /\ ops[o].entry \in EntryIds /\ entries[ops[o].entry] # None
            /\ \A q \in Live(ops) : ops[q].entry = ops[o].entry => q = o
            /\ \A q \in Live(redemptions) : redemptions[q].entry # ops[o].entry
        BY <1>15, <2>1, <3>1 DEF BookInv, Owned
      <3>3. entries'[ops[o].entry] = entries[ops[o].entry]
        BY <1>7, <1>16, <3>1, <3>2
      <3>4. \A q \in Live(redemptions') : redemptions'[q].entry # ops[o].entry
        BY <1>1, <1>11, <1>16, <1>17, <3>1, <3>2
      <3>. QED BY <3>1, <3>2, <3>3, <3>4
    <2>2. ASSUME NEW x \in Live(redemptions'), NEW q \in Live(redemptions'),
                 redemptions'[q].entry = redemptions'[x].entry
          PROVE  q = x
      <3>1. CASE x = r
        BY <1>1, <1>11, <1>16, <1>17, <2>2, <3>1
      <3>2. CASE q = r
        BY <1>1, <1>11, <1>16, <1>17, <2>2, <3>2
      <3>3. CASE x # r /\ q # r
        <4>1. /\ x \in Live(redemptions) /\ q \in Live(redemptions)
              /\ redemptions[q].entry = redemptions[x].entry
          BY <1>17, <2>2, <3>3
        <4>. QED BY <4>1 DEF BookInv, Owned
      <3>. QED BY <3>1, <3>2, <3>3
    <2>. QED BY <2>1, <2>2 DEF Owned
  <1>20. Says'
    <2>1. \A o \in Live(ops') : ops'[o].movement <=> WantsMovement(ops'[o])
      BY <1>1 DEF BookInv, Says
    <2>2. ASSUME NEW d \in Live(entries')
          PROVE  entries'[d].funding <=> entries'[d].purchase
      <3>1. CASE d = e
        BY <1>6, <1>7, <3>1
      <3>2. CASE d # e
        <4>1. entries'[d] = entries[d] /\ d \in Live(entries)
          BY <1>4, <1>7, <1>13, <3>2
        <4>. QED BY <4>1 DEF BookInv, Says
      <3>. QED BY <3>1, <3>2
    <2>. QED BY <2>1, <2>2 DEF Says, WantsMovement
  <1>21. BankSideIsBacked'
    <2>1. ASSUME NEW o \in Live(ops'), WantsMovement(ops'[o])
          PROVE  movements'[<<"operation", o>>]
                   = [debit |-> ops'[o].kind = "DEPOSIT", amount |-> ops'[o].cash]
      <3>1. o \in Live(ops) /\ ops' = ops /\ o \in OpIds
        BY <1>1, <1>4
      <3>2. movements'[<<"operation", o>>] = movements[<<"operation", o>>]
        BY <1>10, <3>1 DEF Keys
      <3>3. movements[<<"operation", o>>]
              = [debit |-> ops[o].kind = "DEPOSIT", amount |-> ops[o].cash]
        BY <2>1, <3>1 DEF BookInv, BankSideIsBacked
      <3>. QED BY <3>1, <3>2, <3>3
    <2>2. ASSUME NEW d \in Live(entries'), entries'[d].purchase
          PROVE  movements'[<<"purchase", d>>] = [debit |-> TRUE, amount |-> entries'[d].cash]
      <3>1. d # e /\ d \in EntryIds
        BY <1>6, <1>7, <1>13, <2>2
      <3>2. d \in Live(entries) /\ entries'[d] = entries[d]
        BY <1>4, <1>7, <1>13, <3>1
      <3>3. movements'[<<"purchase", d>>] = movements[<<"purchase", d>>]
        BY <1>10, <3>1 DEF Keys
      <3>. QED BY <2>2, <3>2, <3>3 DEF BookInv, BankSideIsBacked
    <2>3. ASSUME NEW q \in Live(redemptions')
          PROVE  /\ entries'[redemptions'[q].entry]
                        = Debit(redemptions'[q].program, redemptions'[q].points)
                 /\ movements'[<<"reward", q>>]
                        = [debit |-> FALSE, amount |-> redemptions'[q].target]
                 /\ redemptions'[q].by = "account" =>
                       movements'[<<"iof", q>>] = [debit |-> TRUE, amount |-> redemptions'[q].iof]
      <3>1. CASE q = r
        <4>1. redemptions'[q] = red
          BY <1>11, <3>1
        <4>2. /\ red.program = form.program /\ red.points = form.points
              /\ red.target = form.target /\ red.iof = form.iof /\ red.by = form.by
              /\ red.entry = e
              /\ form.by = "account" => m = [debit |-> TRUE, amount |-> form.iof]
          BY <1>1
        <4>3. entries'[red.entry] = Debit(red.program, red.points)
          BY ONLY <1>5, <1>7, <4>2
        <4>4. movements'[<<"reward", r>>] = [debit |-> FALSE, amount |-> red.target]
          BY ONLY <1>8, <1>10, <4>2
        <4>5. red.by = "account" => movements'[<<"iof", r>>] = [debit |-> TRUE, amount |-> red.iof]
          BY ONLY <1>10, <4>2
        <4>. QED BY ONLY <3>1, <4>1, <4>3, <4>4, <4>5
      <3>2. CASE q # r
        <4>1. q \in RedemptionIds /\ q \in Live(redemptions) /\ redemptions'[q] = redemptions[q]
          BY <1>17, <3>2
        <4>2. entries'[redemptions[q].entry] = entries[redemptions[q].entry]
          BY <1>7, <1>15, <1>16, <3>2, <4>1
        <4>3. /\ movements'[<<"reward", q>>] = movements[<<"reward", q>>]
              /\ movements'[<<"iof", q>>] = movements[<<"iof", q>>]
          <5>1. /\ <<"reward", q>> \in Keys /\ <<"iof", q>> \in Keys
                /\ <<"reward", q>> # <<"reward", r>> /\ <<"reward", q>> # <<"iof", r>>
                /\ <<"iof", q>> # <<"reward", r>> /\ <<"iof", q>> # <<"iof", r>>
            BY <3>2, <4>1 DEF Keys
          <5>. QED BY <1>10, <5>1
        <4>. QED BY <4>1, <4>2, <4>3 DEF BookInv, BankSideIsBacked
      <3>. QED BY <3>1, <3>2
    <2>4. \A q \in Live(redemptions') :
             LET rd == redemptions'[q]
             IN  /\ entries'[rd.entry] = Debit(rd.program, rd.points)
                 /\ movements'[<<"reward", q>>] = [debit |-> FALSE, amount |-> rd.target]
                 /\ rd.by = "account" =>
                       movements'[<<"iof", q>>] = [debit |-> TRUE, amount |-> rd.iof]
      BY <2>3
    <2>. QED BY <2>1, <2>2, <2>4 DEF BankSideIsBacked, WantsMovement
  <1>22. \A q \in Live(redemptions') :
               \/ q \in Live(redemptions) /\ redemptions'[q].entry = redemptions[q].entry
               \/ redemptions'[q].entry = issued.entry + 1
    <2>. SUFFICES ASSUME NEW q \in Live(redemptions')
                  PROVE  \/ q \in Live(redemptions) /\ redemptions'[q].entry = redemptions[q].entry
                         \/ redemptions'[q].entry = issued.entry + 1
      OBVIOUS
    <2>1. CASE q = r
      <3>1. redemptions'[q].entry = e
        BY <1>1, <1>11, <2>1
      <3>2. CASE redemptions[r] = None
        BY <1>1, <3>1, <3>2
      <3>3. CASE redemptions[r] # None
        BY <1>1, <1>4, <2>1, <3>1, <3>3
      <3>. QED BY <3>2, <3>3
    <2>2. CASE q # r
      BY <1>17, <2>2
    <2>. QED BY <2>1, <2>2
  <1>23. \A d \in EntryIds : entries[d] # None => entries'[d] # None
    BY <1>6, <1>7
  <1>. QED BY <1>1, <1>14, <1>16, <1>18, <1>19, <1>20, <1>21, <1>22, <1>23 DEF BookInv
-----------------------------------------------------------------------------
(* Holdings: the view in flight, and the invariant.                        *)

\* A submission of another tab keeps what the view in flight may rely on, or
\* marks that it cut a link.
LEMMA FlightIsKept ==
  ASSUME BookInv, BookInv', FlightInv, AtOnce, issued.entry =< issued'.entry,
         \A r \in Live(redemptions') :
            \/ r \in Live(redemptions) /\ redemptions'[r].entry = redemptions[r].entry
            \/ redemptions'[r].entry = issued.entry + 1,
         \A o \in OpIds : ops[o] # None /\ ops[o].entry # None =>
            \/ ops'[o] # None /\ ops'[o].entry = ops[o].entry
            \/ entries'[ops[o].entry] = None
  PROVE  FlightInv'
  <1>. SUFFICES ASSUME request' # None
                PROVE  /\ request' = [of |-> request'.of, id |-> request'.id,
                                      seen |-> request'.seen, gone |-> request'.gone]
                       /\ request'.of \in {"operation", "entry", "opening"}
                       /\ request'.gone \in BOOLEAN
                       /\ request'.of = "operation" => OperationInFlight'
                       /\ request'.of = "entry" => EntryInFlight'
                       /\ request'.of = "opening" => OpeningInFlight'
    BY DEF FlightInv
  <1>1. request # None
    BY DEF AtOnce, CutsLink, InFlight
  <1>2. /\ request = [of |-> request.of, id |-> request.id, seen |-> request.seen,
                      gone |-> request.gone]
        /\ request.of \in {"operation", "entry", "opening"} /\ request.gone \in BOOLEAN
        /\ request.of = "operation" => OperationInFlight
        /\ request.of = "entry" => EntryInFlight
        /\ request.of = "opening" => OpeningInFlight
    BY <1>1 DEF FlightInv
  <1>3. PICK cut \in BOOLEAN : cut <=> CutsLink
    OBVIOUS
  <1>4. request' = IF cut THEN [request EXCEPT !.gone = TRUE] ELSE request
    BY <1>3 DEF AtOnce
  <1>5. request' = [of |-> request.of, id |-> request.id, seen |-> request.seen,
                    gone |-> request.gone \/ cut]
    <2>. DEFINE of == request.of
                id == request.id
                seen == request.seen
                gone == request.gone
    <2>1. /\ request = [of |-> of, id |-> id, seen |-> seen, gone |-> gone]
          /\ gone \in BOOLEAN
      BY <1>2
    <2>. HIDE DEF of, id, seen, gone
    <2>2. CASE cut
      <3>1. request' = [of |-> of, id |-> id, seen |-> seen, gone |-> TRUE]
        BY ONLY <1>4, <2>1, <2>2
      <3>2. (gone \/ cut) = TRUE
        BY <2>2
      <3>3. request' = [of |-> of, id |-> id, seen |-> seen, gone |-> gone \/ cut]
        BY ONLY <3>1, <3>2
      <3>. QED BY <3>3 DEF of, id, seen, gone
    <2>3. CASE ~cut
      <3>1. request' = [of |-> of, id |-> id, seen |-> seen, gone |-> gone]
        BY ONLY <1>4, <2>1, <2>3
      <3>2. (gone \/ cut) = gone
        BY <2>1, <2>3
      <3>3. request' = [of |-> of, id |-> id, seen |-> seen, gone |-> gone \/ cut]
        BY ONLY <3>1, <3>2
      <3>. QED BY <3>3 DEF of, id, seen, gone
    <2>. QED BY <2>2, <2>3
  <1>6. /\ request'.of = request.of /\ request'.id = request.id /\ request'.seen = request.seen
        /\ request'.gone = (request.gone \/ cut)
    BY ONLY <1>5
  <1>7. /\ issued.entry \in Nat /\ issued'.entry \in Nat /\ OpIds \subseteq Nat
        /\ EntryIds \subseteq Nat
    BY Tables, TablesAfter DEF BookInv
  <1>8. ASSUME request'.of = "operation"
        PROVE  OperationInFlight'
    <2>1. OperationInFlight /\ request.of = "operation"
      BY <1>2, <1>6, <1>8
    <2>2. ASSUME ~request'.gone, request'.seen.entry # None
          PROVE  ops'[request.id] # None /\ ops'[request.id].entry = request.seen.entry
      <3>1. ~request.gone /\ ~CutsLink /\ request.seen.entry # None
        BY <1>3, <1>6, <2>2
      <3>2. /\ ops[request.id] # None /\ ops[request.id].entry = request.seen.entry
            /\ request.id \in OpIds
        BY <2>1, <3>1 DEF OperationInFlight
      <3>3. entries'[request.seen.entry] # None
        BY <1>1, <2>1, <3>1 DEF CutsLink, InFlight
      <3>. QED BY <3>1, <3>2, <3>3
    <2>3. /\ request'.id \in OpIds /\ request'.seen \in Operation
          /\ request'.seen.movement <=> WantsMovement(request'.seen)
          /\ request'.seen.fx.captured <=> request'.seen.fx.rate # None
      BY <1>6, <2>1 DEF OperationInFlight
    <2>4. ~request'.gone /\ request'.seen.entry # None =>
             ops'[request'.id] # None /\ ops'[request'.id].entry = request'.seen.entry
      BY <1>6, <2>2
    <2>. QED BY <2>3, <2>4 DEF OperationInFlight, WantsMovement
  <1>9. ASSUME request'.of = "entry"
        PROVE  EntryInFlight'
    <2>1. EntryInFlight
      BY <1>2, <1>6, <1>9
    <2>2. /\ request.id \in EntryIds /\ request.id =< issued.entry
          /\ \A r \in Live(redemptions) : redemptions[r].entry # request.id
      BY <2>1 DEF EntryInFlight
    <2>3. request.id =< issued'.entry /\ request.id # issued.entry + 1
      <3>1. PICK n \in Nat : n = request.id
        BY <1>7, <2>2
      <3>2. n =< issued.entry /\ issued.entry =< issued'.entry
        BY <2>2, <3>1
      <3>3. n =< issued'.entry /\ n # issued.entry + 1
        BY ONLY <1>7, <3>2
      <3>. QED BY <3>1, <3>3
    <2>4. \A r \in Live(redemptions') : redemptions'[r].entry # request.id
      BY <2>2, <2>3
    <2>. QED BY <1>6, <2>1, <2>3, <2>4 DEF EntryInFlight
  <1>10. ASSUME request'.of = "opening"
         PROVE  OpeningInFlight'
    BY <1>2, <1>6, <1>10 DEF OpeningInFlight
  <1>11. request'.gone \in BOOLEAN
    BY <1>2, <1>6
  <1>. QED BY <1>2, <1>5, <1>6, <1>8, <1>9, <1>10, <1>11

\* What the rows of a page, and the row of the view in flight, tell a save.
LEMMA LiveRowsAreKnown ==
  ASSUME BookInv, NEW o \in Live(ops)
  PROVE  o \in OpIds /\ ops[o] # None /\ Knows(o, ops[o])
  <1>1. o \in OpIds /\ ops[o] # None /\ ops[o] \in Operation
    BY Tables DEF BookInv
  <1>. QED BY <1>1 DEF Knows, BookInv, Says, HoldingsTypeOK

LEMMA FlightKnows ==
  ASSUME BookInv, FlightInv, InFlight("operation"), ~request.gone
  PROVE  /\ request.seen # None /\ Knows(request.id, request.seen)
         /\ ops[request.id] = None /\ issued.op + 1 \in OpIds => Knows(issued.op + 1, request.seen)
  <1>1. OperationInFlight
    BY DEF FlightInv, InFlight
  <1>. QED BY <1>1, RowsAreSomething DEF OperationInFlight, Knows

LEMMA HandEntriesAreFree ==
  ASSUME BookInv, NEW e \in HandEntries
  PROVE  /\ e \in EntryIds /\ entries[e] # None /\ entries[e] \in PointsEntry
         /\ e =< issued.entry /\ (entries[e].funding <=> entries[e].purchase)
         /\ \A r \in Live(redemptions) : redemptions[r].entry # e
  BY Tables DEF BookInv, HandEntries, Numbered, Says

\* The books hold what they held when none of them is touched.
LEMMA BooksUntouched ==
  ASSUME BookInv, UNCHANGED <<ops, movements, entries, redemptions, issued>>,
         opening' \in [Pairs -> Opening \union {NoOpening}],
         rates' \in [Currencies \X Currencies -> [Dates -> Nat \union {None}]],
         base' \in Currencies
  PROVE  BookInv'
  <1>1. HoldingsTypeOK'
    BY DEF BookInv, HoldingsTypeOK
  <1>2. Numbered' /\ Owned' /\ Says' /\ BankSideIsBacked'
    BY DEF BookInv, Numbered, Owned, Says, BankSideIsBacked, WantsMovement
  <1>. QED BY <1>1, <1>2 DEF BookInv
-----------------------------------------------------------------------------
(* Holdings: what a step is.                                               *)

\* The save of a row that was changed since the view in flight loaded it.
OverStale(seen) == Resumes /\ Stale /\ InFlight("operation") /\ request.seen = seen

SavesOperation ==
    \E o \in OpIds, seen \in Operation \union {None}, form \in OperationForms :
       /\ Knows(o, seen) /\ SaveOperation(o, seen, form)
       /\ seen = ops[o] \/ OverStale(seen)
DeletesOperation ==
    \E o \in OpIds, seen \in Operation :
       /\ Knows(o, seen) /\ DeleteOperation(o, seen)
       /\ seen = ops[o] \/ OverStale(seen)
\* The payment of a row is the one it is saved or deleted with.
LinkIsSeen(e, funding) ==
    \/ funding = (entries[e] # None /\ entries[e].funding)
    \/ Resumes /\ Stale
SavesEntry ==
    \E e \in EntryIds, form \in EntryForms, linked \in BOOLEAN :
       /\ SaveEntry(e, form, linked) /\ LinkIsSeen(e, linked)
       /\ \A r \in Live(redemptions) : redemptions[r].entry # e
       /\ issued' \in [op : OpIds \union {0}, entry : EntryIds \union {0}]
       /\ issued'.op = issued.op /\ issued.entry =< issued'.entry /\ e =< issued'.entry
DeletesEntry ==
    \E e \in EntryIds, seen \in PointsEntry :
       /\ DeleteEntry(e, seen) /\ LinkIsSeen(e, seen.funding)
       /\ \A r \in Live(redemptions) : redemptions[r].entry # e
Converts == \E r \in RedemptionIds, form \in RedemptionForms : SaveRedemption(r, form)

LEMMA SubmissionsAre ==
  ASSUME HoldingsInv, Submit
  PROVE  SavesOperation \/ DeletesOperation \/ SavesEntry \/ DeletesEntry \/ Converts
  <1>1. /\ Live(ops) = {o \in OpIds : ops[o] # None}
        /\ issued.op \in Nat /\ issued.entry \in Nat
        /\ OpIds \subseteq Nat /\ EntryIds \subseteq Nat
        /\ Live(entries) = {e \in EntryIds : entries[e] # None}
    BY Tables DEF HoldingsInv, BookInv
  <1>2. ASSUME NEW form \in OperationForms, RecordOperation(form)
        PROVE  SavesOperation
    <2>1. issued.op + 1 \in OpIds /\ SaveOperation(issued.op + 1, None, form)
      BY <1>2 DEF RecordOperation
    <2>2. ops[issued.op + 1] = None
      BY <1>1, <2>1 DEF HoldingsInv, BookInv, Numbered
    <2>3. Knows(issued.op + 1, None)
      BY <2>1 DEF Knows
    <2>. QED BY <2>1, <2>2, <2>3 DEF SavesOperation
  <1>3. ASSUME NEW o \in Live(ops), NEW form \in OperationForms, EditOperation(o, ops[o], form)
        PROVE  SavesOperation
    <2>1. o \in OpIds /\ ops[o] # None /\ Knows(o, ops[o])
      BY LiveRowsAreKnown DEF HoldingsInv
    <2>2. SaveOperation(o, ops[o], form)
      BY <1>3, <2>1 DEF EditOperation
    <2>3. ops[o] \in Operation \union {None}
      BY <2>1 DEF Knows
    <2>. QED BY <2>1, <2>2, <2>3 DEF SavesOperation
  <1>4. ASSUME NEW o \in Live(ops), DeleteOperation(o, ops[o])
        PROVE  DeletesOperation
    <2>1. o \in OpIds /\ Knows(o, ops[o]) /\ ops[o] \in Operation
      BY LiveRowsAreKnown DEF HoldingsInv, Knows
    <2>. QED BY <1>4, <2>1 DEF DeletesOperation
  <1>5. issued \in [op : OpIds \union {0}, entry : EntryIds \union {0}]
    BY DEF HoldingsInv, BookInv, HoldingsTypeOK
  <1>6. ASSUME NEW form \in EntryForms, AddEntry(form)
        PROVE  SavesEntry
    <2>1. PICK e \in EntryIds : e = issued.entry + 1
      BY <1>6 DEF AddEntry
    <2>2. /\ SaveEntry(e, form, FALSE)
          /\ issued' = [issued EXCEPT !.entry = e]
      BY <1>6, <2>1 DEF AddEntry
    <2>3. /\ issued' \in [op : OpIds \union {0}, entry : EntryIds \union {0}]
          /\ issued'.op = issued.op /\ issued'.entry = e
      BY ONLY <1>5, <2>2
    <2>4. issued.entry =< issued'.entry /\ e =< issued'.entry
      BY ONLY <1>1, <2>1, <2>3
    <2>5. entries[e] = None /\ \A r \in Live(redemptions) : redemptions[r].entry # e
      <3>1. \A d \in EntryIds : d =< issued.entry => d # e
        BY <1>1, <2>1
      <3>. QED BY <3>1, OwnedAreGiven DEF HoldingsInv
    <2>. QED BY <2>2, <2>3, <2>4, <2>5 DEF SavesEntry, LinkIsSeen
  <1>7. ASSUME NEW e \in HandEntries
        PROVE  /\ e \in EntryIds /\ entries[e] # None /\ entries[e] \in PointsEntry
               /\ e =< issued.entry /\ entries[e].funding \in BOOLEAN
               /\ \A r \in Live(redemptions) : redemptions[r].entry # e
    BY HandEntriesAreFree DEF HoldingsInv, PointsEntry
  <1>8. ASSUME NEW e \in HandEntries, NEW form \in EntryForms, EditEntry(e, entries[e], form)
        PROVE  SavesEntry
    <2>1. SaveEntry(e, form, entries[e].funding) /\ issued' = issued
      BY <1>8 DEF EditEntry
    <2>2. issued.entry =< issued'.entry
      BY <1>1, <2>1
    <2>3. LinkIsSeen(e, entries[e].funding)
      BY <1>7 DEF LinkIsSeen
    <2>. QED BY <1>5, <1>7, <2>1, <2>2, <2>3 DEF SavesEntry
  <1>9. ASSUME NEW e \in HandEntries, DeleteEntry(e, entries[e])
        PROVE  DeletesEntry
    <2>1. LinkIsSeen(e, entries[e].funding)
      BY <1>7 DEF LinkIsSeen
    <2>. QED BY <1>7, <1>9, <2>1 DEF DeletesEntry
  <1>10. ASSUME NEW r \in RedemptionIds, NEW form \in RedemptionForms, SaveRedemption(r, form)
         PROVE  Converts
    BY <1>10 DEF Converts
  <1>. QED BY <1>2, <1>3, <1>4, <1>6, <1>8, <1>9, <1>10 DEF Submit

LEMMA ResumptionsAre ==
  ASSUME HoldingsInv, Resume
  PROVE  /\ SavesOperation \/ DeletesOperation \/ SavesEntry \/ DeletesEntry
         /\ request' = None
  <1>1. request # None /\ ~request.gone /\ request' = None /\ Resumes
    BY DEF Resume, Resumes
  <1>2. /\ issued.op \in Nat /\ issued.entry \in Nat
    BY Tables DEF HoldingsInv, BookInv
  <1>3. ASSUME InFlight("operation")
        PROVE  /\ request.id \in OpIds /\ request.seen \in Operation
               /\ Knows(request.id, request.seen)
               /\ ops[request.id] = None /\ issued.op + 1 \in OpIds =>
                     Knows(issued.op + 1, request.seen)
               /\ request.seen = ops[request.id] \/ OverStale(request.seen)
    <2>1. /\ request.seen # None /\ Knows(request.id, request.seen)
          /\ ops[request.id] = None /\ issued.op + 1 \in OpIds =>
                Knows(issued.op + 1, request.seen)
      BY <1>1, <1>3, FlightKnows DEF HoldingsInv
    <2>2. request.seen = ops[request.id] \/ OverStale(request.seen)
      BY <1>1, <1>3 DEF OverStale, Stale
    <2>. QED BY <2>1, <2>2 DEF Knows
  <1>4. ASSUME InFlight("operation"), NEW form \in OperationForms,
               EditOperation(request.id, request.seen, form)
        PROVE  SavesOperation
    <2>1. CASE ops[request.id] = None
      <3>1. issued.op + 1 \in OpIds /\ SaveOperation(issued.op + 1, request.seen, form)
        BY <1>4, <2>1 DEF EditOperation
      <3>2. Knows(issued.op + 1, request.seen)
        BY <1>3, <1>4, <2>1, <3>1
      <3>3. OverStale(request.seen)
        <4>1. ops[request.id] # request.seen
          BY <1>3, <1>4, <2>1, RowsAreSomething
        <4>. QED BY <1>1, <1>4, <4>1 DEF OverStale, Stale
      <3>. QED BY <1>3, <1>4, <3>1, <3>2, <3>3 DEF SavesOperation
    <2>2. CASE ops[request.id] # None
      <3>1. SaveOperation(request.id, request.seen, form)
        BY <1>4, <2>2 DEF EditOperation
      <3>. QED BY <1>3, <1>4, <3>1 DEF SavesOperation
    <2>. QED BY <2>1, <2>2
  <1>5. ASSUME InFlight("operation"), DeleteOperation(request.id, request.seen)
        PROVE  DeletesOperation
    BY <1>3, <1>5 DEF DeletesOperation
  <1>6. ASSUME InFlight("entry")
        PROVE  /\ request.id \in EntryIds /\ request.seen \in PointsEntry
               /\ request.seen.funding \in BOOLEAN
               /\ request.id =< issued.entry
               /\ \A r \in Live(redemptions) : redemptions[r].entry # request.id
               /\ LinkIsSeen(request.id, request.seen.funding)
    <2>1. EntryInFlight
      BY <1>6 DEF HoldingsInv, FlightInv, InFlight
    <2>2. /\ request.id \in EntryIds /\ request.seen \in PointsEntry
          /\ request.seen.funding \in BOOLEAN
      BY <2>1 DEF EntryInFlight, PointsEntry
    <2>3. LinkIsSeen(request.id, request.seen.funding)
      <3>1. CASE entries[request.id] # request.seen
        BY <1>1, <1>6, <3>1 DEF LinkIsSeen, Stale
      <3>2. CASE entries[request.id] = request.seen
        BY <2>2, <3>2, RowsAreSomething DEF LinkIsSeen
      <3>. QED BY <3>1, <3>2
    <2>. QED BY <2>1, <2>2, <2>3 DEF EntryInFlight
  <1>7. ASSUME InFlight("entry"), NEW form \in EntryForms,
               EditEntry(request.id, request.seen, form)
        PROVE  SavesEntry
    <2>1. SaveEntry(request.id, form, request.seen.funding) /\ issued' = issued
      BY <1>7 DEF EditEntry
    <2>2. issued.entry =< issued'.entry
      BY <1>2, <2>1
    <2>3. issued \in [op : OpIds \union {0}, entry : EntryIds \union {0}]
      BY DEF HoldingsInv, BookInv, HoldingsTypeOK
    <2>. QED BY <1>6, <1>7, <2>1, <2>2, <2>3 DEF SavesEntry
  <1>8. ASSUME InFlight("entry"), DeleteEntry(request.id, request.seen)
        PROVE  DeletesEntry
    BY <1>6, <1>8 DEF DeletesEntry
  <1>. QED BY <1>1, <1>4, <1>5, <1>7, <1>8 DEF Resume

\* What a step that touches the books leaves of the entries that are owned.
LEMMA StepsKeepTheBooks ==
  ASSUME HoldingsInv, SavesOperation \/ DeletesOperation \/ SavesEntry \/ DeletesEntry \/ Converts
  PROVE  /\ BookInv' /\ issued.entry =< issued'.entry
         /\ \A r \in Live(redemptions') :
               \/ r \in Live(redemptions) /\ redemptions'[r].entry = redemptions[r].entry
               \/ redemptions'[r].entry = issued.entry + 1
         /\ ~Resumes =>
               \A o \in OpIds : ops[o] # None /\ ops[o].entry # None =>
                  \/ ops'[o] # None /\ ops'[o].entry = ops[o].entry
                  \/ entries'[ops[o].entry] = None
  <1>. DEFINE Keeps(o) == ops[o] # None /\ ops[o].entry # None =>
                             \/ ops'[o] # None /\ ops'[o].entry = ops[o].entry
                             \/ entries'[ops[o].entry] = None
              Same == redemptions' = redemptions
  <1>0. BookInv /\ issued.entry \in Nat
    BY Tables DEF HoldingsInv, BookInv
  <1>1. ASSUME SavesOperation
        PROVE  /\ BookInv' /\ issued.entry =< issued'.entry /\ Same
               /\ ~Resumes => \A o \in OpIds : Keeps(o)
    <2>1. PICK o \in OpIds, seen \in Operation \union {None}, form \in OperationForms :
             Knows(o, seen) /\ SaveOperation(o, seen, form) /\ (seen = ops[o] \/ OverStale(seen))
      BY <1>1 DEF SavesOperation
    <2>2. PICK op : SavesAs(o, seen, form, op)
      BY <1>0, <2>1, SavedOperation
    <2>3. BookInv'
      BY <1>0, <2>1, <2>2, SavesKeep
    <2>4. /\ ops'[o] = op /\ op # None /\ \A q \in OpIds : q # o => ops'[q] = ops[q]
          /\ redemptions' = redemptions /\ issued.entry =< issued'.entry
          /\ op.entry # None => (LinkOf(seen) # None => op.entry = LinkOf(seen))
          /\ op.entry = None => (LinkOf(seen) # None => entries'[LinkOf(seen)] = None)
      BY <1>0, <2>1, <2>2, SavesFacts
    <2>5. ASSUME ~Resumes, NEW q \in OpIds PROVE Keeps(q)
      <3>1. CASE q # o
        BY <2>4, <3>1
      <3>2. CASE q = o /\ LinkOf(seen) # None
        BY <2>1, <2>4, <2>5, <3>2 DEF LinkOf, Knows
      <3>3. CASE q = o /\ LinkOf(seen) = None
        BY <2>1, <2>5, <3>3 DEF LinkOf, OverStale
      <3>. QED BY <3>1, <3>2, <3>3
    <2>. QED BY <2>3, <2>4, <2>5
  <1>2. ASSUME DeletesOperation
        PROVE  /\ BookInv' /\ issued.entry =< issued'.entry /\ Same
               /\ ~Resumes => \A o \in OpIds : Keeps(o)
    <2>1. PICK o \in OpIds, seen \in Operation :
             Knows(o, seen) /\ DeleteOperation(o, seen) /\ (seen = ops[o] \/ OverStale(seen))
      BY <1>2 DEF DeletesOperation
    <2>2. seen # None
      BY RowsAreSomething
    <2>3. /\ BookInv' /\ ops'[o] = None /\ (seen.entry # None => entries'[seen.entry] = None)
          /\ \A q \in OpIds : q # o => ops'[q] = ops[q]
          /\ redemptions' = redemptions /\ issued' = issued
      <3>1. Knows(o, seen) /\ DeleteOperation(o, seen)
        BY <2>1
      <3>2. /\ BookInv' /\ ops'[o] = None /\ (seen.entry # None => entries'[seen.entry] = None)
            /\ \A q \in OpIds : q # o => ops'[q] = ops[q]
            /\ \A e \in EntryIds : e # seen.entry => entries'[e] = entries[e]
            /\ \A k \in Keys : k # <<"operation", o>> => movements'[k] = movements[k]
            /\ movements'[<<"operation", o>>]
                  = IF seen.movement THEN None ELSE movements[<<"operation", o>>]
            /\ redemptions' = redemptions /\ issued' = issued
        BY ONLY <1>0, <2>2, <3>1, DeleteOperationKeeps
      <3>. QED BY <3>2
    <2>4. ASSUME ~Resumes, NEW q \in OpIds PROVE Keeps(q)
      BY <2>1, <2>3, <2>4 DEF OverStale
    <2>5. issued.entry =< issued'.entry
      BY <1>0, <2>3
    <2>. QED BY <2>3, <2>4, <2>5
  <1>3. ASSUME SavesEntry
        PROVE  /\ BookInv' /\ issued.entry =< issued'.entry /\ Same
               /\ \A o \in OpIds : Keeps(o)
    <2>1. PICK e \in EntryIds, form \in EntryForms, linked \in BOOLEAN :
             /\ SaveEntry(e, form, linked)
             /\ \A r \in Live(redemptions) : redemptions[r].entry # e
             /\ issued' \in [op : OpIds \union {0}, entry : EntryIds \union {0}]
             /\ issued'.op = issued.op /\ issued.entry =< issued'.entry /\ e =< issued'.entry
      BY <1>3 DEF SavesEntry
    <2>2. BookInv'
      BY <1>0, <2>1, SaveEntryKeeps
    <2>3. ops' = ops /\ redemptions' = redemptions
      BY <2>1 DEF SaveEntry
    <2>. QED BY <2>1, <2>2, <2>3
  <1>4. ASSUME DeletesEntry
        PROVE  /\ BookInv' /\ issued.entry =< issued'.entry /\ Same
               /\ \A o \in OpIds : Keeps(o)
    <2>1. PICK e \in EntryIds, seen \in PointsEntry :
             /\ DeleteEntry(e, seen)
             /\ \A r \in Live(redemptions) : redemptions[r].entry # e
      BY <1>4 DEF DeletesEntry
    <2>2. /\ BookInv' /\ entries'[e] = None
          /\ \A o \in OpIds : /\ ops'[o] = None <=> ops[o] = None
                              /\ ops[o] # None =>
                                    ops'[o] = IF ops[o].entry = e THEN [ops[o] EXCEPT !.entry = None]
                                              ELSE ops[o]
      BY <1>0, <2>1, DeleteEntryKeeps
    <2>3. redemptions' = redemptions /\ issued' = issued
      BY <2>1 DEF DeleteEntry
    <2>4. issued.entry =< issued'.entry
      BY <1>0, <2>3
    <2>5. ASSUME NEW o \in OpIds PROVE Keeps(o)
      BY <2>2
    <2>. QED BY <2>2, <2>3, <2>4, <2>5
  <1>5. ASSUME Converts
        PROVE  /\ BookInv' /\ issued.entry =< issued'.entry /\ ops' = ops
               /\ \A r \in Live(redemptions') :
                     \/ r \in Live(redemptions) /\ redemptions'[r].entry = redemptions[r].entry
                     \/ redemptions'[r].entry = issued.entry + 1
    BY <1>0, <1>5, SaveRedemptionKeeps DEF Converts
  <1>6. CASE Converts
    BY <1>5, <1>6
  <1>7. CASE SavesOperation \/ DeletesOperation \/ SavesEntry \/ DeletesEntry
    <2>1. BookInv' /\ issued.entry =< issued'.entry /\ Same
      BY <1>1, <1>2, <1>3, <1>4, <1>7
    <2>2. ~Resumes => \A o \in OpIds : Keeps(o)
      BY <1>1, <1>2, <1>3, <1>4, <1>7
    <2>. QED BY <2>1, <2>2
  <1>. QED BY <1>6, <1>7

\* The steps that leave the books alone.
LeavesTheBooks ==
    /\ UNCHANGED <<ops, movements, entries, redemptions, issued>>
    /\ opening' \in [Pairs -> Opening \union {NoOpening}]
    /\ \/ opening' = opening
       \/ /\ request # None /\ request.of = "opening" /\ request' = None
          /\ opening' = [opening EXCEPT ![request.id] = request.seen]
    /\ rates' \in [Currencies \X Currencies -> [Dates -> Nat \union {None}]]
    /\ base' \in Currencies

LEMMA OtherStepsAre ==
  ASSUME HoldingsInv, HoldingsNext, ~Submit, ~Resume
  PROVE  LeavesTheBooks /\ FlightInv'
  <1>1. /\ opening \in [Pairs -> Opening \union {NoOpening}]
        /\ rates \in [Currencies \X Currencies -> [Dates -> Nat \union {None}]]
        /\ base \in Currencies
    BY DEF HoldingsInv, BookInv, HoldingsTypeOK
  <1>2. FlightInv
    BY DEF HoldingsInv
  <1>3. ASSUME UNCHANGED <<ops, movements, entries, redemptions, issued, request>>
        PROVE  FlightInv'
    BY <1>2, <1>3 DEF FlightInv, OperationInFlight, EntryInFlight, OpeningInFlight, WantsMovement
  <1>4. ASSUME NEW of, NEW id, NEW seen,
               request' = [of |-> of, id |-> id, seen |-> seen, gone |-> FALSE]
        PROVE  /\ request' = [of |-> request'.of, id |-> request'.id,
                              seen |-> request'.seen, gone |-> request'.gone]
               /\ request'.of = of /\ request'.id = id /\ request'.seen = seen
               /\ request'.gone = FALSE
    BY <1>4
  <1>5. ASSUME NEW o \in Live(ops), Loads("operation", o, ops[o])
        PROVE  LeavesTheBooks /\ FlightInv'
    <2>1. /\ request' = [of |-> "operation", id |-> o, seen |-> ops[o], gone |-> FALSE]
          /\ UNCHANGED <<ops, opening, movements, entries, redemptions, rates, base, issued>>
      BY <1>5 DEF Loads, banking, market
    <2>2. /\ request' = [of |-> request'.of, id |-> request'.id,
                         seen |-> request'.seen, gone |-> request'.gone]
          /\ request'.of = "operation" /\ request'.id = o /\ request'.seen = ops[o]
          /\ request'.gone = FALSE
      BY <1>4, <2>1
    <2>3. o \in OpIds /\ ops[o] # None /\ Knows(o, ops[o])
      BY LiveRowsAreKnown DEF HoldingsInv
    <2>4. OperationInFlight'
      BY <2>1, <2>2, <2>3 DEF OperationInFlight, Knows, WantsMovement
    <2>5. LeavesTheBooks
      BY <1>1, <2>1 DEF LeavesTheBooks
    <2>. QED BY <2>2, <2>4, <2>5 DEF FlightInv
  <1>6. ASSUME NEW e \in HandEntries, Loads("entry", e, entries[e])
        PROVE  LeavesTheBooks /\ FlightInv'
    <2>1. /\ request' = [of |-> "entry", id |-> e, seen |-> entries[e], gone |-> FALSE]
          /\ UNCHANGED <<ops, opening, movements, entries, redemptions, rates, base, issued>>
      BY <1>6 DEF Loads, banking, market
    <2>2. /\ request' = [of |-> request'.of, id |-> request'.id,
                         seen |-> request'.seen, gone |-> request'.gone]
          /\ request'.of = "entry" /\ request'.id = e /\ request'.seen = entries[e]
          /\ request'.gone = FALSE
      BY <1>4, <2>1
    <2>3. /\ e \in EntryIds /\ entries[e] # None /\ entries[e] \in PointsEntry
          /\ e =< issued.entry /\ (entries[e].funding <=> entries[e].purchase)
          /\ \A r \in Live(redemptions) : redemptions[r].entry # e
      BY HandEntriesAreFree DEF HoldingsInv
    <2>4. EntryInFlight'
      BY <2>1, <2>2, <2>3 DEF EntryInFlight
    <2>5. LeavesTheBooks
      BY <1>1, <2>1 DEF LeavesTheBooks
    <2>. QED BY <2>2, <2>4, <2>5 DEF FlightInv
  <1>7. ASSUME NEW p \in Pairs, NEW form \in Openings[p], CheckOpening(p, form)
        PROVE  LeavesTheBooks /\ FlightInv'
    <2>1. /\ request' = [of |-> "opening", id |-> p, seen |-> form, gone |-> FALSE]
          /\ UNCHANGED <<ops, opening, movements, entries, redemptions, rates, base, issued>>
      BY <1>7 DEF CheckOpening, banking, market
    <2>2. /\ request' = [of |-> request'.of, id |-> request'.id,
                         seen |-> request'.seen, gone |-> request'.gone]
          /\ request'.of = "opening" /\ request'.id = p /\ request'.seen = form
          /\ request'.gone = FALSE
      BY <1>4, <2>1
    <2>3. form \in Opening
      BY FormsAreValid
    <2>4. OpeningInFlight'
      BY <2>2, <2>3 DEF OpeningInFlight
    <2>5. LeavesTheBooks
      BY <1>1, <2>1 DEF LeavesTheBooks
    <2>. QED BY <2>2, <2>4, <2>5 DEF FlightInv
  <1>8. ASSUME SaveOpening
        PROVE  LeavesTheBooks /\ FlightInv'
    <2>1. /\ request # None /\ request.of = "opening" /\ request' = None
          /\ opening' = [opening EXCEPT ![request.id] = request.seen]
          /\ UNCHANGED <<ops, movements, entries, redemptions, rates, base, issued>>
      BY <1>8 DEF SaveOpening, banking, market
    <2>2. request.id \in Pairs /\ request.seen \in Opening
      BY <1>2, <2>1 DEF FlightInv, OpeningInFlight
    <2>3. opening' \in [Pairs -> Opening \union {NoOpening}]
      BY <1>1, <2>1, <2>2
    <2>. QED BY <1>1, <2>1, <2>3 DEF LeavesTheBooks, FlightInv
  <1>9. ASSUME NEW form \in RateForms, SetRate(form)
        PROVE  LeavesTheBooks /\ FlightInv'
    <2>1. /\ rates' = [rates EXCEPT ![<<form.from, form.to>>][form.date] = form.rate]
          /\ UNCHANGED <<ops, opening, movements, entries, redemptions, base, request, issued>>
      BY <1>9 DEF SetRate, banking
    <2>2. form.from \in Currencies /\ form.to \in Currencies /\ form.date \in Dates /\ form.rate \in Nat
      BY FormsAreValid
    <2>3. rates' \in [Currencies \X Currencies -> [Dates -> Nat \union {None}]]
      BY <1>1, <2>1, <2>2
    <2>. QED BY <1>1, <1>3, <2>1, <2>3 DEF LeavesTheBooks
  <1>10. ASSUME NEW form \in RateForms, DeleteRate(form.from, form.to, form.date)
         PROVE  LeavesTheBooks /\ FlightInv'
    <2>1. /\ rates' = [rates EXCEPT ![<<form.from, form.to>>][form.date] = None]
          /\ UNCHANGED <<ops, opening, movements, entries, redemptions, base, request, issued>>
      BY <1>10 DEF DeleteRate, banking
    <2>2. form.from \in Currencies /\ form.to \in Currencies /\ form.date \in Dates
      BY FormsAreValid
    <2>3. rates' \in [Currencies \X Currencies -> [Dates -> Nat \union {None}]]
      BY <1>1, <2>1, <2>2
    <2>. QED BY <1>1, <1>3, <2>1, <2>3 DEF LeavesTheBooks
  <1>11. ASSUME NEW c \in Currencies, ChangeBase(c)
         PROVE  LeavesTheBooks /\ FlightInv'
    <2>1. base' = c /\ UNCHANGED <<ops, opening, movements, entries, redemptions, rates, request, issued>>
      BY <1>11 DEF ChangeBase, banking
    <2>. QED BY <1>1, <1>3, <2>1 DEF LeavesTheBooks
  <1>. QED BY <1>5, <1>6, <1>7, <1>8, <1>9, <1>10, <1>11 DEF HoldingsNext

LEMMA StepsAre ==
  ASSUME HoldingsInv, HoldingsNext
  PROVE  SavesOperation \/ DeletesOperation \/ SavesEntry \/ DeletesEntry \/ Converts
           \/ LeavesTheBooks
  BY SubmissionsAre, ResumptionsAre, OtherStepsAre

LEMMA HoldingsStep ==
  ASSUME HoldingsInv, [HoldingsNext]_holdingVars
  PROVE  HoldingsInv'
  <1>1. CASE Submit
    <2>1. SavesOperation \/ DeletesOperation \/ SavesEntry \/ DeletesEntry \/ Converts
      BY <1>1, SubmissionsAre
    <2>2. /\ BookInv' /\ issued.entry =< issued'.entry
          /\ \A r \in Live(redemptions') :
                \/ r \in Live(redemptions) /\ redemptions'[r].entry = redemptions[r].entry
                \/ redemptions'[r].entry = issued.entry + 1
          /\ ~Resumes =>
                \A o \in OpIds : ops[o] # None /\ ops[o].entry # None =>
                   \/ ops'[o] # None /\ ops'[o].entry = ops[o].entry
                   \/ entries'[ops[o].entry] = None
      BY <2>1, StepsKeepTheBooks
    <2>3. CASE Resumes
      BY <2>2, <2>3 DEF HoldingsInv, FlightInv, Resumes
    <2>4. CASE ~Resumes
      <3>1. AtOnce
        BY <1>1 DEF Submit
      <3>. QED BY <2>2, <2>4, <3>1, FlightIsKept DEF HoldingsInv
    <2>. QED BY <2>3, <2>4
  <1>2. CASE Resume
    <2>1. /\ SavesOperation \/ DeletesOperation \/ SavesEntry \/ DeletesEntry
          /\ request' = None
      BY <1>2, ResumptionsAre
    <2>2. BookInv'
      BY <2>1, StepsKeepTheBooks
    <2>. QED BY <2>1, <2>2 DEF HoldingsInv, FlightInv
  <1>3. CASE HoldingsNext /\ ~Submit /\ ~Resume
    <2>1. LeavesTheBooks /\ FlightInv'
      BY <1>3, OtherStepsAre
    <2>2. BookInv'
      BY <2>1, BooksUntouched DEF LeavesTheBooks, HoldingsInv
    <2>. QED BY <2>1, <2>2 DEF HoldingsInv
  <1>4. CASE UNCHANGED holdingVars
    <2>1. UNCHANGED <<ops, opening, movements, entries, redemptions, rates, base, request, issued>>
      BY <1>4 DEF holdingVars, banking, market
    <2>2. /\ opening' \in [Pairs -> Opening \union {NoOpening}]
          /\ rates' \in [Currencies \X Currencies -> [Dates -> Nat \union {None}]]
          /\ base' \in Currencies
      BY <2>1 DEF HoldingsInv, BookInv, HoldingsTypeOK
    <2>3. BookInv'
      BY <2>1, <2>2, BooksUntouched DEF HoldingsInv
    <2>4. FlightInv'
      BY <2>1 DEF HoldingsInv, FlightInv, OperationInFlight, EntryInFlight, OpeningInFlight,
                  WantsMovement
    <2>. QED BY <2>3, <2>4 DEF HoldingsInv
  <1>. QED BY <1>1, <1>2, <1>3, <1>4

LEMMA HoldingsStart ==
  ASSUME HoldingsInit PROVE HoldingsInv
  <1>1. /\ ops = [o \in OpIds |-> None] /\ opening = [p \in Pairs |-> NoOpening]
        /\ movements = [k \in Keys |-> None] /\ entries = [e \in EntryIds |-> None]
        /\ redemptions = [r \in RedemptionIds |-> None]
        /\ rates = [pair \in Currencies \X Currencies |-> [d \in Dates |-> None]]
        /\ base \in Currencies /\ request = None /\ issued = [op |-> 0, entry |-> 0]
    BY DEF HoldingsInit
  <1>2. Live(ops) = {} /\ Live(entries) = {} /\ Live(redemptions) = {}
    BY <1>1 DEF Live
  <1>3. HoldingsTypeOK
    BY <1>1, <1>2 DEF HoldingsTypeOK
  <1>4. Numbered /\ Owned /\ Says /\ BankSideIsBacked
    BY <1>2 DEF Numbered, Owned, Says, BankSideIsBacked
  <1>. QED BY <1>1, <1>3, <1>4 DEF HoldingsInv, BookInv, FlightInv

\* The operations, the points and the bank side they own are well formed in
\* every state, with the view in flight (investments/services.py, views).
THEOREM HoldingsAreWellFormed == HoldingsSpec => []HoldingsInv
  BY HoldingsStart, HoldingsStep, PTL DEF HoldingsSpec
-----------------------------------------------------------------------------
(* Holdings: the bank side.                                                *)

PaysFor(o) == ops[o] # None /\ WantsMovement(ops[o])
BuysPoints(e) == entries[e] # None /\ entries[e].purchase

\* A movement that outlives what it was made for in this step.
OperationStray(o) ==
    /\ movements'[<<"operation", o>>] # None /\ ~PaysFor(o)'
    /\ movements[<<"operation", o>>] = None \/ PaysFor(o)
PurchaseStray(e) ==
    /\ movements'[<<"purchase", e>>] # None /\ ~BuysPoints(e)'
    /\ movements[<<"purchase", e>>] = None \/ BuysPoints(e)
RewardStray(r) ==
    /\ movements'[<<"reward", r>>] # None /\ redemptions'[r] = None
    /\ movements[<<"reward", r>>] = None \/ redemptions[r] # None
IofStray(r) ==
    /\ movements'[<<"iof", r>>] # None
    /\ ~(redemptions'[r] # None /\ redemptions'[r].by = "account")
    /\ movements[<<"iof", r>>] = None \/ (redemptions[r] # None /\ redemptions[r].by = "account")

LEMMA StraysAre ==
  ASSUME HoldingsTypeOK, HoldingsTypeOK', NEW k \in Strays' \ Strays
  PROVE  \/ \E o \in OpIds : k = <<"operation", o>> /\ OperationStray(o)
         \/ \E e \in EntryIds : k = <<"purchase", e>> /\ PurchaseStray(e)
         \/ \E r \in RedemptionIds : k = <<"reward", r>> /\ RewardStray(r)
         \/ \E r \in RedemptionIds : k = <<"iof", r>> /\ IofStray(r)
  <1>1. DOMAIN movements = Keys /\ DOMAIN movements' = Keys
    BY DEF HoldingsTypeOK
  <1>2. /\ k \in Keys /\ movements'[k] # None /\ ~Accounted(k)'
        /\ movements[k] = None \/ Accounted(k)
    BY <1>1 DEF Strays, Live
  <1>3. CASE \E o \in OpIds : k = <<"operation", o>>
    <2>1. PICK o \in OpIds : k = <<"operation", o>>
      BY <1>3
    <2>2. k[1] = "operation" /\ k[2] = o
      BY <2>1
    <2>3. (Accounted(k) => PaysFor(o)) /\ (PaysFor(o)' => Accounted(k)')
      BY <2>2 DEF Accounted, PaysFor
    <2>. QED BY <1>2, <2>1, <2>3 DEF OperationStray
  <1>4. CASE \E e \in EntryIds : k = <<"purchase", e>>
    <2>1. PICK e \in EntryIds : k = <<"purchase", e>>
      BY <1>4
    <2>2. k[1] = "purchase" /\ k[2] = e
      BY <2>1
    <2>3. (Accounted(k) => BuysPoints(e)) /\ (BuysPoints(e)' => Accounted(k)')
      BY <2>2 DEF Accounted, BuysPoints
    <2>. QED BY <1>2, <2>1, <2>3 DEF PurchaseStray
  <1>5. CASE \E r \in RedemptionIds : k = <<"reward", r>>
    <2>1. PICK r \in RedemptionIds : k = <<"reward", r>>
      BY <1>5
    <2>2. k[1] = "reward" /\ k[2] = r
      BY <2>1
    <2>3. (Accounted(k) => redemptions[r] # None) /\ (redemptions'[r] # None => Accounted(k)')
      BY <2>2 DEF Accounted
    <2>. QED BY <1>2, <2>1, <2>3 DEF RewardStray
  <1>6. CASE \E r \in RedemptionIds : k = <<"iof", r>>
    <2>1. PICK r \in RedemptionIds : k = <<"iof", r>>
      BY <1>6
    <2>2. k[1] = "iof" /\ k[2] = r
      BY <2>1
    <2>3. /\ Accounted(k) => redemptions[r] # None /\ redemptions[r].by = "account"
          /\ redemptions'[r] # None /\ redemptions'[r].by = "account" => Accounted(k)'
      BY <2>2 DEF Accounted
    <2>. QED BY <1>2, <2>1, <2>3 DEF IofStray
  <1>. QED BY <1>2, <1>3, <1>4, <1>5, <1>6 DEF Keys

\* What is not touched does not stray.
LEMMA UntouchedDoesNotStray ==
  ASSUME TRUE
  PROVE  /\ \A o : movements'[<<"operation", o>>] = movements[<<"operation", o>>]
                     /\ (PaysFor(o) => PaysFor(o)') => ~OperationStray(o)
         /\ \A e : movements'[<<"purchase", e>>] = movements[<<"purchase", e>>]
                     /\ (BuysPoints(e) => BuysPoints(e)') => ~PurchaseStray(e)
         /\ \A r : redemptions'[r] = redemptions[r] =>
               /\ movements'[<<"reward", r>>] = movements[<<"reward", r>>] => ~RewardStray(r)
               /\ movements'[<<"iof", r>>] = movements[<<"iof", r>>] => ~IofStray(r)
  BY DEF OperationStray, PurchaseStray, RewardStray, IofStray

\* A step that is not over a stale row leaves nothing behind, but the payment
\* of an entry an operation owned and that was turned into a purchase.
NoNewStrays ==
    /\ \A o \in OpIds : ~OperationStray(o)
    /\ \A e \in EntryIds : PurchaseStray(e) => Bought(e)
    /\ \A r \in RedemptionIds : ~RewardStray(r) /\ ~IofStray(r)

LEMMA SavedOperationsDoNotStray ==
  ASSUME BookInv, NEW o \in OpIds, Knows(o, ops[o]), NEW form, NEW op,
         SavesAs(o, ops[o], form, op)
  PROVE  NoNewStrays
  <1>1. /\ ops'[o] = op /\ op # None /\ \A q \in OpIds : q # o => ops'[q] = ops[q]
        /\ redemptions' = redemptions
        /\ op.entry # None =>
              /\ op.entry \in EntryIds
              /\ \A e \in EntryIds : e # op.entry => entries'[e] = entries[e]
              /\ LinkOf(ops[o]) = None => entries[op.entry] = None
              /\ LinkOf(ops[o]) # None => ~entries[op.entry].purchase
        /\ op.entry = None => \A e \in EntryIds : e # LinkOf(ops[o]) => entries'[e] = entries[e]
    BY SavesFacts
  <1>2. /\ \A k \in Keys : k # <<"operation", o>> => movements'[k] = movements[k]
        /\ ~WantsMovement(op) /\ ops[o] # None /\ ops[o].movement =>
              movements'[<<"operation", o>>] = None
        /\ ~WantsMovement(op) /\ ~(ops[o] # None /\ ops[o].movement) =>
              movements'[<<"operation", o>>] = movements[<<"operation", o>>]
    BY SavesMovements
  <1>3. Live(ops) = {q \in OpIds : ops[q] # None}
    BY Tables DEF BookInv
  <1>4. ops[o] # None => (ops[o].movement <=> WantsMovement(ops[o]))
    BY DEF Knows
  <1>5. ~OperationStray(o)
    BY <1>1, <1>2, <1>4 DEF OperationStray, PaysFor
  <1>6. ASSUME NEW q \in OpIds, q # o PROVE ~OperationStray(q)
    <2>1. <<"operation", q>> \in Keys /\ <<"operation", q>> # <<"operation", o>>
      BY <1>6 DEF Keys
    <2>2. PaysFor(q)' <=> PaysFor(q)
      BY <1>1, <1>6 DEF PaysFor, WantsMovement
    <2>. QED BY <1>2, <2>1, <2>2, UntouchedDoesNotStray
  <1>7. ASSUME NEW e \in EntryIds, PurchaseStray(e) PROVE Bought(e)
    <2>1. movements'[<<"purchase", e>>] = movements[<<"purchase", e>>]
      <3>1. <<"purchase", e>> \in Keys /\ <<"purchase", e>> # <<"operation", o>>
        BY DEF Keys
      <3>. QED BY <1>2, <3>1
    <2>2. BuysPoints(e) /\ entries'[e] # entries[e]
      BY <1>7, <2>1 DEF PurchaseStray, BuysPoints
    <2>3. op.entry = None /\ e = LinkOf(ops[o])
      BY <1>1, <2>2 DEF BuysPoints
    <2>4. e # None
      BY IdsAreFinite
    <2>. QED BY <1>3, <2>2, <2>3, <2>4 DEF LinkOf, Bought, BuysPoints
  <1>8. ASSUME NEW r \in RedemptionIds PROVE ~RewardStray(r) /\ ~IofStray(r)
    <2>1. /\ <<"reward", r>> \in Keys /\ <<"reward", r>> # <<"operation", o>>
          /\ <<"iof", r>> \in Keys /\ <<"iof", r>> # <<"operation", o>>
      BY DEF Keys
    <2>. QED BY <1>1, <1>2, <2>1, UntouchedDoesNotStray
  <1>. QED BY <1>5, <1>6, <1>7, <1>8 DEF NoNewStrays

LEMMA DeletedOperationsDoNotStray ==
  ASSUME BookInv, NEW o \in OpIds, ops[o] # None, Knows(o, ops[o]), DeleteOperation(o, ops[o])
  PROVE  NoNewStrays
  <1>0. PICK seen : seen = ops[o]
    OBVIOUS
  <1>1. /\ BookInv' /\ ops'[o] = None /\ (seen.entry # None => entries'[seen.entry] = None)
        /\ \A q \in OpIds : q # o => ops'[q] = ops[q]
        /\ \A e \in EntryIds : e # seen.entry => entries'[e] = entries[e]
        /\ \A k \in Keys : k # <<"operation", o>> => movements'[k] = movements[k]
        /\ movements'[<<"operation", o>>]
              = IF seen.movement THEN None ELSE movements[<<"operation", o>>]
        /\ redemptions' = redemptions /\ issued' = issued
    <2>1. seen # None /\ Knows(o, seen) /\ DeleteOperation(o, seen)
      BY <1>0
    <2>. QED BY ONLY BookInv, <2>1, DeleteOperationKeeps
  <1>2. Live(ops) = {q \in OpIds : ops[q] # None}
    BY Tables DEF BookInv
  <1>3. seen.movement <=> WantsMovement(ops[o])
    BY <1>0 DEF Knows
  <1>4. ~OperationStray(o)
    BY <1>1, <1>3 DEF OperationStray, PaysFor
  <1>5. ASSUME NEW q \in OpIds, q # o PROVE ~OperationStray(q)
    <2>1. <<"operation", q>> \in Keys /\ <<"operation", q>> # <<"operation", o>>
      BY <1>5 DEF Keys
    <2>2. PaysFor(q)' <=> PaysFor(q)
      BY <1>1, <1>5 DEF PaysFor, WantsMovement
    <2>. QED BY <1>1, <2>1, <2>2, UntouchedDoesNotStray
  <1>6. ASSUME NEW e \in EntryIds, PurchaseStray(e) PROVE Bought(e)
    <2>1. movements'[<<"purchase", e>>] = movements[<<"purchase", e>>]
      <3>1. <<"purchase", e>> \in Keys /\ <<"purchase", e>> # <<"operation", o>>
        BY DEF Keys
      <3>. QED BY <1>1, <3>1
    <2>2. BuysPoints(e) /\ entries'[e] # entries[e]
      BY <1>6, <2>1 DEF PurchaseStray, BuysPoints
    <2>. QED BY <1>0, <1>1, <1>2, <2>2 DEF Bought, BuysPoints
  <1>7. ASSUME NEW r \in RedemptionIds PROVE ~RewardStray(r) /\ ~IofStray(r)
    <2>1. /\ <<"reward", r>> \in Keys /\ <<"reward", r>> # <<"operation", o>>
          /\ <<"iof", r>> \in Keys /\ <<"iof", r>> # <<"operation", o>>
      BY DEF Keys
    <2>. QED BY <1>1, <2>1, UntouchedDoesNotStray
  <1>. QED BY <1>4, <1>5, <1>6, <1>7 DEF NoNewStrays

\* A step that touches one entry and its payment, and no operation's.
LEMMA EntriesDoNotStray ==
  ASSUME NEW e \in EntryIds, redemptions' = redemptions,
         \A k \in Keys : k # <<"purchase", e>> => movements'[k] = movements[k],
         \A d \in EntryIds : d # e => entries'[d] = entries[d],
         \A o \in OpIds : PaysFor(o) => PaysFor(o)',
         ~PurchaseStray(e)
  PROVE  NoNewStrays
  <1>1. ASSUME NEW o \in OpIds PROVE ~OperationStray(o)
    <2>1. <<"operation", o>> \in Keys /\ <<"operation", o>> # <<"purchase", e>>
      BY DEF Keys
    <2>. QED BY <2>1, UntouchedDoesNotStray
  <1>2. ASSUME NEW d \in EntryIds, d # e PROVE ~PurchaseStray(d)
    <2>1. <<"purchase", d>> \in Keys /\ <<"purchase", d>> # <<"purchase", e>>
      BY <1>2 DEF Keys
    <2>2. BuysPoints(d)' <=> BuysPoints(d)
      BY <1>2 DEF BuysPoints
    <2>. QED BY <2>1, <2>2, UntouchedDoesNotStray
  <1>3. ASSUME NEW r \in RedemptionIds PROVE ~RewardStray(r) /\ ~IofStray(r)
    <2>1. /\ <<"reward", r>> \in Keys /\ <<"reward", r>> # <<"purchase", e>>
          /\ <<"iof", r>> \in Keys /\ <<"iof", r>> # <<"purchase", e>>
      BY DEF Keys
    <2>. QED BY <2>1, UntouchedDoesNotStray
  <1>. QED BY <1>1, <1>2, <1>3 DEF NoNewStrays

LEMMA SavedEntriesDoNotStray ==
  ASSUME BookInv, NEW e \in EntryIds, NEW form \in EntryForms, NEW linked,
         SaveEntry(e, form, linked), linked = (entries[e] # None /\ entries[e].funding)
  PROVE  NoNewStrays
  <1>1. PICK entry : entry = Entry(form, form.cash > 0)
    OBVIOUS
  <1>2. entry \in PointsEntry /\ (entry.purchase <=> form.cash > 0) /\ form.cash \in Nat
    BY <1>1, EntryIsEntry, FormsAreValid
  <1>3. PICK m : m = Funded(e, form, linked)
    OBVIOUS
  <1>4. /\ entries' = [entries EXCEPT ![e] = entry]
        /\ movements' = [movements EXCEPT ![<<"purchase", e>>] = m]
        /\ ops' = ops /\ redemptions' = redemptions
    BY <1>1, <1>3 DEF SaveEntry
  <1>5. /\ entries \in [EntryIds -> PointsEntry \union {None}]
        /\ movements \in [Keys -> Movement \union {None}]
        /\ \A d \in Live(entries) : entries[d].funding <=> entries[d].purchase
        /\ Live(entries) = {d \in EntryIds : entries[d] # None}
    BY Tables DEF BookInv, Says, HoldingsTypeOK
  <1>6. <<"purchase", e>> \in Keys
    BY DEF Keys
  <1>7. /\ entries'[e] = entry /\ \A d \in EntryIds : d # e => entries'[d] = entries[d]
        /\ movements'[<<"purchase", e>>] = m
        /\ \A k \in Keys : k # <<"purchase", e>> => movements'[k] = movements[k]
    BY ONLY <1>4, <1>5, <1>6
  <1>8. ~PurchaseStray(e)
    <2>1. CASE form.cash > 0
      BY <1>2, <1>7, <2>1, RowsAreSomething DEF PurchaseStray, BuysPoints
    <2>2. CASE ~(form.cash > 0)
      <3>1. form.cash = 0
        BY <1>2, <2>2
      <3>2. linked <=> BuysPoints(e)
        BY <1>5 DEF BuysPoints
      <3>3. m = IF linked THEN None ELSE movements[<<"purchase", e>>]
        BY <1>3, <2>2, <3>1 DEF Funded
      <3>. QED BY <1>7, <3>2, <3>3 DEF PurchaseStray
    <2>. QED BY <2>1, <2>2
  <1>9. \A o \in OpIds : PaysFor(o) => PaysFor(o)'
    BY <1>4 DEF PaysFor, WantsMovement
  <1>. QED BY <1>4, <1>7, <1>8, <1>9, EntriesDoNotStray

LEMMA DeletedEntriesDoNotStray ==
  ASSUME BookInv, NEW e \in EntryIds, NEW seen, DeleteEntry(e, seen),
         \A r \in Live(redemptions) : redemptions[r].entry # e,
         seen.funding = (entries[e] # None /\ entries[e].funding)
  PROVE  NoNewStrays
  <1>1. /\ entries' = [entries EXCEPT ![e] = None]
        /\ movements' = IF seen.funding THEN [movements EXCEPT ![<<"purchase", e>>] = None]
                        ELSE movements
        /\ redemptions' = redemptions
    BY DEF DeleteEntry
  <1>2. /\ entries \in [EntryIds -> PointsEntry \union {None}]
        /\ movements \in [Keys -> Movement \union {None}]
        /\ ops \in [OpIds -> Operation \union {None}]
        /\ \A d \in Live(entries) : entries[d].funding <=> entries[d].purchase
        /\ Live(entries) = {d \in EntryIds : entries[d] # None}
    BY Tables DEF BookInv, Says, HoldingsTypeOK
  <1>3. <<"purchase", e>> \in Keys
    BY DEF Keys
  <1>4. /\ \A d \in EntryIds : d # e => entries'[d] = entries[d]
        /\ \A k \in Keys : k # <<"purchase", e>> => movements'[k] = movements[k]
        /\ movements'[<<"purchase", e>>]
              = IF seen.funding THEN None ELSE movements[<<"purchase", e>>]
    BY ONLY <1>1, <1>2, <1>3
  <1>5. seen.funding <=> BuysPoints(e)
    BY <1>2 DEF BuysPoints
  <1>6. ~PurchaseStray(e)
    BY <1>4, <1>5 DEF PurchaseStray
  <1>7. ASSUME NEW o \in OpIds, PaysFor(o) PROVE PaysFor(o)'
    <2>1. /\ ops'[o] = None <=> ops[o] = None
          /\ ops[o] # None =>
                ops'[o] = IF ops[o].entry = e THEN [ops[o] EXCEPT !.entry = None] ELSE ops[o]
      BY DeleteEntryKeeps
    <2>2. ops[o] # None /\ ops[o] \in Operation
      BY <1>2, <1>7 DEF PaysFor
    <2>3. ops'[o].kind = ops[o].kind /\ ops'[o].program = ops[o].program
      BY <2>1, <2>2 DEF Operation
    <2>. QED BY <1>7, <2>1, <2>2, <2>3 DEF PaysFor, WantsMovement
  <1>. QED BY <1>1, <1>4, <1>6, <1>7, EntriesDoNotStray

LEMMA ConversionsDoNotStray ==
  ASSUME BookInv, NEW r \in RedemptionIds, NEW form \in RedemptionForms, SaveRedemption(r, form)
  PROVE  NoNewStrays
  <1>1. PICK e \in EntryIds, red \in Redemption, m \in Movement \union {None} :
            /\ red.program = form.program /\ red.points = form.points /\ red.target = form.target
            /\ red.iof = form.iof /\ red.by = form.by /\ red.entry = e
            /\ form.program \in Programs /\ form.points \in PosNat /\ form.target \in PosNat
            /\ redemptions[r] # None => e = redemptions[r].entry /\ issued'.entry = issued.entry
            /\ redemptions[r] = None => e = issued.entry + 1 /\ issued'.entry = e
            /\ Balance(entries, form.program) + GivenBack(redemptions[r], form.program) >= form.points
            /\ redemptions' = [redemptions EXCEPT ![r] = red]
            /\ entries' = [entries EXCEPT ![e] = Debit(form.program, form.points)]
            /\ movements' = [movements EXCEPT
                  ![<<"reward", r>>] = [debit |-> FALSE, amount |-> form.target],
                  ![<<"iof", r>>] = m]
            /\ form.by = "account" => m = [debit |-> TRUE, amount |-> form.iof]
            /\ form.by # "account" /\ redemptions[r] # None => m = None
            /\ form.by # "account" /\ redemptions[r] = None => m = movements[<<"iof", r>>]
            /\ issued'.op = issued.op /\ issued' \in [op : OpIds \union {0}, entry : EntryIds \union {0}]
            /\ UNCHANGED <<ops, opening, rates, base>>
    BY SavedRedemption
  <1>2. /\ entries \in [EntryIds -> PointsEntry \union {None}]
        /\ movements \in [Keys -> Movement \union {None}]
        /\ redemptions \in [RedemptionIds -> Redemption \union {None}]
        /\ Live(redemptions) = {q \in RedemptionIds : redemptions[q] # None}
        /\ issued.entry \in Nat /\ EntryIds \subseteq Nat
    BY Tables DEF BookInv, HoldingsTypeOK
  <1>3. /\ <<"reward", r>> \in Keys /\ <<"iof", r>> \in Keys /\ <<"reward", r>> # <<"iof", r>>
    BY DEF Keys
  <1>4. /\ \A k \in Keys : k # <<"reward", r>> /\ k # <<"iof", r>> => movements'[k] = movements[k]
        /\ movements'[<<"iof", r>>] = m
    BY ONLY <1>1, <1>2, <1>3
  <1>5. /\ redemptions'[r] = red /\ red # None
        /\ \A q \in RedemptionIds : q # r => redemptions'[q] = redemptions[q]
        /\ \A d \in EntryIds : d # e => entries'[d] = entries[d]
    BY <1>1, <1>2, RowsAreSomething
  <1>6. ~BuysPoints(e)
    <2>1. CASE redemptions[r] # None
      BY <1>1, <1>2, <2>1, OwnedAreGiven DEF BuysPoints
    <2>2. CASE redemptions[r] = None
      <3>1. ~(e =< issued.entry)
        BY <1>1, <1>2, <2>2
      <3>. QED BY <3>1, OwnedAreGiven DEF BuysPoints
    <2>. QED BY <2>1, <2>2
  <1>7. ASSUME NEW o \in OpIds PROVE ~OperationStray(o)
    <2>1. /\ <<"operation", o>> \in Keys /\ <<"operation", o>> # <<"reward", r>>
          /\ <<"operation", o>> # <<"iof", r>>
      BY DEF Keys
    <2>2. PaysFor(o) => PaysFor(o)'
      BY <1>1 DEF PaysFor, WantsMovement
    <2>. QED BY <1>4, <2>1, <2>2, UntouchedDoesNotStray
  <1>8. ASSUME NEW d \in EntryIds PROVE ~PurchaseStray(d)
    <2>1. /\ <<"purchase", d>> \in Keys /\ <<"purchase", d>> # <<"reward", r>>
          /\ <<"purchase", d>> # <<"iof", r>>
      BY DEF Keys
    <2>2. BuysPoints(d) => BuysPoints(d)'
      BY <1>5, <1>6 DEF BuysPoints
    <2>. QED BY <1>4, <2>1, <2>2, UntouchedDoesNotStray
  <1>9. ASSUME NEW q \in RedemptionIds, q # r PROVE ~RewardStray(q) /\ ~IofStray(q)
    <2>1. /\ <<"reward", q>> \in Keys /\ <<"iof", q>> \in Keys
          /\ <<"reward", q>> # <<"reward", r>> /\ <<"reward", q>> # <<"iof", r>>
          /\ <<"iof", q>> # <<"reward", r>> /\ <<"iof", q>> # <<"iof", r>>
      BY <1>9 DEF Keys
    <2>. QED BY <1>4, <1>5, <1>9, <2>1, UntouchedDoesNotStray
  <1>10. ~RewardStray(r)
    BY <1>5 DEF RewardStray
  <1>11. ~IofStray(r)
    <2>1. CASE form.by = "account"
      BY <1>1, <1>5, <2>1 DEF IofStray
    <2>2. CASE form.by # "account"
      BY <1>1, <1>4, <2>2 DEF IofStray
    <2>. QED BY <2>1, <2>2
  <1>. QED BY <1>7, <1>8, <1>9, <1>10, <1>11 DEF NoNewStrays

LEMMA NothingStrays ==
  ASSUME HoldingsInv, HoldingsNext, ~(Resumes /\ Stale)
  PROVE  NoNewStrays
  <1>0. BookInv
    BY DEF HoldingsInv
  <1>1. CASE SavesOperation
    <2>1. PICK o \in OpIds, seen \in Operation \union {None}, form \in OperationForms :
             Knows(o, seen) /\ SaveOperation(o, seen, form) /\ seen = ops[o]
      BY <1>1 DEF SavesOperation, OverStale
    <2>2. Knows(o, ops[o]) /\ SaveOperation(o, ops[o], form)
      BY <2>1
    <2>3. PICK op : SavesAs(o, ops[o], form, op)
      BY <1>0, <2>2, SavedOperation
    <2>. QED BY <1>0, <2>2, <2>3, SavedOperationsDoNotStray
  <1>2. CASE DeletesOperation
    <2>1. PICK o \in OpIds, seen \in Operation :
             Knows(o, seen) /\ DeleteOperation(o, seen) /\ seen = ops[o]
      BY <1>2 DEF DeletesOperation, OverStale
    <2>2. Knows(o, ops[o]) /\ DeleteOperation(o, ops[o]) /\ ops[o] # None
      BY <2>1, RowsAreSomething
    <2>. QED BY <1>0, <2>2, DeletedOperationsDoNotStray
  <1>3. CASE SavesEntry
    BY <1>0, <1>3, SavedEntriesDoNotStray DEF SavesEntry, LinkIsSeen
  <1>4. CASE DeletesEntry
    BY <1>0, <1>4, DeletedEntriesDoNotStray DEF DeletesEntry, LinkIsSeen
  <1>5. CASE Converts
    BY <1>0, <1>5, ConversionsDoNotStray DEF Converts
  <1>6. CASE LeavesTheBooks
    <2>1. UNCHANGED <<ops, movements, entries, redemptions>>
      BY <1>6 DEF LeavesTheBooks
    <2>2. \A o \in OpIds : PaysFor(o) => PaysFor(o)'
      BY <2>1 DEF PaysFor, WantsMovement
    <2>3. \A e \in EntryIds : BuysPoints(e) => BuysPoints(e)'
      BY <2>1 DEF BuysPoints
    <2>. QED BY <2>1, <2>2, <2>3, UntouchedDoesNotStray DEF NoNewStrays
  <1>. QED BY <1>1, <1>2, <1>3, <1>4, <1>5, <1>6, StepsAre

\* Every operation, bought entry and conversion has the bank side it says it
\* has, of its own amount, and nothing is left of one that no longer says so,
\* but after a save over a row another tab changed, or the purchase an
\* operation's entry was made into (investments/services.py,
\* sync_investment_ledger; banking/services.py).
THEOREM BooksAreBacked == HoldingsSpec => BankSideHolds
  <1>1. HoldingsInv => BankSideIsBacked
    BY DEF HoldingsInv, BookInv
  <1>2. ASSUME HoldingsInv, HoldingsInv', [HoldingsNext]_holdingVars
        PROVE  [\A k \in Strays' \ Strays :
                   \/ Resumes /\ Stale
                   \/ k[1] = "purchase" /\ Bought(k[2])]_holdingVars
    <2>1. CASE UNCHANGED holdingVars
      BY <2>1
    <2>2. CASE HoldingsNext
      <3>. SUFFICES ASSUME NEW k \in Strays' \ Strays, ~(Resumes /\ Stale)
                    PROVE  k[1] = "purchase" /\ Bought(k[2])
        OBVIOUS
      <3>1. NoNewStrays
        BY <1>2, <2>2, NothingStrays
      <3>2. HoldingsTypeOK /\ HoldingsTypeOK'
        BY <1>2 DEF HoldingsInv, BookInv
      <3>3. PICK e \in EntryIds : k = <<"purchase", e>> /\ PurchaseStray(e)
        BY <3>1, <3>2, StraysAre DEF NoNewStrays
      <3>4. k[1] = "purchase" /\ k[2] = e
        BY <3>3
      <3>. QED BY <3>1, <3>3, <3>4 DEF NoNewStrays
    <2>. QED BY <1>2, <2>1, <2>2
  <1>. QED BY <1>1, <1>2, HoldingsAreWellFormed, PTL DEF BankSideHolds, NothingIsLeftBehind, HoldingsSpec
-----------------------------------------------------------------------------
(* Holdings: the rate evidence.                                            *)

LEMMA FiguresKeepTheRate ==
  ASSUME HoldingsInv, HoldingsNext, NEW o \in OpIds
  PROVE  KeepsEvidence(o) \/ (ops'[o].kind = "YIELD" /\ ~IsUnits(ops'[o].pair))
  <1>0. BookInv
    BY DEF HoldingsInv
  <1>. SUFFICES ASSUME ops[o] # None, ops'[o] # None, ops[o].fx.rate # None,
                       Figures(ops'[o]) = Figures(ops[o]), ~(Resumes /\ Stale)
                PROVE  ops'[o].fx = ops[o].fx \/ (ops'[o].kind = "YIELD" /\ ~IsUnits(ops'[o].pair))
    BY DEF KeepsEvidence
  <1>1. CASE SavesOperation
    <2>1. PICK q \in OpIds, seen \in Operation \union {None}, form \in OperationForms :
             Knows(q, seen) /\ SaveOperation(q, seen, form) /\ seen = ops[q]
      BY <1>1 DEF SavesOperation, OverStale
    <2>2. PICK op : SavesAs(q, seen, form, op)
      BY <1>0, <2>1, SavedOperation
    <2>3. ops'[q] = op /\ \A x \in OpIds : x # q => ops'[x] = ops[x]
      BY <1>0, <2>1, <2>2, SavesFacts
    <2>4. form.capture => seen.fx.rate = None
      BY <2>1 DEF SaveOperation, MayCapture
    <2>5. /\ seen # None /\ ~Refreshes(seen, form, Figures(op)) => op.fx = seen.fx
          /\ op.pair = form.pair /\ op.kind = form.kind
      BY <2>2 DEF SavesAs
    <2>6. CASE q = o
      <3>1. ~form.capture /\ Figures(op) = Figures(seen) /\ seen # None
        BY <2>1, <2>3, <2>4, <2>6
      <3>2. CASE form.ending
        BY <2>3, <2>5, <2>6, <3>2, FormsAreValid
      <3>3. CASE ~form.ending
        <4>1. ~Refreshes(seen, form, Figures(op))
          BY <3>1, <3>3 DEF Refreshes
        <4>. QED BY <2>1, <2>3, <2>5, <2>6, <3>1, <4>1
      <3>. QED BY <3>2, <3>3
    <2>. QED BY <2>3, <2>6
  <1>2. CASE DeletesOperation
    <2>1. PICK q \in OpIds, seen \in Operation : Knows(q, seen) /\ DeleteOperation(q, seen)
      BY <1>2 DEF DeletesOperation
    <2>2. ops' = [ops EXCEPT ![q] = None] /\ ops \in [OpIds -> Operation \union {None}]
      BY <1>0, <2>1 DEF DeleteOperation, BookInv, HoldingsTypeOK
    <2>3. CASE q = o
      BY <2>2, <2>3
    <2>. QED BY <2>2, <2>3
  <1>3. CASE DeletesEntry
    <2>1. PICK e \in EntryIds, seen \in PointsEntry :
             /\ DeleteEntry(e, seen)
             /\ \A r \in Live(redemptions) : redemptions[r].entry # e
      BY <1>3 DEF DeletesEntry
    <2>2. ops'[o] = IF ops[o].entry = e THEN [ops[o] EXCEPT !.entry = None] ELSE ops[o]
      BY <1>0, <2>1, DeleteEntryKeeps
    <2>3. ops[o] \in Operation
      BY <1>0 DEF BookInv, HoldingsTypeOK
    <2>. QED BY <2>2, <2>3 DEF Operation
  <1>4. CASE SavesEntry \/ Converts \/ LeavesTheBooks
    <2>1. ops' = ops
      BY <1>0, <1>4, SaveRedemptionKeeps DEF SavesEntry, SaveEntry, Converts, LeavesTheBooks
    <2>. QED BY <2>1
  <1>. QED BY <1>1, <1>2, <1>3, <1>4, StepsAre

\* What an operation was worth stays: no rate declared later, no change of the
\* reporting currency and no edit that keeps its figures changes the rate it
\* was recorded at, but for a yield declared by its ending balance, or a save
\* over a row another tab changed (investments/services.py,
\* refresh_fx_snapshot; forms of operations).
THEOREM RatesStayRecorded == HoldingsSpec => HistoryKeepsItsRate
  <1>1. ASSUME HoldingsInv, [HoldingsNext]_holdingVars
        PROVE  [\A o \in OpIds :
                  \/ KeepsEvidence(o)
                  \/ ops'[o].kind = "YIELD" /\ ~IsUnits(ops'[o].pair)]_holdingVars
    BY <1>1, FiguresKeepTheRate
  <1>. QED BY <1>1, HoldingsAreWellFormed, PTL DEF HistoryKeepsItsRate, HoldingsSpec
-----------------------------------------------------------------------------
(* Holdings: the positions.                                                *)

\* The replay of a position reads the dates, kinds and quantities of its
\* operations, and nothing else.
LEMMA CoverIsOfThePosition ==
  ASSUME NEW os \in [OpIds -> Operation \union {None}],
         NEW ns \in [OpIds -> Operation \union {None}],
         NEW p \in Pairs, NEW start,
         Of(ns, p) = Of(os, p),
         \A x \in Of(os, p) : /\ ns[x].date = os[x].date /\ ns[x].kind = os[x].kind
                              /\ ns[x].quantity = os[x].quantity,
         Covered(os, start, p)
  PROVE  Covered(ns, start, p)
  <1>. SUFFICES ASSUME NEW o \in Of(ns, p) PROVE Fits(ns, start, o)
    BY DEF Covered
  <1>1. ns[o].pair = p /\ os[o].pair = p /\ o \in Of(os, p)
    BY DEF Of
  <1>2. PICK E : E = EarlierOps(os, p, os[o].date, o)
    OBVIOUS
  <1>3. EarlierOps(ns, p, ns[o].date, o) = E
    BY <1>1, <1>2 DEF EarlierOps
  <1>4. E \subseteq Of(os, p) /\ Of(os, p) \subseteq OpIds
    BY <1>2 DEF EarlierOps, Of, Live
  <1>5. PICK f : f = Moves(os)
    OBVIOUS
  <1>6. PICK g : g = Moves(ns)
    OBVIOUS
  <1>7. \A x \in E : g[x] = f[x] /\ g[x] \in Int
    <2>. SUFFICES ASSUME NEW x \in E PROVE g[x] = f[x] /\ g[x] \in Int
      OBVIOUS
    <2>1. x \in Of(os, p) /\ x \in Of(ns, p) /\ x \in Live(os) /\ x \in Live(ns)
      BY <1>4 DEF Of
    <2>2. os[x] \in Operation
      BY <1>4 DEF Live, Of
    <2>3. os[x].quantity \in Int /\ ns[x].quantity = os[x].quantity /\ ns[x].kind = os[x].kind
      BY <2>1, <2>2 DEF Operation, PosNat
    <2>4. f[x] = Signed(os[x], os[x].quantity) /\ g[x] = Signed(ns[x], ns[x].quantity)
      BY <1>5, <1>6, <2>1 DEF Moves
    <2>. QED BY <2>3, <2>4 DEF Signed
  <1>8. IsFiniteSet(E)
    BY <1>4, IdsAreFinite, FS_Subset
  <1>9. SumFunctionOnSet(g, E) = SumFunctionOnSet(f, E)
    BY <1>7, <1>8, SumOfSame
  <1>10. SumOver(E, Moves(ns)) = SumOver(E, Moves(os))
    BY <1>5, <1>6, <1>9 DEF SumOver
  <1>11. Fits(os, start, o)
    BY <1>1 DEF Covered
  <1>12. ns[o].date = os[o].date /\ ns[o].kind = os[o].kind /\ ns[o].quantity = os[o].quantity
    BY <1>1
  <1>. QED BY <1>1, <1>2, <1>3, <1>10, <1>11, <1>12 DEF Fits

\* A change of one operation leaves the positions it is not of.
LEMMA OtherPositionsStay ==
  ASSUME NEW os \in [OpIds -> Operation \union {None}],
         NEW ns \in [OpIds -> Operation \union {None}],
         NEW p \in Pairs, NEW start, NEW q,
         \A x \in OpIds : x # q => ns[x] = os[x],
         q \notin Of(os, p), q \notin Of(ns, p),
         Covered(os, start, p)
  PROVE  Covered(ns, start, p)
  <1>1. Of(ns, p) = Of(os, p)
    BY DEF Of, Live
  <1>2. \A x \in Of(os, p) : ns[x] = os[x]
    BY DEF Of, Live
  <1>. QED BY <1>1, <1>2, CoverIsOfThePosition

LEMMA PositionsAreCovered ==
  ASSUME HoldingsInv, HoldingsInv', HoldingsNext, NEW p \in Pairs, Covered(ops, opening[p], p)
  PROVE  \/ Covered(ops', opening'[p], p)
         \/ Resumes /\ InFlight("opening") /\ ~MayOpen(p, request.seen)
         \/ Resumes /\ Stale /\ InFlight("operation") /\ p # request.seen.pair
  <1>0. BookInv
    BY DEF HoldingsInv
  <1>1. /\ ops \in [OpIds -> Operation \union {None}]
        /\ ops' \in [OpIds -> Operation \union {None}]
        /\ opening \in [Pairs -> Opening \union {NoOpening}]
    BY DEF HoldingsInv, BookInv, HoldingsTypeOK
  <1>2. CASE SavesOperation
    <2>1. PICK q \in OpIds, seen \in Operation \union {None}, form \in OperationForms :
             Knows(q, seen) /\ SaveOperation(q, seen, form)
      BY <1>2 DEF SavesOperation
    <2>2. PICK op : SavesAs(q, seen, form, op)
      BY <1>0, <2>1, SavedOperation
    <2>3. ops'[q] = op /\ op # None /\ \A x \in OpIds : x # q => ops'[x] = ops[x]
      BY <1>0, <2>1, <2>2, SavesFacts
    <2>4. /\ \A r \in Disturbed(q, form) : Covered(ops', opening[r], r)
          /\ op.pair = form.pair /\ opening' = opening
      BY <2>2 DEF SavesAs
    <2>5. CASE p \in Disturbed(q, form)
      BY <2>4, <2>5
    <2>6. CASE p \notin Disturbed(q, form)
      <3>1. q \notin Of(ops, p) /\ q \notin Of(ops', p)
        BY <2>3, <2>4, <2>6 DEF Disturbed, Of, Live
      <3>2. Covered(ops', opening[p], p)
        BY <1>1, <2>3, <3>1, OtherPositionsStay
      <3>. QED BY <2>4, <3>2
    <2>. QED BY <2>5, <2>6
  <1>3. CASE DeletesOperation
    <2>1. PICK q \in OpIds, seen \in Operation :
             DeleteOperation(q, seen) /\ (seen = ops[q] \/ OverStale(seen))
      BY <1>3 DEF DeletesOperation
    <2>2. /\ ops' = [ops EXCEPT ![q] = None] /\ opening' = opening
          /\ Covered(ops', opening[seen.pair], seen.pair)
      BY <2>1 DEF DeleteOperation
    <2>3. CASE p = seen.pair
      BY <2>2, <2>3
    <2>4. CASE p # seen.pair /\ seen = ops[q]
      <3>1. q \notin Of(ops, p) /\ q \notin Of(ops', p) /\ \A x \in OpIds : x # q => ops'[x] = ops[x]
        BY <1>1, <2>2, <2>4 DEF Of, Live
      <3>2. Covered(ops', opening[p], p)
        BY <1>1, <3>1, OtherPositionsStay
      <3>. QED BY <2>2, <3>2
    <2>5. CASE p # seen.pair /\ OverStale(seen)
      BY <2>5 DEF OverStale
    <2>. QED BY <2>1, <2>3, <2>4, <2>5
  <1>4. CASE DeletesEntry
    <2>1. PICK e \in EntryIds, seen \in PointsEntry :
             /\ DeleteEntry(e, seen)
             /\ \A r \in Live(redemptions) : redemptions[r].entry # e
      BY <1>4 DEF DeletesEntry
    <2>2. \A o \in OpIds :
             /\ ops'[o] = None <=> ops[o] = None
             /\ ops[o] # None =>
                   ops'[o] = IF ops[o].entry = e THEN [ops[o] EXCEPT !.entry = None] ELSE ops[o]
      BY <1>0, <2>1, DeleteEntryKeeps
    <2>3. \A o \in OpIds : ops[o] # None =>
             /\ ops'[o].pair = ops[o].pair /\ ops'[o].date = ops[o].date
             /\ ops'[o].kind = ops[o].kind /\ ops'[o].quantity = ops[o].quantity
      <3>. SUFFICES ASSUME NEW o \in OpIds, ops[o] # None
                    PROVE  /\ ops'[o].pair = ops[o].pair /\ ops'[o].date = ops[o].date
                           /\ ops'[o].kind = ops[o].kind /\ ops'[o].quantity = ops[o].quantity
        OBVIOUS
      <3>1. ops[o] \in Operation
        BY <1>1
      <3>. QED BY <2>2, <3>1 DEF Operation
    <2>4. Of(ops', p) = Of(ops, p) /\ Of(ops, p) \subseteq OpIds /\ \A o \in Of(ops, p) : ops[o] # None
      BY <1>1, <2>2, <2>3 DEF Of, Live
    <2>5. Covered(ops', opening[p], p)
      BY <1>1, <2>3, <2>4, CoverIsOfThePosition
    <2>. QED BY <2>1, <2>5 DEF DeleteEntry
  <1>5. CASE SavesEntry \/ Converts
    <2>1. ops' = ops /\ opening' = opening
      BY <1>0, <1>5, SaveRedemptionKeeps DEF SavesEntry, SaveEntry, Converts, SaveRedemption
    <2>. QED BY <2>1
  <1>6. CASE LeavesTheBooks
    <2>1. CASE opening' = opening
      BY <1>6, <2>1 DEF LeavesTheBooks
    <2>2. CASE opening' # opening
      <3>1. /\ request # None /\ request.of = "opening" /\ request' = None /\ ops' = ops
            /\ opening' = [opening EXCEPT ![request.id] = request.seen]
        BY <1>6, <2>2 DEF LeavesTheBooks
      <3>2. Resumes /\ InFlight("opening")
        BY <3>1 DEF Resumes, InFlight
      <3>3. CASE p # request.id
        BY <1>1, <3>1, <3>3
      <3>4. CASE p = request.id /\ MayOpen(p, request.seen)
        <4>1. PICK form : form = request.seen
          OBVIOUS
        <4>2. opening'[p] = form
          BY <1>1, <3>1, <3>4, <4>1
        <4>3. ASSUME NEW o \in Of(ops, p) PROVE Fits(ops, form, o)
          <5>1. /\ form.quantity = opening[p].quantity /\ form.price = opening[p].price
                /\ form.date # Undated => form.date =< ops[o].date
            BY <3>4, <4>1, <4>3 DEF MayOpen
          <5>2. Fits(ops, opening[p], o)
            BY DEF Covered
          <5>. QED BY <5>1, <5>2 DEF Fits
        <4>. QED BY <3>1, <4>2, <4>3 DEF Covered
      <3>. QED BY <3>2, <3>3, <3>4
    <2>. QED BY <2>1, <2>2
  <1>. QED BY <1>2, <1>3, <1>4, <1>5, <1>6, StepsAre

\* A position that is never sold short stays so, whichever of its operations
\* is recorded, edited, moved or deleted, but for a deletion of a row that
\* moved to it meanwhile and an opening checked before the operations it has
\* when it is saved (investments/services.py, forms/setup.py).
THEOREM PositionsAreNeverSoldShort == HoldingsSpec => PositionsStayCovered
  <1>1. ASSUME HoldingsInv, HoldingsInv', [HoldingsNext]_holdingVars
        PROVE  [\A p \in Pairs :
                   Covered(ops, opening[p], p) =>
                      \/ Covered(ops', opening'[p], p)
                      \/ Resumes /\ InFlight("opening") /\ ~MayOpen(p, request.seen)
                      \/ Resumes /\ Stale /\ InFlight("operation") /\ p # request.seen.pair]_holdingVars
    BY <1>1, PositionsAreCovered
  <1>. QED BY <1>1, HoldingsAreWellFormed, PTL DEF PositionsStayCovered, HoldingsSpec
-----------------------------------------------------------------------------
(* Holdings: the points.                                                   *)

Entries == [EntryIds -> PointsEntry \union {None}]

LEMMA EffectIsInt ==
  ASSUME NEW entry \in PointsEntry \union {None}, NEW p
  PROVE  /\ Effect(entry, p) \in Int
         /\ entry = None \/ entry.program # p => Effect(entry, p) = 0
         /\ entry # None /\ ~entry.credit /\ entry.program = p =>
               Effect(entry, p) = -entry.amount /\ entry.amount \in PosNat
  BY DEF Effect, PointsEntry, PosNat

LEMMA BalanceIsInt ==
  ASSUME NEW es \in Entries, NEW p PROVE Balance(es, p) \in Int
  <1>1. PICK f : f = [d \in EntryIds |-> Effect(es[d], p)]
    OBVIOUS
  <1>2. \A d \in EntryIds : f[d] \in Int
    BY <1>1, EffectIsInt DEF Entries
  <1>3. SumFunctionOnSet(f, EntryIds) \in Int
    BY <1>2, IdsAreFinite, SumIsInt
  <1>. QED BY <1>1, <1>3 DEF Balance, SumOver

\* The balance of a programme moves by what the one changed entry adds.
LEMMA BalanceMoves ==
  ASSUME NEW es \in Entries, NEW ns \in Entries, NEW e \in EntryIds, NEW p,
         \A d \in EntryIds : d # e => ns[d] = es[d]
  PROVE  /\ Balance(es, p) \in Int
         /\ Balance(ns, p) = Balance(es, p) - Effect(es[e], p) + Effect(ns[e], p)
  <1>1. PICK f : f = [d \in EntryIds |-> Effect(es[d], p)]
    OBVIOUS
  <1>2. PICK g : g = [d \in EntryIds |-> Effect(ns[d], p)]
    OBVIOUS
  <1>3. \A d \in EntryIds : f[d] = Effect(es[d], p) /\ g[d] = Effect(ns[d], p)
    BY <1>1, <1>2
  <1>4. \A d \in EntryIds : Effect(es[d], p) \in Int /\ Effect(ns[d], p) \in Int
    BY EffectIsInt DEF Entries
  <1>5. PICK rest : rest = EntryIds \ {e}
    OBVIOUS
  <1>6. IsFiniteSet(EntryIds) /\ IsFiniteSet(rest) /\ rest \in SUBSET EntryIds
    BY <1>5, IdsAreFinite, FS_Subset
  <1>7. /\ SumFunctionOnSet(f, EntryIds) = f[e] + SumFunctionOnSet(f, rest)
        /\ SumFunctionOnSet(g, EntryIds) = g[e] + SumFunctionOnSet(g, rest)
    BY <1>3, <1>4, <1>5, <1>6, SumFromAny
  <1>8. \A d \in rest : f[d] = g[d] /\ f[d] \in Int
    BY <1>3, <1>4, <1>5
  <1>9. SumFunctionOnSet(f, rest) = SumFunctionOnSet(g, rest)
    BY <1>6, <1>8, SumOfSame
  <1>10. SumFunctionOnSet(f, rest) \in Int
    BY <1>6, <1>8, SumIsInt
  <1>11. Balance(es, p) = SumFunctionOnSet(f, EntryIds) /\ Balance(ns, p) = SumFunctionOnSet(g, EntryIds)
    BY <1>1, <1>2 DEF Balance, SumOver
  <1>12. f[e] \in Int /\ g[e] \in Int /\ f[e] = Effect(es[e], p) /\ g[e] = Effect(ns[e], p)
    BY <1>3, <1>4
  <1>. QED BY <1>7, <1>9, <1>10, <1>11, <1>12

\* Taking points, when the ones taken before come back first.
LEMMA TakingHolds ==
  ASSUME NEW es \in Entries, NEW ns \in Entries, NEW e \in EntryIds,
         \A d \in EntryIds : d # e => ns[d] = es[d],
         es[e] = None \/ ~es[e].credit,
         NEW program \in Programs, NEW points \in PosNat, ns[e] = Debit(program, points),
         Balance(es, program)
           + (IF es[e] # None /\ es[e].program = program THEN es[e].amount ELSE 0) >= points,
         NEW p \in Programs
  PROVE  Balance(ns, p) >= 0 \/ Balance(ns, p) >= Balance(es, p)
  <1>1. /\ Balance(es, p) \in Int
        /\ Balance(ns, p) = Balance(es, p) - Effect(es[e], p) + Effect(ns[e], p)
    BY BalanceMoves
  <1>2. es[e] \in PointsEntry \union {None}
    BY DEF Entries
  <1>3. PICK old : old = es[e]
    OBVIOUS
  <1>4. /\ ns[e] \in PointsEntry /\ ns[e] # None /\ ~ns[e].credit /\ ns[e].program = program
        /\ ns[e].amount = points
    BY DebitsAreEntries
  <1>5. Effect(old, p) \in Int /\ Effect(old, p) =< 0
    BY <1>2, <1>3, EffectIsInt DEF PosNat
  <1>6. CASE p # program
    <2>1. Effect(ns[e], p) = 0
      BY <1>4, <1>6, EffectIsInt
    <2>. QED BY <1>1, <1>3, <1>5, <2>1
  <1>7. CASE p = program
    <2>1. Effect(ns[e], p) = -points
      BY <1>4, <1>7, EffectIsInt
    <2>2. -Effect(old, p) = IF old # None /\ old.program = program THEN old.amount ELSE 0
      BY <1>2, <1>3, <1>7, EffectIsInt DEF PosNat
    <2>3. Balance(es, p) - Effect(old, p) >= points
      <3>1. PICK back : back = IF old # None /\ old.program = program THEN old.amount ELSE 0
        OBVIOUS
      <3>2. Balance(es, p) + back >= points /\ back = -Effect(old, p)
        BY <1>3, <1>7, <2>2, <3>1
      <3>. QED BY <1>1, <1>5, <3>2
    <2>4. points \in Int
      BY DEF PosNat
    <2>. QED BY <1>1, <1>3, <1>5, <2>1, <2>3, <2>4
  <1>. QED BY <1>6, <1>7

\* Giving points back takes none.
LEMMA GivingBackHolds ==
  ASSUME NEW es \in Entries, NEW ns \in Entries, NEW e \in EntryIds,
         \A d \in EntryIds : d # e => ns[d] = es[d],
         es[e] = None \/ ~es[e].credit, ns[e] = None, NEW p \in Programs
  PROVE  Balance(ns, p) >= Balance(es, p)
  <1>1. /\ Balance(es, p) \in Int
        /\ Balance(ns, p) = Balance(es, p) - Effect(es[e], p) + Effect(ns[e], p)
    BY BalanceMoves
  <1>2. PICK old \in PointsEntry \union {None} : old = es[e]
    BY DEF Entries
  <1>3. Effect(old, p) \in Int /\ Effect(old, p) =< 0
    BY <1>2, EffectIsInt DEF PosNat
  <1>4. Effect(ns[e], p) = 0
    BY EffectIsInt
  <1>. QED BY <1>1, <1>2, <1>3, <1>4

\* Only rows edited by hand may take a programme below what it holds.
TakenByHand ==
    \/ /\ redemptions' = redemptions
       /\ \A o \in OpIds : ops'[o] # None =>
             /\ ops[o] # None
             /\ ops'[o].program = ops[o].program /\ ops'[o].points = ops[o].points
    \/ \E o \in OpIds : SpendsOwn(o) /\ ops'[o] # ops[o]

LEMMA SavedOperationsHold ==
  ASSUME BookInv, NEW o \in OpIds, NEW seen, Knows(o, seen), NEW form, NEW op,
         SavesAs(o, seen, form, op), NEW p \in Programs
  PROVE  TakenByHand \/ Balance(entries', p) >= 0 \/ Balance(entries', p) >= Balance(entries, p)
  <1>1. PICK linked : linked = LinkOf(seen)
    OBVIOUS
  <1>2. /\ ops'[o] = op /\ \A q \in OpIds : q # o => ops'[q] = ops[q]
        /\ redemptions' = redemptions
        /\ linked # None => /\ ops[o] # None /\ ops[o].entry = linked
                            /\ linked \in EntryIds /\ entries[linked] # None
        /\ op.entry # None =>
              /\ op.entry \in EntryIds
              /\ entries'[op.entry] = Debit(op.program, op.points)
              /\ \A e \in EntryIds : e # op.entry => entries'[e] = entries[e]
              /\ linked = None => entries[op.entry] = None
              /\ linked # None => op.entry = linked
        /\ op.entry = None =>
              /\ linked # None => entries'[linked] = None
              /\ \A e \in EntryIds : e # linked => entries'[e] = entries[e]
        /\ HoldingsTypeOK'
    BY <1>1, SavesFacts
  <1>3. /\ op.entry # None =>
              /\ op.program \in Programs /\ op.points \in PosNat
              /\ Balance(entries, op.program) + Restored(linked, op.program) >= op.points
        /\ op.entry = None /\ linked = None => entries' = entries
    BY <1>1 DEF SavesAs
  <1>4. entries \in Entries /\ entries' \in Entries
    BY <1>2 DEF BookInv, HoldingsTypeOK, Entries
  <1>5. CASE linked # None /\ entries[linked].credit
    <2>1. CASE ops'[o] = ops[o]
      <3>1. \A q \in OpIds : ops'[q] = ops[q]
        BY <1>2, <2>1
      <3>. QED BY <1>2, <3>1 DEF TakenByHand
    <2>2. CASE ops'[o] # ops[o]
      BY <1>2, <1>5, <2>2 DEF TakenByHand, SpendsOwn
    <2>. QED BY <2>1, <2>2
  <1>6. CASE ~(linked # None /\ entries[linked].credit) /\ op.entry # None
    <2>1. PICK e \in EntryIds : e = op.entry
      BY <1>2, <1>6
    <2>2. /\ entries[e] = None \/ ~entries[e].credit
          /\ linked = None => entries[e] = None
          /\ linked # None => linked = e
      BY <1>2, <1>6, <2>1
    <2>3. Restored(linked, op.program)
            = IF entries[e] # None /\ entries[e].program = op.program THEN entries[e].amount ELSE 0
      BY <1>2, <2>2 DEF Restored
    <2>4. /\ \A d \in EntryIds : d # e => entries'[d] = entries[d]
          /\ entries'[e] = Debit(op.program, op.points)
          /\ op.program \in Programs /\ op.points \in PosNat
      BY <1>2, <1>3, <1>6, <2>1
    <2>5. Balance(entries, op.program)
            + (IF entries[e] # None /\ entries[e].program = op.program THEN entries[e].amount ELSE 0)
              >= op.points
      BY <1>3, <1>6, <2>3
    <2>. QED BY ONLY <1>4, <2>2, <2>4, <2>5, p \in Programs, TakingHolds
  <1>7. CASE ~(linked # None /\ entries[linked].credit) /\ op.entry = None
    <2>1. CASE linked = None
      <3>1. entries' = entries
        BY <1>3, <1>7, <2>1
      <3>2. Balance(entries, p) \in Int
        BY <1>4, BalanceIsInt
      <3>. QED BY <3>1, <3>2
    <2>2. CASE linked # None
      <3>1. PICK e \in EntryIds : e = linked
        BY <1>2, <2>2
      <3>2. /\ \A d \in EntryIds : d # e => entries'[d] = entries[d]
            /\ entries[e] = None \/ ~entries[e].credit
            /\ entries'[e] = None
        BY <1>2, <1>7, <2>2, <3>1
      <3>3. Balance(entries', p) >= Balance(entries, p)
        BY ONLY <1>4, <3>2, p \in Programs, GivingBackHolds
      <3>. QED BY <3>3
    <2>. QED BY <2>1, <2>2
  <1>. QED BY <1>5, <1>6, <1>7

LEMMA ConversionsHold ==
  ASSUME BookInv, BookInv', NEW r \in RedemptionIds, NEW form \in RedemptionForms,
         SaveRedemption(r, form), NEW p \in Programs
  PROVE  Balance(entries', p) >= 0 \/ Balance(entries', p) >= Balance(entries, p)
  <1>1. PICK e \in EntryIds, red \in Redemption, m \in Movement \union {None} :
            /\ red.program = form.program /\ red.points = form.points /\ red.target = form.target
            /\ red.iof = form.iof /\ red.by = form.by /\ red.entry = e
            /\ form.program \in Programs /\ form.points \in PosNat /\ form.target \in PosNat
            /\ redemptions[r] # None => e = redemptions[r].entry /\ issued'.entry = issued.entry
            /\ redemptions[r] = None => e = issued.entry + 1 /\ issued'.entry = e
            /\ Balance(entries, form.program) + GivenBack(redemptions[r], form.program) >= form.points
            /\ redemptions' = [redemptions EXCEPT ![r] = red]
            /\ entries' = [entries EXCEPT ![e] = Debit(form.program, form.points)]
            /\ movements' = [movements EXCEPT
                  ![<<"reward", r>>] = [debit |-> FALSE, amount |-> form.target],
                  ![<<"iof", r>>] = m]
            /\ form.by = "account" => m = [debit |-> TRUE, amount |-> form.iof]
            /\ form.by # "account" /\ redemptions[r] # None => m = None
            /\ form.by # "account" /\ redemptions[r] = None => m = movements[<<"iof", r>>]
            /\ issued'.op = issued.op /\ issued' \in [op : OpIds \union {0}, entry : EntryIds \union {0}]
            /\ UNCHANGED <<ops, opening, rates, base>>
    BY SavedRedemption
  <1>2. entries \in Entries /\ entries' \in Entries
    BY DEF BookInv, HoldingsTypeOK, Entries
  <1>3. /\ Live(redemptions) = {q \in RedemptionIds : redemptions[q] # None}
        /\ issued.entry \in Nat /\ EntryIds \subseteq Nat
    BY Tables DEF BookInv
  <1>4. /\ \A d \in EntryIds : d # e => entries'[d] = entries[d]
        /\ entries'[e] = Debit(form.program, form.points)
    BY <1>1, <1>2 DEF Entries
  <1>5. /\ entries[e] = None \/ ~entries[e].credit
        /\ GivenBack(redemptions[r], form.program)
             = IF entries[e] # None /\ entries[e].program = form.program THEN entries[e].amount ELSE 0
    <2>1. CASE redemptions[r] # None
      <3>1. /\ e = redemptions[r].entry /\ entries[e] # None /\ ~entries[e].credit
            /\ entries[e].program = redemptions[r].program
            /\ entries[e].amount = redemptions[r].points
        BY <1>1, <1>3, <2>1, OwnedAreGiven
      <3>. QED BY <2>1, <3>1 DEF GivenBack
    <2>2. CASE redemptions[r] = None
      <3>1. ~(e =< issued.entry)
        BY <1>1, <1>3, <2>2
      <3>2. entries[e] = None
        BY <3>1, OwnedAreGiven
      <3>. QED BY <2>2, <3>2 DEF GivenBack
    <2>. QED BY <2>1, <2>2
  <1>6. Balance(entries, form.program)
          + (IF entries[e] # None /\ entries[e].program = form.program THEN entries[e].amount ELSE 0)
            >= form.points
    BY <1>1, <1>5
  <1>7. form.program \in Programs /\ form.points \in PosNat
    BY <1>1
  <1>. QED BY ONLY <1>2, <1>4, <1>5, <1>6, <1>7, p \in Programs, e \in EntryIds, TakingHolds

LEMMA PointsHold ==
  ASSUME HoldingsInv, HoldingsInv', HoldingsNext, NEW p \in Programs
  PROVE  TakenByHand \/ Balance(entries', p) >= 0 \/ Balance(entries', p) >= Balance(entries, p)
  <1>0. BookInv /\ BookInv'
    BY DEF HoldingsInv
  <1>1. CASE SavesOperation
    <2>1. PICK o \in OpIds, seen \in Operation \union {None}, form \in OperationForms :
             Knows(o, seen) /\ SaveOperation(o, seen, form)
      BY <1>1 DEF SavesOperation
    <2>2. PICK op : SavesAs(o, seen, form, op)
      BY <1>0, <2>1, SavedOperation
    <2>. QED BY <1>0, <2>1, <2>2, SavedOperationsHold
  <1>2. CASE Converts
    BY <1>0, <1>2, ConversionsHold DEF Converts
  <1>3. CASE DeletesOperation
    <2>1. PICK o \in OpIds, seen \in Operation : DeleteOperation(o, seen)
      BY <1>3 DEF DeletesOperation
    <2>2. /\ ops' = [ops EXCEPT ![o] = None] /\ redemptions' = redemptions
          /\ ops \in [OpIds -> Operation \union {None}]
      BY <1>0, <2>1 DEF DeleteOperation, BookInv, HoldingsTypeOK
    <2>3. \A q \in OpIds : ops'[q] # None => ops'[q] = ops[q]
      BY <2>2
    <2>. QED BY <2>2, <2>3 DEF TakenByHand
  <1>4. CASE DeletesEntry
    <2>1. PICK e \in EntryIds, seen \in PointsEntry :
             /\ DeleteEntry(e, seen)
             /\ \A r \in Live(redemptions) : redemptions[r].entry # e
      BY <1>4 DEF DeletesEntry
    <2>2. \A o \in OpIds :
             /\ ops'[o] = None <=> ops[o] = None
             /\ ops[o] # None =>
                   ops'[o] = IF ops[o].entry = e THEN [ops[o] EXCEPT !.entry = None] ELSE ops[o]
      BY <1>0, <2>1, DeleteEntryKeeps
    <2>3. ASSUME NEW o \in OpIds, ops'[o] # None
          PROVE  /\ ops[o] # None
                 /\ ops'[o].program = ops[o].program /\ ops'[o].points = ops[o].points
      <3>1. ops[o] # None /\ ops[o] \in Operation
        BY <1>0, <2>2, <2>3 DEF BookInv, HoldingsTypeOK
      <3>. QED BY <2>2, <3>1 DEF Operation
    <2>4. redemptions' = redemptions
      BY <2>1 DEF DeleteEntry
    <2>. QED BY <2>3, <2>4 DEF TakenByHand
  <1>5. CASE SavesEntry \/ LeavesTheBooks
    <2>1. ops' = ops /\ redemptions' = redemptions
      BY <1>5 DEF SavesEntry, SaveEntry, LeavesTheBooks
    <2>. QED BY <2>1 DEF TakenByHand
  <1>. QED BY <1>1, <1>2, <1>3, <1>4, <1>5, StepsAre

\* A programme of points goes below what it holds only by hand: an operation
\* or a conversion never takes more points than there are, unless the entry
\* it owned had been made a credit by hand (investments/services.py,
\* banking/services.py).
THEOREM PointsAreNotOverspent == HoldingsSpec => PointsAreHeld
  <1>1. ASSUME HoldingsInv, HoldingsInv', [HoldingsNext]_holdingVars
        PROVE  [\A p \in Programs :
                  Balance(entries', p) < 0 /\ Balance(entries', p) < Balance(entries, p) =>
                     \/ /\ redemptions' = redemptions
                        /\ \A o \in OpIds : ops'[o] # None =>
                              /\ ops[o] # None
                              /\ ops'[o].program = ops[o].program /\ ops'[o].points = ops[o].points
                     \/ \E o \in OpIds : SpendsOwn(o) /\ ops'[o] # ops[o]]_holdingVars
    <2>1. CASE UNCHANGED holdingVars
      BY <2>1
    <2>2. CASE HoldingsNext
      <3>. SUFFICES ASSUME NEW p \in Programs, ~TakenByHand
                    PROVE  ~(Balance(entries', p) < 0 /\ Balance(entries', p) < Balance(entries, p))
        BY DEF TakenByHand
      <3>1. Balance(entries', p) >= 0 \/ Balance(entries', p) >= Balance(entries, p)
        BY <1>1, <2>2, PointsHold
      <3>2. entries \in Entries /\ entries' \in Entries
        BY <1>1 DEF HoldingsInv, BookInv, HoldingsTypeOK, Entries
      <3>3. Balance(entries, p) \in Int /\ Balance(entries', p) \in Int
        BY <3>2, BalanceIsInt
      <3>. QED BY <3>1, <3>3
    <2>. QED BY <1>1, <2>1, <2>2
  <1>. QED BY <1>1, HoldingsAreWellFormed, PTL DEF PointsAreHeld, HoldingsSpec
-----------------------------------------------------------------------------
(* Holdings: what is left of what was paid.                                *)

\* The operations that are replayed before the n-th place is passed.
Turns(os, p, d, n) ==
    {o \in Counted(os, p, d) : Cardinality(EarlierOps(os, p, os[o].date, o)) < n}

\* Each place has one operation, and those before it are its earlier ones.
LEMMA EachHasItsTurn ==
  ASSUME NEW os \in [OpIds -> Operation \union {None}], NEW p, NEW d \in Int
  PROVE  /\ IsFiniteSet(Counted(os, p, d)) /\ Cardinality(Counted(os, p, d)) \in Nat
         /\ Counted(os, p, d) \in SUBSET OpIds
         /\ Turns(os, p, d, 0) = {}
         /\ Turns(os, p, d, Cardinality(Counted(os, p, d))) = Counted(os, p, d)
         /\ \A n \in 1 .. Cardinality(Counted(os, p, d)) :
               /\ Nth(os, p, d, n) \in Counted(os, p, d) \ Turns(os, p, d, n - 1)
               /\ Turns(os, p, d, n) = Turns(os, p, d, n - 1) \union {Nth(os, p, d, n)}
               /\ EarlierOps(os, p, os[Nth(os, p, d, n)].date, Nth(os, p, d, n)) = Turns(os, p, d, n - 1)
  <1>1. PICK S : S = Counted(os, p, d)
    OBVIOUS
  <1>2. S \in SUBSET OpIds /\ \A o \in S : o \in Of(os, p) /\ os[o] \in Operation /\ os[o].date =< d
    BY <1>1 DEF Counted, Of, Live
  <1>3. Of(os, p) \in SUBSET OpIds /\ \A o \in Of(os, p) : os[o] \in Operation
    BY DEF Of, Live
  <1>4. \A o \in Of(os, p) : os[o].date \in Int /\ o \in Int
    <2>. SUFFICES ASSUME NEW o \in Of(os, p) PROVE os[o].date \in Int /\ o \in Int
      OBVIOUS
    <2>1. os[o] \in Operation /\ o \in OpIds
      BY <1>3
    <2>2. os[o].date \in Dates
      BY <2>1 DEF Operation
    <2>3. Dates \subseteq Int /\ OpIds \subseteq Int
      <3>1. OpIds \subseteq Nat
        BY IdsAreFinite DEF PosNat
      <3>. QED BY <3>1, WorldIsNamed
    <2>. QED BY <2>1, <2>2, <2>3
  <1>5. IsFiniteSet(S) /\ Cardinality(S) \in Nat
    BY <1>2, IdsAreFinite, FS_Subset, FS_CardinalityType
  <1>6. PICK above : above = [o \in S |-> EarlierOps(os, p, os[o].date, o)]
    OBVIOUS
  <1>7. Ranks(S, above)
    <2>1. \A i \in S : above[i] \in SUBSET S /\ i \notin above[i]
      <3>. SUFFICES ASSUME NEW i \in S, NEW x \in above[i] PROVE x \in S /\ x # i
        OBVIOUS
      <3>1. x \in Of(os, p) /\ x # i /\ os[x].date =< os[i].date
        BY <1>2, <1>4, <1>6 DEF EarlierOps
      <3>2. os[x].date =< d
        BY <1>2, <1>4, <3>1
      <3>. QED BY <1>1, <3>1, <3>2 DEF Counted
    <2>2. \A i, j \in S : j \in above[i] => above[j] \subseteq above[i]
      <3>. SUFFICES ASSUME NEW i \in S, NEW j \in S, j \in above[i], NEW x \in above[j]
                    PROVE  x \in above[i]
        OBVIOUS
      <3>1. x \in Of(os, p) /\ j \in Of(os, p) /\ i \in Of(os, p)
        BY <1>2, <1>6 DEF EarlierOps
      <3>2. /\ os[x].date < os[j].date \/ (os[x].date = os[j].date /\ x < j)
            /\ os[j].date < os[i].date \/ (os[j].date = os[i].date /\ j < i)
        BY <1>6 DEF EarlierOps
      <3>3. os[x].date < os[i].date \/ (os[x].date = os[i].date /\ x < i)
        BY <1>4, <3>1, <3>2
      <3>4. x # i
        BY <1>4, <3>1, <3>3
      <3>. QED BY <1>6, <3>1, <3>3, <3>4 DEF EarlierOps
    <2>3. \A i, j \in S : i # j => i \in above[j] \/ j \in above[i]
      <3>. SUFFICES ASSUME NEW i \in S, NEW j \in S, i # j PROVE i \in above[j] \/ j \in above[i]
        OBVIOUS
      <3>1. \/ os[i].date < os[j].date \/ (os[i].date = os[j].date /\ i < j)
            \/ os[j].date < os[i].date \/ (os[j].date = os[i].date /\ j < i)
        BY <1>2, <1>4
      <3>. QED BY <1>2, <1>6, <3>1 DEF EarlierOps
    <2>. QED BY <2>1, <2>2, <2>3 DEF Ranks
  <1>8. PICK turn : turn = [n \in Nat |-> {i \in S : Cardinality(above[i]) < n}]
    OBVIOUS
  <1>9. \A n \in Nat : turn[n] = Turns(os, p, d, n)
    BY <1>1, <1>6, <1>8 DEF Turns
  <1>10. \A i \in S : IsFiniteSet(above[i]) /\ Cardinality(above[i]) \in Nat
    BY <1>5, <1>7, FS_Subset, FS_CardinalityType DEF Ranks
  <1>11. \A n \in Nat : /\ turn[n] \in SUBSET S /\ IsFiniteSet(turn[n])
                        /\ n =< Cardinality(S) => Cardinality(turn[n]) = n
    BY <1>5, <1>7, <1>8, RanksCount, FS_Subset
  <1>12. turn[0] = {}
    BY <1>8, <1>10
  <1>13. turn[Cardinality(S)] = S
    BY <1>5, <1>11, FS_Subset
  <1>14. ASSUME NEW n \in 1 .. Cardinality(S), NEW o, o = Nth(os, p, d, n)
         PROVE  /\ o \in S \ turn[n - 1] /\ turn[n] = turn[n - 1] \union {o}
                /\ EarlierOps(os, p, os[o].date, o) = turn[n - 1]
    <2>1. n \in Nat /\ n - 1 \in Nat /\ n =< Cardinality(S) /\ n - 1 =< Cardinality(S)
      BY <1>5
    <2>2. turn[n - 1] \subseteq turn[n]
      BY <1>8, <1>10, <2>1
    <2>3. Cardinality(turn[n]) = n /\ Cardinality(turn[n - 1]) = n - 1
      BY <1>11, <2>1
    <2>4. turn[n] \ turn[n - 1] # {}
      <3>. SUFFICES ASSUME turn[n] \ turn[n - 1] = {} PROVE FALSE
        OBVIOUS
      <3>1. turn[n] = turn[n - 1]
        BY <2>2
      <3>. QED BY <2>1, <2>3, <3>1
    <2>5. \A x \in S : x \in turn[n] \ turn[n - 1] <=> Cardinality(above[x]) = n - 1
      BY <1>8, <1>10, <2>1
    <2>6. o \in S /\ Cardinality(above[o]) = n - 1
      <3>1. o = CHOOSE x \in S : Cardinality(above[x]) = n - 1
        <4>1. o = CHOOSE x \in S : Cardinality(EarlierOps(os, p, os[x].date, x)) = n - 1
          BY <1>1, <1>14 DEF Nth
        <4>2. \A x \in S : above[x] = EarlierOps(os, p, os[x].date, x)
          BY <1>6
        <4>. QED BY <4>1, <4>2
      <3>2. \E x \in S : Cardinality(above[x]) = n - 1
        BY <1>11, <2>1, <2>4, <2>5
      <3>. QED BY <3>1, <3>2
    <2>7. o \in turn[n] \ turn[n - 1]
      BY <2>5, <2>6
    <2>8. IsFiniteSet(turn[n - 1] \union {o}) /\ Cardinality(turn[n - 1] \union {o}) = n
      BY <1>11, <2>1, <2>3, <2>6, <2>7, FS_AddElement
    <2>9. turn[n - 1] \union {o} = turn[n]
      BY <1>11, <2>1, <2>2, <2>3, <2>7, <2>8, FS_Subset
    <2>10. above[o] \subseteq turn[n - 1]
      <3>. SUFFICES ASSUME NEW z \in above[o] PROVE z \in turn[n - 1]
        OBVIOUS
      <3>1. z \in S /\ above[z] \subseteq above[o] \ {z}
        BY <1>7, <2>6 DEF Ranks
      <3>2. IsFiniteSet(above[o] \ {z}) /\ Cardinality(above[o] \ {z}) = n - 2
        <4>1. PICK T : T = above[o]
          OBVIOUS
        <4>2. IsFiniteSet(T) /\ z \in T /\ Cardinality(T) = n - 1
          BY <1>10, <2>6, <4>1
        <4>3. IsFiniteSet(T \ {z}) /\ Cardinality(T \ {z}) = Cardinality(T) - 1
          BY <4>2, FS_RemoveElement
        <4>. QED BY <2>1, <4>1, <4>2, <4>3
      <3>3. Cardinality(above[z]) =< n - 2
        BY <3>1, <3>2, FS_Subset
      <3>. QED BY <1>8, <1>10, <2>1, <3>1, <3>3
    <2>11. above[o] = turn[n - 1]
      BY <1>11, <2>1, <2>3, <2>6, <2>10, FS_Subset
    <2>. QED BY <1>6, <2>6, <2>7, <2>9, <2>11
  <1>15. ASSUME NEW n \in 1 .. Cardinality(Counted(os, p, d))
         PROVE  /\ Nth(os, p, d, n) \in Counted(os, p, d) \ Turns(os, p, d, n - 1)
                /\ Turns(os, p, d, n) = Turns(os, p, d, n - 1) \union {Nth(os, p, d, n)}
                /\ EarlierOps(os, p, os[Nth(os, p, d, n)].date, Nth(os, p, d, n)) = Turns(os, p, d, n - 1)
    <2>1. n \in 1 .. Cardinality(S) /\ n \in Nat /\ n - 1 \in Nat
      BY <1>1, <1>5
    <2>2. turn[n] = Turns(os, p, d, n) /\ turn[n - 1] = Turns(os, p, d, n - 1)
      BY <1>9, <2>1
    <2>. QED BY <1>1, <1>14, <2>1, <2>2
  <1>. QED BY <1>1, <1>2, <1>5, <1>9, <1>12, <1>13, <1>15

\* What the n-th operation makes of the row before it.
NextRow(os, start, p, d, replayed, n) ==
    IF n = 0 THEN OpeningRow(os, start, d) ELSE Replayed(os, replayed[n - 1], Nth(os, p, d, n))

Replays(os, start, p, d, last, replayed) ==
    replayed = [n \in 0 .. last |-> NextRow(os, start, p, d, replayed, n)]

\* There is a function that replays the operations one by one.
LEMMA ReplaysExist ==
  ASSUME NEW os, NEW start, NEW p, NEW d, NEW last \in Nat
  PROVE  \E replayed : Replays(os, start, p, d, last, replayed)
  <1>. DEFINE Good == {k \in Nat : \E replayed : Replays(os, start, p, d, k, replayed)}
  <1>1. 0 \in Good
    <2>1. Replays(os, start, p, d, 0, [n \in 0 .. 0 |-> OpeningRow(os, start, d)])
      BY DEF Replays, NextRow
    <2>. QED BY <2>1
  <1>2. ASSUME NEW k \in Nat, k \in Good PROVE k + 1 \in Good
    <2>1. PICK replayed : Replays(os, start, p, d, k, replayed)
      BY <1>2
    <2>. DEFINE new == Replayed(os, replayed[k], Nth(os, p, d, k + 1))
                more == [n \in 0 .. (k + 1) |-> IF n = k + 1 THEN new ELSE replayed[n]]
    <2>2. \A n \in 0 .. k : replayed[n] = NextRow(os, start, p, d, replayed, n)
      BY <2>1 DEF Replays
    <2>3. \A n \in 0 .. (k + 1) : more[n] = NextRow(os, start, p, d, more, n)
      <3>. TAKE n \in 0 .. (k + 1)
      <3>1. CASE n = 0
        <4>1. more[n] = replayed[n] /\ n \in 0 .. k
          BY <3>1
        <4>2. NextRow(os, start, p, d, more, n) = NextRow(os, start, p, d, replayed, n)
          BY <3>1 DEF NextRow
        <4>. QED BY <2>2, <4>1, <4>2
      <3>2. CASE n = k + 1
        <4>1. more[n - 1] = replayed[k] /\ more[n] = new /\ n # 0
          BY <3>2
        <4>. HIDE DEF more
        <4>. QED BY <3>2, <4>1 DEF NextRow
      <3>3. CASE n # 0 /\ n # k + 1
        <4>1. more[n - 1] = replayed[n - 1] /\ more[n] = replayed[n] /\ n \in 0 .. k
          BY <3>3
        <4>2. NextRow(os, start, p, d, more, n) = NextRow(os, start, p, d, replayed, n)
          <5>. HIDE DEF more
          <5>. QED BY <3>3, <4>1 DEF NextRow
        <4>. QED BY <2>2, <4>1, <4>2
      <3>. QED BY <3>1, <3>2, <3>3
    <2>4. Replays(os, start, p, d, k + 1, more)
      <3>1. more = [n \in 0 .. (k + 1) |-> more[n]]
        OBVIOUS
      <3>. HIDE DEF more
      <3>. QED BY <2>3, <3>1 DEF Replays
    <2>. QED BY <2>4
  <1>. HIDE DEF Good
  <1>3. last \in Good
    BY <1>1, <1>2, NumberInduction
  <1>. QED BY <1>3 DEF Good

\* Replay is the last row of that function.
LEMMA ReplayIs ==
  ASSUME NEW os, NEW start, NEW p, NEW d, NEW last \in Nat,
         last = Cardinality(Counted(os, p, d))
  PROVE  \E replayed : /\ Replay(os, start, p, d) = replayed[last]
                   /\ replayed[0] = OpeningRow(os, start, d)
                   /\ \A n \in 1 .. last : replayed[n] = Replayed(os, replayed[n - 1], Nth(os, p, d, n))
  <1>. DEFINE R == CHOOSE replayed : replayed = [n \in 0 .. last |->
                      IF n = 0 THEN OpeningRow(os, start, d)
                      ELSE Replayed(os, replayed[n - 1], Nth(os, p, d, n))]
  <1>1. Replay(os, start, p, d) = R[last]
    BY DEF Replay
  <1>2. PICK replayed : Replays(os, start, p, d, last, replayed)
    BY ReplaysExist
  <1>3. replayed = [n \in 0 .. last |-> IF n = 0 THEN OpeningRow(os, start, d)
                                    ELSE Replayed(os, replayed[n - 1], Nth(os, p, d, n))]
    BY <1>2 DEF Replays, NextRow
  <1>4. R = [n \in 0 .. last |-> IF n = 0 THEN OpeningRow(os, start, d)
                                 ELSE Replayed(os, R[n - 1], Nth(os, p, d, n))]
    BY ONLY <1>3, Zenon
  <1>. HIDE DEF R
  <1>5. \A n \in 0 .. last : R[n] = IF n = 0 THEN OpeningRow(os, start, d)
                                    ELSE Replayed(os, R[n - 1], Nth(os, p, d, n))
    BY ONLY <1>4, Zenon
  <1>6. R[0] = OpeningRow(os, start, d)
    BY <1>5
  <1>7. \A n \in 1 .. last : R[n] = Replayed(os, R[n - 1], Nth(os, p, d, n))
    <2>. TAKE n \in 1 .. last
    <2>1. n \in 0 .. last /\ n # 0
      OBVIOUS
    <2>. QED BY ONLY <1>5, <2>1
  <1>. QED BY <1>1, <1>6, <1>7

\* A row of a position, its amounts over one denominator.
Row == [quantity : Nat, cost : Nat, gain : Int, over : Nat \ {0}, parts : [{0} \union OpIds -> Int]]
Summed(parts) == SumFunctionOnSet(parts, {0} \union OpIds)

\* A row whose cost is in its parts, and which costs nothing when it is empty.
Sound(row, pair) ==
    /\ row \in Row
    /\ row.cost = Summed(row.parts)
    /\ row.quantity = 0 => row.cost = 0
    /\ ~IsUnits(pair) => row.cost = row.quantity /\ row.over = 1 /\ row.gain = 0

\* Products of a common factor.
LEMMA Factors ==
  /\ \A a, b, c \in Int : (a + b) * c = a * c + b * c /\ (a - b) * c = a * c - b * c
  /\ \A a, b, c \in Int : (a * b) * c = a * (b * c) /\ a * b = b * a
  OBVIOUS

\* Setting one part sets its amount in the sum.
LEMMA PartIsAdded ==
  ASSUME NEW parts \in [{0} \union OpIds -> Int], NEW o \in OpIds, parts[o] = 0, NEW n \in Int
  PROVE  /\ [parts EXCEPT ![o] = n] \in [{0} \union OpIds -> Int]
         /\ Summed([parts EXCEPT ![o] = n]) = Summed(parts) + n
         /\ \A x \in OpIds : x # o => [parts EXCEPT ![o] = n][x] = parts[x]
         /\ Summed(parts) \in Int
  <1>1. PICK S : S = {0} \union OpIds
    OBVIOUS
  <1>2. IsFiniteSet(S) /\ o \in S
    BY <1>1, IdsAreFinite, FS_AddElement
  <1>3. PICK new : new = [parts EXCEPT ![o] = n]
    OBVIOUS
  <1>4. /\ new[o] = n /\ \A x \in S : parts[x] \in Int /\ new[x] \in Int
        /\ \A x \in S : x # o => new[x] = parts[x]
    BY <1>1, <1>2, <1>3
  <1>5. /\ SumFunctionOnSet(parts, S) \in Int
        /\ SumFunctionOnSet(new, S) - new[o] = SumFunctionOnSet(parts, S) - parts[o]
        /\ SumFunctionOnSet(new, S) \in Int
    BY <1>2, <1>4, SumChange
  <1>6. SumFunctionOnSet(new, S) = SumFunctionOnSet(parts, S) + n
    BY <1>4, <1>5
  <1>7. new \in [{0} \union OpIds -> Int]
    BY <1>3
  <1>. QED BY <1>1, <1>3, <1>4, <1>5, <1>6, <1>7 DEF Summed

\* Replaying one operation that finds what it takes.
LEMMA RowAfterIs ==
  ASSUME NEW os \in [OpIds -> Operation \union {None}], NEW o \in OpIds, NEW row,
         os[o] \in Operation, Sound(row, os[o].pair), row.parts[o] = 0,
         ~IsUnits(os[o].pair) => os[o].price = 1,
         os[o].kind = "WITHDRAWAL" => os[o].quantity =< row.quantity
  PROVE  /\ Sound(Replayed(os, row, o), os[o].pair)
         /\ Replayed(os, row, o).quantity = row.quantity + Signed(os[o], os[o].quantity)
         /\ \A x \in OpIds : x # o /\ row.parts[x] = 0 => Replayed(os, row, o).parts[x] = 0
         /\ \A paid \in Int : row.cost - row.gain = row.over * paid =>
               Replayed(os, row, o).cost - Replayed(os, row, o).gain
                 = Replayed(os, row, o).over * (paid + PaidIn(os[o]))
  <1>1. PICK op : op = os[o]
    OBVIOUS
  <1>2. PICK q, gross, fee : q = op.quantity /\ gross = Gross(op) /\ fee = AppliedFee(op)
    OBVIOUS
  <1>3. q \in Nat /\ q > 0 /\ gross \in Nat /\ fee \in Nat
    <2>1. /\ op.quantity \in Nat /\ op.quantity > 0 /\ op.price \in Nat /\ op.fees \in Nat
      BY <1>1 DEF Operation, PosNat
    <2>2. op.quantity * op.price \in Nat
      BY ONLY <2>1, Products
    <2>. QED BY <1>2, <2>1, <2>2 DEF Gross, AppliedFee
  <1>4. PICK quantity, cost, gain, over, parts :
           /\ quantity = row.quantity /\ cost = row.cost /\ gain = row.gain
           /\ over = row.over /\ parts = row.parts
    OBVIOUS
  <1>5. /\ row \in Row
        /\ quantity \in Nat /\ cost \in Nat /\ gain \in Int /\ over \in Nat /\ over > 0
        /\ parts \in [{0} \union OpIds -> Int] /\ cost = Summed(parts) /\ parts[o] = 0
        /\ quantity = 0 => cost = 0
    BY <1>4 DEF Sound, Row
  <1>6. row = [quantity |-> quantity, cost |-> cost, gain |-> gain, over |-> over, parts |-> parts]
    BY <1>4, <1>5 DEF Row
  <1>7. PICK new : new = Replayed(os, row, o)
    OBVIOUS
  <1>8. CASE ~IsUnits(op.pair)
    <2>1. cost = quantity /\ over = 1 /\ gain = 0 /\ gross = q
      <3>1. op.price = 1 /\ op.quantity \in Nat
        BY <1>1, <1>2, <1>3, <1>8
      <3>. QED BY <1>1, <1>2, <1>4, <1>8, <3>1 DEF Sound, Gross
    <2>2. PICK value : value = Signed(op, q)
      OBVIOUS
    <2>3. value \in Int /\ quantity + value \in Nat
      BY <1>1, <1>2, <1>3, <1>4, <1>5, <2>2 DEF Signed
    <2>4. new = [quantity |-> quantity + value, cost |-> cost + value, gain |-> gain,
                 over |-> over, parts |-> [parts EXCEPT ![o] = value]]
      BY <1>1, <1>2, <1>6, <1>7, <1>8, <2>1, <2>2 DEF Replayed, Observe
    <2>5. /\ [parts EXCEPT ![o] = value] \in [{0} \union OpIds -> Int]
          /\ Summed([parts EXCEPT ![o] = value]) = Summed(parts) + value
          /\ \A x \in OpIds : x # o => [parts EXCEPT ![o] = value][x] = parts[x]
      BY <1>5, <2>3, PartIsAdded
    <2>6. new \in Row /\ Sound(new, op.pair)
      BY <1>5, <1>8, <2>1, <2>3, <2>4, <2>5 DEF Row, Sound
    <2>7. PaidIn(op) = value
      BY <1>2, <1>8, <2>1, <2>2 DEF PaidIn
    <2>. QED BY <1>1, <1>2, <1>4, <1>5, <1>7, <2>1, <2>2, <2>3, <2>4, <2>5, <2>6, <2>7
  <1>9. CASE IsUnits(op.pair) /\ op.kind # "WITHDRAWAL"
    <2>1. PICK value : value = (gross + fee) * over
      OBVIOUS
    <2>2. value \in Nat /\ value \in Int
      <3>1. gross + fee \in Nat
        BY <1>3
      <3>2. value \in Nat
        BY ONLY <1>5, <2>1, <3>1, Products
      <3>. QED BY <3>2
    <2>3. new = [quantity |-> quantity + q, cost |-> cost + value, gain |-> gain,
                 over |-> over, parts |-> [parts EXCEPT ![o] = value]]
      BY <1>1, <1>2, <1>6, <1>7, <1>9, <2>1 DEF Replayed, Acquire
    <2>4. /\ [parts EXCEPT ![o] = value] \in [{0} \union OpIds -> Int]
          /\ Summed([parts EXCEPT ![o] = value]) = Summed(parts) + value
          /\ \A x \in OpIds : x # o => [parts EXCEPT ![o] = value][x] = parts[x]
      BY <1>5, <2>2, PartIsAdded
    <2>5. new \in Row /\ Sound(new, op.pair)
      BY <1>3, <1>5, <1>9, <2>2, <2>3, <2>4 DEF Row, Sound
    <2>6. PaidIn(op) = gross + fee /\ Signed(op, op.quantity) = q
      BY <1>2, <1>9 DEF PaidIn, Signed
    <2>7. ASSUME NEW paid \in Int, cost - gain = over * paid
          PROVE  cost + value - gain = over * (paid + (gross + fee))
      <3>1. over * (paid + (gross + fee)) = over * paid + value
        <4>1. paid + (gross + fee) \in Int /\ gross + fee \in Int /\ over \in Int
          BY <1>3, <1>5
        <4>2. (paid + (gross + fee)) * over = paid * over + (gross + fee) * over
          BY ONLY <2>7, <4>1, Factors
        <4>3. paid * over = over * paid /\ (paid + (gross + fee)) * over = over * (paid + (gross + fee))
          BY ONLY <2>7, <4>1, Factors
        <4>. QED BY ONLY <2>1, <4>2, <4>3
      <3>2. over * paid \in Int
        BY <1>5, <2>7
      <3>. QED BY ONLY <1>5, <2>2, <2>7, <3>1, <3>2
    <2>. QED BY <1>1, <1>2, <1>4, <1>5, <1>7, <2>3, <2>4, <2>5, <2>6, <2>7
  <1>10. CASE IsUnits(op.pair) /\ op.kind = "WITHDRAWAL"
    <2>1. q =< quantity /\ quantity > 0 /\ quantity - q \in Nat
      BY <1>1, <1>2, <1>3, <1>4, <1>5, <1>10
    <2>2. PICK after, released, net : after = quantity - q /\ released = cost * q /\ net = (gross - fee) * over
      OBVIOUS
    <2>3. after \in Nat /\ released \in Nat /\ net \in Int /\ quantity \in Int
      <3>1. gross - fee \in Int /\ over \in Int
        BY <1>3, <1>5
      <3>2. released \in Nat
        BY ONLY <1>3, <1>5, <2>2, Products
      <3>3. net \in Int
        BY ONLY <2>2, <3>1, Products
      <3>. QED BY <1>5, <2>1, <2>2, <3>2, <3>3
    <2>4. PICK less : less = [x \in {0} \union OpIds |-> parts[x] * after]
      OBVIOUS
    <2>5. new = [quantity |-> after, over |-> over * quantity,
                 cost |-> IF after = 0 THEN 0 ELSE cost * quantity - released,
                 gain |-> (gain + net) * quantity - released, parts |-> less]
      <3>1. new = Dispose(row, op)
        BY <1>1, <1>7, <1>10 DEF Replayed
      <3>2. DOMAIN row.parts = {0} \union OpIds
        BY <1>4, <1>5
      <3>3. Dispose(row, op) =
              [quantity |-> quantity - q, over |-> over * (IF quantity = 0 THEN 1 ELSE quantity),
               cost |-> IF quantity - q = 0 THEN 0
                        ELSE cost * (IF quantity = 0 THEN 1 ELSE quantity)
                               - (IF quantity = 0 THEN 0 ELSE cost * q),
               gain |-> (gain + (gross - fee) * over) * (IF quantity = 0 THEN 1 ELSE quantity)
                          - (IF quantity = 0 THEN 0 ELSE cost * q),
               parts |-> [x \in {0} \union OpIds |->
                            IF quantity = 0 THEN 0 ELSE parts[x] * (quantity - q)]]
        BY ONLY <1>2, <1>4, <3>2, Zenon DEF Dispose
      <3>4. quantity # 0
        BY <2>1
      <3>. QED BY ONLY <2>2, <2>4, <3>1, <3>3, <3>4, Zenon
    <2>6. /\ cost * quantity \in Int
          /\ cost * after = cost * quantity - released
      <3>1. (quantity - q) * cost = quantity * cost - q * cost
        BY ONLY <1>3, <1>5, Factors
      <3>2. quantity * cost = cost * quantity /\ q * cost = cost * q /\ after * cost = cost * after
        BY ONLY <1>3, <1>5, <2>3, Factors
      <3>3. cost * quantity \in Int
        BY ONLY <1>5, Products
      <3>. QED BY ONLY <2>2, <3>1, <3>2, <3>3
    <2>7. new.cost = cost * after /\ cost * after \in Nat
      <3>1. cost * after \in Nat
        BY ONLY <1>5, <2>3, Products
      <3>2. after = 0 => cost * after = 0
        BY ONLY <1>5
      <3>3. new.cost = IF after = 0 THEN 0 ELSE cost * quantity - released
        BY ONLY <2>5
      <3>. QED BY ONLY <2>6, <3>1, <3>2, <3>3, Zenon
    <2>8. less \in [{0} \union OpIds -> Int] /\ Summed(less) = after * cost
      <3>1. PICK S : S = {0} \union OpIds
        OBVIOUS
      <3>2. IsFiniteSet(S)
        BY <3>1, IdsAreFinite, FS_AddElement
      <3>3. \A x \in S : parts[x] \in Int /\ less[x] = parts[x] * after
        BY <1>5, <2>4, <3>1
      <3>4. \A x \in S : parts[x] \in Int /\ less[x] = after * parts[x] /\ less[x] \in Int
        BY ONLY <2>3, <3>3, Factors, Products
      <3>5. SumFunctionOnSet(less, S) = after * SumFunctionOnSet(parts, S)
        BY <2>3, <3>2, <3>4, SumTimes
      <3>6. less \in [{0} \union OpIds -> Int]
        BY <2>4, <3>1, <3>4
      <3>. QED BY <1>5, <3>1, <3>5, <3>6 DEF Summed
    <2>9. over * quantity \in Nat /\ over * quantity > 0
      BY ONLY <1>5, <2>1
    <2>10. (gain + net) * quantity - released \in Int
      <3>1. (gain + net) * quantity \in Int
        BY ONLY <1>5, <2>3, Products
      <3>. QED BY <2>3, <3>1
    <2>11. new \in Row
      BY <2>3, <2>5, <2>7, <2>8, <2>9, <2>10 DEF Row
    <2>12. Sound(new, op.pair)
      <3>1. cost * after = after * cost
        BY ONLY <1>5, <2>3, Factors
      <3>2. new.quantity = 0 => new.cost = 0
        BY <2>5
      <3>. QED BY <1>10, <2>5, <2>7, <2>8, <2>11, <3>1, <3>2 DEF Sound
    <2>13. new.quantity = quantity + Signed(op, op.quantity)
      BY <1>2, <1>3, <1>5, <1>10, <2>2, <2>5 DEF Signed
    <2>14. ASSUME NEW x \in OpIds, parts[x] = 0 PROVE new.parts[x] = 0
      BY <2>3, <2>4, <2>5, <2>14
    <2>15. ASSUME NEW paid \in Int, cost - gain = over * paid
           PROVE  new.cost - new.gain = new.over * (paid + PaidIn(op))
      <3>1. PaidIn(op) = fee - gross
        BY <1>2, <1>10 DEF PaidIn
      <3>2. new.cost - new.gain = cost * quantity - released - ((gain + net) * quantity - released)
        BY <2>5, <2>6, <2>7
      <3>3. cost * quantity - released - ((gain + net) * quantity - released)
              = (cost - (gain + net)) * quantity
        <4>1. cost \in Int /\ gain + net \in Int /\ quantity \in Int
          BY <1>5, <2>3
        <4>2. (cost - (gain + net)) * quantity = cost * quantity - (gain + net) * quantity
          BY ONLY <4>1, Factors
        <4>3. (gain + net) * quantity \in Int
          BY ONLY <4>1, Products
        <4>. QED BY ONLY <2>3, <2>6, <4>2, <4>3
      <3>4. cost - (gain + net) = over * (paid + (fee - gross))
        <4>1. gross - fee \in Int /\ fee - gross \in Int /\ over \in Int /\ paid + (fee - gross) \in Int
          BY <1>3, <1>5, <2>15
        <4>2. paid + (fee - gross) = paid - (gross - fee)
          BY <1>3, <2>15
        <4>3. (paid - (gross - fee)) * over = paid * over - (gross - fee) * over
          BY ONLY <2>15, <4>1, Factors
        <4>4. paid * over = over * paid /\ (paid + (fee - gross)) * over = over * (paid + (fee - gross))
          BY ONLY <2>15, <4>1, Factors
        <4>5. over * paid \in Int
          BY ONLY <2>15, <4>1, Products
        <4>. QED BY ONLY <1>5, <2>2, <2>3, <2>15, <4>2, <4>3, <4>4, <4>5
      <3>5. (over * (paid + (fee - gross))) * quantity = (over * quantity) * (paid + (fee - gross))
        <4>1. PICK y : y = paid + (fee - gross)
          OBVIOUS
        <4>2. y \in Int /\ over \in Int /\ quantity \in Int
          BY <1>3, <1>5, <2>15, <4>1
        <4>3. (over * y) * quantity = over * (y * quantity) /\ y * quantity = quantity * y
              /\ (over * quantity) * y = over * (quantity * y)
          BY ONLY <4>2, Factors
        <4>. QED BY ONLY <4>1, <4>3
      <3>. QED BY ONLY <2>5, <3>1, <3>2, <3>3, <3>4, <3>5
    <2>. QED BY <1>1, <1>4, <1>7, <2>12, <2>13, <2>14, <2>15
  <1>. QED BY <1>8, <1>9, <1>10

\* The row of a position that counts what has been replayed so far.
Counts(os, start, p, d, n, row) ==
    /\ Sound(row, p)
    /\ row.quantity = OpeningRow(os, start, d).quantity
                        + SumFunctionOnSet(Moves(os), Turns(os, p, d, n))
    /\ \A x \in OpIds \ Turns(os, p, d, n) : row.parts[x] = 0
    /\ row.cost - row.gain =
          row.over * (OpeningRow(os, start, d).cost
                        + SumFunctionOnSet([o \in Live(os) |-> PaidIn(os[o])], Turns(os, p, d, n)))

\* Money is counted at price 1.
AtOne(os, start, p) ==
    ~IsUnits(p) => /\ start.quantity = 0 \/ start.price = 1
                   /\ \A o \in Of(os, p) : os[o].price = 1

LEMMA OpeningCounts ==
  ASSUME NEW os \in [OpIds -> Operation \union {None}], NEW p, NEW d \in Int,
         NEW start \in Opening, AtOne(os, start, p)
  PROVE  /\ Counts(os, start, p, d, 0, OpeningRow(os, start, d))
         /\ OpeningRow(os, start, d).quantity \in Nat /\ OpeningRow(os, start, d).cost \in Int
  <1>1. PICK counted : counted = (start.date = Undated \/ start.date =< d)
    OBVIOUS
  <1>2. PICK held, value : /\ held = IF counted THEN start.quantity ELSE 0
                           /\ value = IF counted THEN start.quantity * start.price ELSE 0
    OBVIOUS
  <1>3. start.quantity \in Nat /\ start.price \in Nat
    BY DEF Opening
  <1>4. held \in Nat /\ value \in Nat /\ (held = 0 => value = 0)
    <2>1. start.quantity * start.price \in Nat
      BY ONLY <1>3, Products
    <2>2. start.quantity = 0 => start.quantity * start.price = 0
      BY ONLY <1>3
    <2>. QED BY <1>2, <1>3, <2>1, <2>2
  <1>5. ~IsUnits(p) => value = held
    <2>. SUFFICES ASSUME ~IsUnits(p) PROVE value = held
      OBVIOUS
    <2>1. start.quantity = 0 \/ start.price = 1
      BY DEF AtOne
    <2>2. start.quantity * start.price = start.quantity
      BY ONLY <1>3, <2>1
    <2>. QED BY <1>2, <2>2
  <1>6. PICK parts : parts = [part \in {0} \union OpIds |-> IF part = 0 THEN value ELSE 0]
    OBVIOUS
  <1>7. OpeningRow(os, start, d) =
           [quantity |-> held, cost |-> value, gain |-> 0, over |-> 1, parts |-> parts]
    <2>1. DOMAIN os = OpIds
      OBVIOUS
    <2>. QED BY ONLY <1>1, <1>2, <1>6, <2>1, Zenon DEF OpeningRow
  <1>8. parts \in [{0} \union OpIds -> Int] /\ parts[0] = value /\ \A x \in OpIds : parts[x] = 0
    BY <1>4, <1>6, IdsAreFinite
  <1>9. Summed(parts) = value
    <2>1. IsFiniteSet({0} \union OpIds)
      BY IdsAreFinite, FS_AddElement
    <2>2. PICK S : S = {0} \union OpIds
      OBVIOUS
    <2>3. IsFiniteSet(S) /\ 0 \in S /\ \A x \in S : parts[x] \in Int /\ (x # 0 => parts[x] = 0)
      BY <1>8, <2>1, <2>2
    <2>4. SumFunctionOnSet(parts, S) = parts[0]
      BY <2>3, SumOfOne
    <2>. QED BY <1>8, <2>2, <2>4 DEF Summed
  <1>10. Turns(os, p, d, 0) = {}
    BY EachHasItsTurn
  <1>11. Sound(OpeningRow(os, start, d), p)
    BY <1>4, <1>5, <1>7, <1>8, <1>9 DEF Sound, Row
  <1>12. PICK row : row = OpeningRow(os, start, d)
    OBVIOUS
  <1>13. row.quantity = held /\ row.cost = value /\ row.gain = 0 /\ row.over = 1 /\ row.parts = parts
    BY <1>7, <1>12
  <1>14. /\ SumFunctionOnSet(Moves(os), Turns(os, p, d, 0)) = 0
         /\ SumFunctionOnSet([o \in Live(os) |-> PaidIn(os[o])], Turns(os, p, d, 0)) = 0
    BY <1>10, SumOfNothing
  <1>15. row.quantity = row.quantity + 0 /\ row.cost - row.gain = row.over * (row.cost + 0)
    BY <1>4, <1>13
  <1>16. \A x \in OpIds \ Turns(os, p, d, 0) : row.parts[x] = 0
    BY <1>8, <1>13
  <1>17. Counts(os, start, p, d, 0, row)
    BY ONLY <1>11, <1>12, <1>14, <1>15, <1>16, Zenon DEF Counts
  <1>. QED BY <1>4, <1>12, <1>13, <1>17

\* What is paid for an operation is a number.
LEMMA PaidInIsInteger ==
  ASSUME NEW op \in Operation PROVE PaidIn(op) \in Int /\ Signed(op, op.quantity) \in Int
  <1>1. op.quantity \in Nat /\ op.price \in Nat /\ op.fees \in Nat
    BY DEF Operation, PosNat
  <1>2. Gross(op) \in Nat
    BY ONLY <1>1, Products DEF Gross
  <1>. QED BY <1>1, <1>2 DEF PaidIn, Signed, AppliedFee

LEMMA NextCounts ==
  ASSUME NEW os \in [OpIds -> Operation \union {None}], NEW p, NEW d \in Int,
         NEW start \in Opening, AtOne(os, start, p), Covered(os, start, p),
         NEW n \in 1 .. Cardinality(Counted(os, p, d)), NEW row, Counts(os, start, p, d, n - 1, row)
  PROVE  Counts(os, start, p, d, n, Replayed(os, row, Nth(os, p, d, n)))
  <1>1. PICK o : o = Nth(os, p, d, n)
    OBVIOUS
  <1>2. PICK before : before = Turns(os, p, d, n - 1)
    OBVIOUS
  <1>3. PICK after : after = Turns(os, p, d, n)
    OBVIOUS
  <1>4. /\ o \in Counted(os, p, d) /\ o \notin before /\ after = before \union {o}
        /\ EarlierOps(os, p, os[o].date, o) = before /\ Counted(os, p, d) \in SUBSET OpIds
    BY <1>1, <1>2, <1>3, EachHasItsTurn
  <1>5. after \in SUBSET Counted(os, p, d) /\ IsFiniteSet(after) /\ before = after \ {o} /\ o \in after
    <2>1. after \in SUBSET Counted(os, p, d)
      BY <1>3 DEF Turns
    <2>2. IsFiniteSet(after)
      BY <2>1, EachHasItsTurn, FS_Subset
    <2>. QED BY <1>4, <2>1, <2>2
  <1>6. /\ \A x \in Counted(os, p, d) : x \in Live(os) /\ os[x] \in Operation /\ os[x].pair = p
                                        /\ os[x].date =< d /\ x \in Of(os, p)
    BY <1>4 DEF Counted, Of, Live
  <1>7. PICK op : op = os[o]
    OBVIOUS
  <1>8. op \in Operation /\ op.pair = p /\ o \in OpIds /\ op.date =< d /\ o \in Of(os, p)
    BY <1>4, <1>6, <1>7
  <1>9. PICK moves : moves = Moves(os)
    OBVIOUS
  <1>10. PICK paid : paid = [x \in Live(os) |-> PaidIn(os[x])]
    OBVIOUS
  <1>11. /\ \A x \in after : moves[x] \in Int /\ paid[x] \in Int
         /\ moves[o] = Signed(op, op.quantity) /\ paid[o] = PaidIn(op)
    <2>1. \A x \in after : moves[x] = Signed(os[x], os[x].quantity) /\ paid[x] = PaidIn(os[x])
      BY <1>5, <1>6, <1>9, <1>10 DEF Moves
    <2>2. \A x \in after : moves[x] \in Int /\ paid[x] \in Int
      BY <1>5, <1>6, <2>1, PaidInIsInteger
    <2>. QED BY <1>5, <1>7, <2>1, <2>2
  <1>12. /\ SumFunctionOnSet(moves, after) = moves[o] + SumFunctionOnSet(moves, before)
         /\ SumFunctionOnSet(paid, after) = paid[o] + SumFunctionOnSet(paid, before)
         /\ SumFunctionOnSet(moves, before) \in Int /\ SumFunctionOnSet(paid, before) \in Int
    <2>1. before \in SUBSET after
      BY <1>5
    <2>. QED BY <1>5, <1>11, <2>1, SumLess, SumIsInt
  <1>13. PICK held, spent : /\ held = OpeningRow(os, start, d).quantity
                            /\ spent = OpeningRow(os, start, d).cost
    OBVIOUS
  <1>14. held \in Nat /\ spent \in Int
    BY <1>13, OpeningCounts
  <1>15. /\ Sound(row, p) /\ row.quantity = held + SumFunctionOnSet(moves, before)
         /\ \A x \in OpIds \ before : row.parts[x] = 0
         /\ row.cost - row.gain = row.over * (spent + SumFunctionOnSet(paid, before))
    BY <1>2, <1>9, <1>10, <1>13 DEF Counts
  <1>16. op.kind = "WITHDRAWAL" => op.quantity =< row.quantity
    <2>. SUFFICES ASSUME op.kind = "WITHDRAWAL" PROVE op.quantity =< row.quantity
      OBVIOUS
    <2>1. Fits(os, start, o)
      BY <1>8 DEF Covered
    <2>2. op.quantity =< start.quantity + SumFunctionOnSet(moves, before)
      BY <1>4, <1>7, <1>8, <1>9, <2>1 DEF Fits, SumOver
    <2>3. HasOpening(start) /\ start.date # Undated => start.date =< op.date
      BY <1>7, <2>1 DEF Fits
    <2>4. held = start.quantity
      <3>1. start.quantity \in Nat /\ start.date \in Dates \union {Undated} /\ op.date \in Dates
        BY <1>8 DEF Opening, Operation
      <3>2. held = IF start.date = Undated \/ start.date =< d THEN start.quantity ELSE 0
        BY <1>13 DEF OpeningRow
      <3>3. start.quantity # 0 => start.date = Undated \/ start.date =< op.date
        BY <2>3 DEF HasOpening
      <3>4. start.date # Undated => start.date \in Int
        BY <3>1, WorldIsNamed
      <3>5. op.date \in Int
        BY <3>1, WorldIsNamed
      <3>. QED BY <1>8, <3>1, <3>2, <3>3, <3>4, <3>5
    <2>. QED BY <1>15, <2>2, <2>4
  <1>17. ~IsUnits(p) => op.price = 1
    BY <1>7, <1>8 DEF AtOne
  <1>18. PICK new : new = Replayed(os, row, o)
    OBVIOUS
  <1>19. row.parts[o] = 0
    BY <1>4, <1>8, <1>15
  <1>20. spent + SumFunctionOnSet(paid, before) \in Int
    BY <1>12, <1>14
  <1>21. /\ Sound(new, p) /\ new.quantity = row.quantity + Signed(op, op.quantity)
         /\ \A x \in OpIds : x # o /\ row.parts[x] = 0 => new.parts[x] = 0
         /\ new.cost - new.gain = new.over * (spent + SumFunctionOnSet(paid, before) + PaidIn(op))
    BY <1>7, <1>8, <1>15, <1>16, <1>17, <1>18, <1>19, <1>20, RowAfterIs
  <1>22. spent + SumFunctionOnSet(paid, before) + PaidIn(op) = spent + SumFunctionOnSet(paid, after)
    BY <1>5, <1>11, <1>12, <1>14
  <1>23. new.quantity = held + SumFunctionOnSet(moves, after)
    BY <1>5, <1>11, <1>12, <1>14, <1>15, <1>21
  <1>24. \A x \in OpIds \ after : new.parts[x] = 0
    BY <1>4, <1>15, <1>21
  <1>. QED BY <1>1, <1>3, <1>9, <1>10, <1>13, <1>18, <1>21, <1>22, <1>23, <1>24 DEF Counts

\* Replaying a covered position explains its cost.
LEMMA ReplayCounts ==
  ASSUME NEW os \in [OpIds -> Operation \union {None}], NEW p, NEW d \in Int,
         NEW start \in Opening, AtOne(os, start, p), Covered(os, start, p)
  PROVE  /\ Sound(Replay(os, start, p, d), p)
         /\ Replay(os, start, p, d).cost - Replay(os, start, p, d).gain
              = Replay(os, start, p, d).over * Invested(os, start, p, d)
  <1>1. PICK last : last = Cardinality(Counted(os, p, d))
    OBVIOUS
  <1>2. last \in Nat /\ Turns(os, p, d, last) = Counted(os, p, d)
    BY <1>1, EachHasItsTurn
  <1>3. PICK replayed : /\ Replay(os, start, p, d) = replayed[last]
                    /\ replayed[0] = OpeningRow(os, start, d)
                    /\ \A n \in 1 .. last : replayed[n] = Replayed(os, replayed[n - 1], Nth(os, p, d, n))
    BY <1>1, <1>2, ReplayIs
  <1>. DEFINE Good == {n \in Nat : n =< last => Counts(os, start, p, d, n, replayed[n])}
  <1>4. 0 \in Good
    BY <1>3, OpeningCounts
  <1>5. ASSUME NEW n \in Nat, n \in Good PROVE n + 1 \in Good
    <2>. SUFFICES ASSUME n + 1 =< last PROVE Counts(os, start, p, d, n + 1, replayed[n + 1])
      OBVIOUS
    <2>1. PICK k : k = n + 1
      OBVIOUS
    <2>2. k \in 1 .. last /\ k - 1 = n /\ n =< last
      BY <1>2, <2>1
    <2>3. Counts(os, start, p, d, k - 1, replayed[k - 1])
      BY <1>5, <2>2
    <2>4. replayed[k] = Replayed(os, replayed[k - 1], Nth(os, p, d, k))
      BY <1>3, <2>2
    <2>5. Counts(os, start, p, d, k, Replayed(os, replayed[k - 1], Nth(os, p, d, k)))
      BY <1>1, <2>2, <2>3, NextCounts
    <2>. QED BY <2>1, <2>4, <2>5
  <1>6. last \in Good
    <2>. HIDE DEF Good
    <2>. QED BY <1>2, <1>4, <1>5, NumberInduction
  <1>7. Counts(os, start, p, d, last, replayed[last])
    BY <1>2, <1>6
  <1>. QED BY <1>2, <1>3, <1>7 DEF Counts, Invested, SumOver

\* What is counted in money is counted at 1, also what is about to be saved.
MoneyIsAtOne ==
    /\ \A p \in Pairs : AtOne(ops, opening[p], p)
    /\ request # None /\ request.of = "opening" /\ ~IsUnits(request.id) => request.seen.price = 1

LEMMA MoneyStaysAtOne ==
  ASSUME HoldingsInv, MoneyIsAtOne, [HoldingsNext]_holdingVars
  PROVE  MoneyIsAtOne'
  <1>1. /\ ops \in [OpIds -> Operation \union {None}]
        /\ opening \in [Pairs -> Opening \union {NoOpening}] /\ BookInv
    BY DEF HoldingsInv, BookInv, HoldingsTypeOK
  <1>2. /\ \A p \in Pairs : ~IsUnits(p) => opening[p].quantity = 0 \/ opening[p].price = 1
        /\ \A o \in OpIds : ops[o] # None => ops[o].pair \in Pairs /\ (~IsUnits(ops[o].pair) => ops[o].price = 1)
    <2>1. \A p \in Pairs : ~IsUnits(p) => opening[p].quantity = 0 \/ opening[p].price = 1
      BY DEF MoneyIsAtOne, AtOne
    <2>2. ASSUME NEW o \in OpIds, ops[o] # None
          PROVE  ops[o].pair \in Pairs /\ (~IsUnits(ops[o].pair) => ops[o].price = 1)
      <3>1. ops[o].pair \in Pairs
        BY <1>1, <2>2 DEF Operation
      <3>2. o \in Of(ops, ops[o].pair)
        BY <1>1, <2>2 DEF Of, Live
      <3>. QED BY <3>1, <3>2 DEF MoneyIsAtOne, AtOne
    <2>. QED BY <2>1, <2>2
  <1>3. SUFFICES
          /\ \A p \in Pairs : ~IsUnits(p) => opening'[p].quantity = 0 \/ opening'[p].price = 1
          /\ \A o \in DOMAIN ops' : ops'[o] # None /\ ~IsUnits(ops'[o].pair) => ops'[o].price = 1
          /\ request' # None /\ request'.of = "opening" /\ ~IsUnits(request'.id) => request'.seen.price = 1
    BY DEF MoneyIsAtOne, AtOne, Of, Live
  <1>4. CASE UNCHANGED holdingVars
    BY <1>1, <1>2, <1>4 DEF holdingVars, MoneyIsAtOne
  <1>5. CASE HoldingsNext
    <2>1. request' # None /\ request'.of = "opening" /\ ~IsUnits(request'.id) => request'.seen.price = 1
      <3>. SUFFICES ASSUME request' # None, request'.of = "opening", ~IsUnits(request'.id)
                    PROVE  request'.seen.price = 1
        OBVIOUS
      <3>1. CASE Submit
        <4>1. request' = request \/ request' = [request EXCEPT !.gone = TRUE]
          BY <3>1 DEF Submit, AtOnce
        <4>2. CASE request' = request
          BY <4>2 DEF MoneyIsAtOne
        <4>3. CASE request' = [request EXCEPT !.gone = TRUE] /\ request = None
          <5>1. CutsLink => FALSE
            BY <4>3 DEF CutsLink, InFlight
          <5>. QED BY <3>1, <4>3, <5>1 DEF Submit, AtOnce
        <4>4. CASE request' = [request EXCEPT !.gone = TRUE] /\ request # None
          <5>1. request = [of |-> request.of, id |-> request.id, seen |-> request.seen,
                           gone |-> request.gone]
            BY <4>4 DEF HoldingsInv, FlightInv
          <5>2. request'.of = request.of /\ request'.id = request.id /\ request'.seen = request.seen
            BY <4>4, <5>1
          <5>. QED BY <4>4, <5>2 DEF MoneyIsAtOne
        <4>. QED BY <4>1, <4>2, <4>3, <4>4
      <3>2. CASE Resume \/ SaveOpening
        BY <3>2 DEF Resume, SaveOpening
      <3>3. CASE \/ \E o \in Live(ops) : Loads("operation", o, ops[o])
                 \/ \E e \in HandEntries : Loads("entry", e, entries[e])
        BY <3>3 DEF Loads
      <3>4. ASSUME NEW p \in Pairs, NEW form \in Openings[p], CheckOpening(p, form)
            PROVE  request'.seen.price = 1
        <4>1. request' = [of |-> "opening", id |-> p, seen |-> form, gone |-> FALSE]
          BY <3>4 DEF CheckOpening
        <4>2. p \in Pairs \ UnitPairs
          BY <4>1 DEF IsUnits
        <4>. QED BY <4>1, <4>2, FormsAreValid
      <3>5. CASE \/ \E form \in RateForms : SetRate(form)
                 \/ \E form \in RateForms : DeleteRate(form.from, form.to, form.date)
                 \/ \E c \in Currencies : ChangeBase(c)
        <4>1. request' = request
          BY <3>5 DEF SetRate, DeleteRate, ChangeBase
        <4>. QED BY <4>1 DEF MoneyIsAtOne
      <3>. QED BY <1>5, <3>1, <3>2, <3>3, <3>4, <3>5 DEF HoldingsNext
    <2>2. CASE SavesOperation
      <3>1. PICK o \in OpIds, seen \in Operation \union {None}, form \in OperationForms :
               Knows(o, seen) /\ SaveOperation(o, seen, form)
        BY <2>2 DEF SavesOperation
      <3>2. PICK op : ops' = [ops EXCEPT ![o] = op] /\ op.price = form.price /\ op.pair = form.pair
                        /\ opening' = opening
        BY <3>1 DEF SaveOperation, Written
      <3>3. ~IsUnits(form.pair) => form.price = 1
        BY FormsAreValid
      <3>. QED BY <1>1, <1>2, <2>1, <3>2, <3>3
    <2>3. CASE DeletesOperation
      <3>1. PICK o \in OpIds : ops' = [ops EXCEPT ![o] = None] /\ opening' = opening
        BY <2>3 DEF DeletesOperation, DeleteOperation
      <3>. QED BY <1>1, <1>2, <2>1, <3>1
    <2>4. CASE DeletesEntry
      <3>1. PICK e \in EntryIds, seen \in PointsEntry :
               /\ DeleteEntry(e, seen)
               /\ \A r \in Live(redemptions) : redemptions[r].entry # e
        BY <2>4 DEF DeletesEntry
      <3>2. /\ opening' = opening
            /\ ops' = [o \in OpIds |-> IF ops[o] # None /\ ops[o].entry = e
                                       THEN [ops[o] EXCEPT !.entry = None] ELSE ops[o]]
        BY <3>1 DEF DeleteEntry
      <3>3. ASSUME NEW o \in OpIds, ops'[o] # None
            PROVE  ops[o] # None /\ ops'[o].pair = ops[o].pair /\ ops'[o].price = ops[o].price
        <4>1. CASE ops[o] # None /\ ops[o].entry = e
          <5>1. ops[o] \in Operation
            BY <1>1, <4>1
          <5>2. ops'[o] = [ops[o] EXCEPT !.entry = None]
            BY <3>2, <4>1
          <5>. QED BY <4>1, <5>1, <5>2 DEF Operation
        <4>2. CASE ~(ops[o] # None /\ ops[o].entry = e)
          BY <3>2, <3>3, <4>2
        <4>. QED BY <4>1, <4>2
      <3>4. DOMAIN ops' = OpIds
        BY <3>2
      <3>. QED BY <1>2, <2>1, <3>2, <3>3, <3>4
    <2>5. CASE SavesEntry \/ Converts
      <3>1. ops' = ops /\ opening' = opening
        BY <1>1, <2>5, SaveRedemptionKeeps DEF SavesEntry, SaveEntry, Converts, SaveRedemption
      <3>. QED BY <1>1, <1>2, <2>1, <3>1
    <2>6. CASE LeavesTheBooks
      <3>1. CASE opening' = opening
        BY <1>1, <1>2, <2>1, <2>6, <3>1 DEF LeavesTheBooks
      <3>2. CASE opening' # opening
        <4>1. /\ request # None /\ request.of = "opening" /\ ops' = ops
              /\ opening' = [opening EXCEPT ![request.id] = request.seen]
          BY <2>6, <3>2 DEF LeavesTheBooks
        <4>2. ~IsUnits(request.id) => request.seen.price = 1
          BY <4>1 DEF MoneyIsAtOne
        <4>. QED BY <1>1, <1>2, <2>1, <4>1, <4>2
      <3>. QED BY <3>1, <3>2
    <2>. QED BY <1>5, <2>2, <2>3, <2>4, <2>5, <2>6, StepsAre
  <1>. QED BY <1>4, <1>5

LEMMA MoneyStartsAtOne ==
  ASSUME HoldingsInit PROVE MoneyIsAtOne
  <1>1. /\ \A p \in Pairs : opening[p].quantity = 0
        /\ \A o \in OpIds : ops[o] = None
        /\ DOMAIN ops = OpIds /\ request = None
    BY DEF HoldingsInit, NoOpening
  <1>. QED BY <1>1 DEF MoneyIsAtOne, AtOne, Of, Live

\* The parts a cost was paid in add up to the cost that is left, nothing is
\* left of a position that was sold out, and what was paid and not received
\* back is either cost that is left or a loss, for any history that is never
\* sold short, whatever is bought, sold, yielded or charged (positions.py).
THEOREM CostsAreExplained == HoldingsSpec => []CostIsExplained
  <1>1. ASSUME HoldingsInv, MoneyIsAtOne PROVE CostIsExplained
    <2>. SUFFICES ASSUME NEW p \in Pairs, NEW d \in Dates, Covered(ops, opening[p], p),
                         NEW row, row = Replay(ops, opening[p], p, d)
                  PROVE  /\ row.cost = SumOver(DOMAIN row.parts, row.parts)
                         /\ row.cost - row.gain = row.over * Invested(ops, opening[p], p, d)
                         /\ row.quantity >= 0 /\ row.cost >= 0 /\ row.over > 0
                         /\ row.quantity = 0 => row.cost = 0
      BY DEF CostIsExplained
    <2>1. /\ ops \in [OpIds -> Operation \union {None}] /\ d \in Int
          /\ opening[p] \in Opening /\ AtOne(ops, opening[p], p)
      <3>1. opening[p] \in Opening
        BY <1>1 DEF HoldingsInv, BookInv, HoldingsTypeOK, Opening, NoOpening
      <3>. QED BY <1>1, <3>1, WorldIsNamed DEF HoldingsInv, BookInv, HoldingsTypeOK, MoneyIsAtOne
    <2>2. Sound(row, p) /\ row.cost - row.gain = row.over * Invested(ops, opening[p], p, d)
      BY <2>1, ReplayCounts
    <2>3. /\ row.quantity \in Nat /\ row.cost \in Nat /\ row.over \in Nat \ {0}
          /\ DOMAIN row.parts = {0} \union OpIds
          /\ row.cost = Summed(row.parts) /\ (row.quantity = 0 => row.cost = 0)
      BY <2>2 DEF Sound, Row
    <2>. QED BY <2>2, <2>3 DEF Summed, SumOver
  <1>2. ASSUME HoldingsInv, MoneyIsAtOne, [HoldingsNext]_holdingVars PROVE MoneyIsAtOne'
    BY <1>2, MoneyStaysAtOne
  <1>. QED BY <1>1, <1>2, MoneyStartsAtOne, HoldingsAreWellFormed, PTL DEF HoldingsSpec
=============================================================================
