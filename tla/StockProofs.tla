----------------------------- MODULE StockProofs -----------------------------
(***************************************************************************)
(* Machine-checked proofs about the stock and the carts of Marketplace:    *)
(* whatever checkouts race for a product, what left its stock is covered   *)
(* by ordered units, an accepted cart becomes one order per seller with    *)
(* every unit in it, and every step of a handler leaves it fewer to take.  *)
(*                                                                         *)
(* All are about sums over lines, orders, goroutines and events, so the    *)
(* laws of summing come first.  A sum over a finite set is a recursive     *)
(* function of its subsets; what is said of every finite set is proved     *)
(* by its first failure, for set inclusion is well founded.                *)
(***************************************************************************)
EXTENDS MarketplaceProofs

-----------------------------------------------------------------------------
(* Sums.                                                                   *)

First(S) == CHOOSE x \in S : TRUE

\* g sums f over the subsets of S.
Adds(g, f, S) ==
  g = [s \in SUBSET S |-> IF s = {} THEN 0 ELSE f[First(s)] + g[s \ {First(s)}]]

\* The library's sum is that function at the whole set.
LEMMA SumIs ==
  ASSUME NEW f, NEW S
  PROVE  SumFunctionOnSet(f, S) = (CHOOSE g : Adds(g, f, S))[S]
BY DEF SumFunctionOnSet, FoldFunctionOnSet, MapThenFoldSet, Adds, First

\* A property of finite sets that fails somewhere fails first at a set all of
\* whose strict subsets have it.
LEMMA FirstFailure ==
  ASSUME NEW S, IsFiniteSet(S), NEW Bad \in SUBSET (SUBSET S), Bad # {}
  PROVE  \E T \in Bad : \A U \in Bad : ~ (U \subseteq T /\ U # T)
<1>1. IsWellFoundedOn(StrictSubsetOrdering(S), FiniteSubsetsOf(S))
  BY FS_StrictSubsetOrderingWellFounded
<1>2. Bad \subseteq FiniteSubsetsOf(S)
  BY FS_Subset DEF FiniteSubsetsOf
<1>3. PICK T \in Bad : \A U \in Bad : <<U, T>> \notin StrictSubsetOrdering(S)
  BY <1>1, <1>2, WFMin
<1>4. ASSUME NEW U \in Bad, U \subseteq T, U # T PROVE FALSE
  BY <1>3, <1>4 DEF StrictSubsetOrdering
<1>5. QED
  BY <1>4

\* What a choice promises.
LEMMA FirstIn == \A S : S # {} => First(S) \in S
  BY DEF First

\* There is only one such function.
LEMMA OneAdds ==
  ASSUME NEW f, NEW S, IsFiniteSet(S), NEW g, NEW h, Adds(g, f, S), Adds(h, f, S)
  PROVE  g = h
<1> DEFINE Bad == {s \in SUBSET S : g[s] # h[s]}
<1>1. SUFFICES ASSUME Bad # {} PROVE FALSE
  BY DEF Adds
<1>2. PICK T \in Bad : \A U \in Bad : ~ (U \subseteq T /\ U # T)
  <2>1. Bad \in SUBSET (SUBSET S)
    OBVIOUS
  <2> HIDE DEF Bad
  <2>2. QED
    BY <1>1, <2>1, FirstFailure
<1>3. /\ g[T] = IF T = {} THEN 0 ELSE f[First(T)] + g[T \ {First(T)}]
      /\ h[T] = IF T = {} THEN 0 ELSE f[First(T)] + h[T \ {First(T)}]
  BY DEF Adds
<1>4. T # {} => g[T \ {First(T)}] = h[T \ {First(T)}]
  BY <1>2, FirstIn
<1>5. QED
  BY <1>3, <1>4

\* What it is for a smaller set.
LEMMA SmallerAdds ==
  ASSUME NEW f, NEW S, NEW g, Adds(g, f, S), NEW T \in SUBSET S
  PROVE  Adds([s \in SUBSET T |-> g[s]], f, T)
<1> DEFINE h == [s \in SUBSET T |-> g[s]]
<1>1. ASSUME NEW s \in SUBSET T
      PROVE  h[s] = IF s = {} THEN 0 ELSE f[First(s)] + h[s \ {First(s)}]
  <2>1. g[s] = IF s = {} THEN 0 ELSE f[First(s)] + g[s \ {First(s)}]
    BY DEF Adds
  <2>2. QED
    BY <2>1
<1>2. QED
  BY <1>1 DEF Adds

\* There is one.
LEMMA SomeAdds ==
  ASSUME NEW f, NEW S, IsFiniteSet(S)
  PROVE  Adds(CHOOSE g : Adds(g, f, S), f, S)
<1> DEFINE Bad == {s \in SUBSET S : ~ \E g : Adds(g, f, s)}
<1>1. SUFFICES ASSUME Bad # {} PROVE FALSE
  <2>1. S \notin Bad
    BY <1>1
  <2>2. \E g : Adds(g, f, S)
    BY <2>1
  <2>3. QED
    BY <2>2
<1>2. PICK T \in Bad : \A U \in Bad : ~ (U \subseteq T /\ U # T)
  <2>1. Bad \in SUBSET (SUBSET S)
    OBVIOUS
  <2> HIDE DEF Bad
  <2>2. QED
    BY <1>1, <2>1, FirstFailure
<1>3. PICK F : F = [s \in SUBSET T |-> CHOOSE g : Adds(g, f, s)]
  OBVIOUS
<1>4. ASSUME NEW s \in SUBSET T, s # T PROVE Adds(F[s], f, s)
  <2>1. \E g : Adds(g, f, s)
    BY <1>2, <1>4
  <2>2. QED
    BY <1>3, <2>1
<1>5. ASSUME NEW s \in SUBSET T, s # T, NEW u \in SUBSET s PROVE F[s][u] = F[u][u]
  <2>1. Adds([v \in SUBSET u |-> F[s][v]], f, u)
    BY <1>4, <1>5, SmallerAdds
  <2>2. Adds(F[u], f, u)
    BY <1>4, <1>5
  <2>3. IsFiniteSet(u)
    BY FS_Subset, <1>2
  <2>4. F[u] = [v \in SUBSET u |-> F[s][v]]
    BY <2>1, <2>2, <2>3, OneAdds
  <2>5. QED
    BY <2>4
<1> DEFINE g == [s \in SUBSET T |-> IF s # T THEN F[s][s]
                                    ELSE IF T = {} THEN 0
                                    ELSE f[First(T)] + F[T \ {First(T)}][T \ {First(T)}]]
<1>6. ASSUME NEW s \in SUBSET T
      PROVE  g[s] = IF s = {} THEN 0 ELSE f[First(s)] + g[s \ {First(s)}]
  <2>1. s # {} => s \ {First(s)} \in SUBSET T /\ s \ {First(s)} # T /\ s \ {First(s)} \in SUBSET s
    BY FirstIn
  <2>2. CASE s = T
    BY <2>1, <2>2
  <2>3. CASE s # T
    <3>1. g[s] = F[s][s]
      BY <2>3
    <3>2. F[s][s] = IF s = {} THEN 0 ELSE f[First(s)] + F[s][s \ {First(s)}]
      BY <1>4, <2>3 DEF Adds
    <3>3. s # {} => F[s][s \ {First(s)}] = F[s \ {First(s)}][s \ {First(s)}]
      BY <1>5, <2>1, <2>3
    <3>4. s # {} => g[s \ {First(s)}] = F[s \ {First(s)}][s \ {First(s)}]
      BY <2>1
    <3> HIDE DEF g
    <3>5. QED
      BY <3>1, <3>2, <3>3, <3>4
  <2>4. QED
    BY <2>2, <2>3
<1>7. Adds(g, f, T)
  BY <1>6 DEF Adds
<1>8. QED
  BY <1>2, <1>7

\* Summing: the first element and the rest.
LEMMA SumFirst ==
  ASSUME NEW f, NEW S, IsFiniteSet(S)
  PROVE  SumFunctionOnSet(f, S)
           = IF S = {} THEN 0 ELSE f[First(S)] + SumFunctionOnSet(f, S \ {First(S)})
<1> DEFINE T == S \ {First(S)}
           g == CHOOSE x : Adds(x, f, S)
           h == CHOOSE x : Adds(x, f, T)
<1>1. Adds(g, f, S)
  BY SomeAdds
<1>2. IsFiniteSet(T)
  BY FS_Subset
<1>3. Adds(h, f, T)
  BY <1>2, SomeAdds
<1>4. Adds([s \in SUBSET T |-> g[s]], f, T)
  BY <1>1, SmallerAdds
<1>5. SumFunctionOnSet(f, S) = g[S] /\ SumFunctionOnSet(f, T) = h[T]
  BY SumIs
<1> HIDE DEF g, h
<1>6. h = [s \in SUBSET T |-> g[s]]
  BY <1>2, <1>3, <1>4, OneAdds
<1>7. g[S] = IF S = {} THEN 0 ELSE f[First(S)] + g[T]
  BY <1>1 DEF Adds
<1>8. QED
  BY <1>5, <1>6, <1>7

\* Nothing to sum.
LEMMA SumNone == \A f : SumFunctionOnSet(f, {}) = 0
  BY SumFirst, FS_EmptySet

\* A sum of integers is one.
LEMMA SumInt ==
  ASSUME NEW S, IsFiniteSet(S), NEW f, \A x \in S : f[x] \in Int
  PROVE  SumFunctionOnSet(f, S) \in Int
<1> DEFINE Bad == {s \in SUBSET S : SumFunctionOnSet(f, s) \notin Int}
<1>1. SUFFICES ASSUME Bad # {} PROVE FALSE
  OBVIOUS
<1>2. PICK T \in Bad : \A U \in Bad : ~ (U \subseteq T /\ U # T)
  <2>1. Bad \in SUBSET (SUBSET S)
    OBVIOUS
  <2> HIDE DEF Bad
  <2>2. QED
    BY <1>1, <2>1, FirstFailure
<1>3. IsFiniteSet(T)
  BY FS_Subset
<1>4. CASE T = {}
  BY <1>2, <1>4, SumNone
<1>5. CASE T # {}
  <2>1. First(T) \in T
    BY <1>5, FirstIn
  <2>2. T \ {First(T)} \notin Bad
    BY <1>2, <2>1
  <2>3. SumFunctionOnSet(f, T \ {First(T)}) \in Int
    BY <2>2
  <2>4. SumFunctionOnSet(f, T) = f[First(T)] + SumFunctionOnSet(f, T \ {First(T)})
    BY <1>3, <1>5, SumFirst
  <2>5. QED
    BY <2>1, <2>3, <2>4
<1>6. QED
  BY <1>4, <1>5

\* The order of summing makes no difference: any element and the rest.
LEMMA SumRest ==
  ASSUME NEW S, IsFiniteSet(S), NEW f, \A x \in S : f[x] \in Int, NEW x \in S
  PROVE  SumFunctionOnSet(f, S) = f[x] + SumFunctionOnSet(f, S \ {x})
<1> DEFINE Sum(s) == SumFunctionOnSet(f, s)
           Bad == {s \in SUBSET S : \E y \in s : Sum(s) # f[y] + Sum(s \ {y})}
<1>1. SUFFICES ASSUME Bad # {} PROVE FALSE
  OBVIOUS
<1>2. PICK T \in Bad : \A U \in Bad : ~ (U \subseteq T /\ U # T)
  <2>1. Bad \in SUBSET (SUBSET S)
    OBVIOUS
  <2> HIDE DEF Bad
  <2>2. QED
    BY <1>1, <2>1, FirstFailure
<1>3. PICK y \in T : Sum(T) # f[y] + Sum(T \ {y})
  OBVIOUS
<1>4. PICK z : z = First(T)
  OBVIOUS
<1>5. z \in T /\ z # y
  <2>1. z \in T /\ IsFiniteSet(T)
    BY <1>3, <1>4, FirstIn, FS_Subset
  <2>2. Sum(T) = f[z] + Sum(T \ {z})
    BY <1>3, <1>4, <2>1, SumFirst
  <2>3. QED
    BY <1>3, <2>1, <2>2
<1>6. Sum(T) = f[z] + Sum(T \ {z})
  <2>1. IsFiniteSet(T) /\ T # {}
    BY <1>3, FS_Subset
  <2>2. QED
    BY <1>4, <2>1, SumFirst
<1>7. Sum(T \ {z}) = f[y] + Sum((T \ {z}) \ {y})
  <2>1. T \ {z} \notin Bad /\ T \ {z} \in SUBSET S
    BY <1>2, <1>5
  <2>2. QED
    BY <1>5, <2>1
<1>8. Sum(T \ {y}) = f[z] + Sum((T \ {y}) \ {z})
  <2>1. T \ {y} \notin Bad /\ T \ {y} \in SUBSET S
    BY <1>2, <1>3
  <2>2. QED
    BY <1>5, <2>1
<1>9. (T \ {y}) \ {z} = (T \ {z}) \ {y}
  OBVIOUS
<1>10. f[y] \in Int /\ f[z] \in Int /\ Sum((T \ {z}) \ {y}) \in Int
  <2>1. IsFiniteSet((T \ {z}) \ {y}) /\ (T \ {z}) \ {y} \subseteq S
    BY FS_Subset
  <2>2. QED
    BY <1>3, <1>5, <2>1, SumInt
<1> HIDE DEF Sum
<1>11. QED
  BY <1>3, <1>6, <1>7, <1>8, <1>9, <1>10

\* Only the values on the set count.
LEMMA SumSame ==
  ASSUME NEW S, IsFiniteSet(S), NEW f, NEW g, \A x \in S : f[x] = g[x]
  PROVE  SumFunctionOnSet(f, S) = SumFunctionOnSet(g, S)
<1> DEFINE Bad == {s \in SUBSET S : SumFunctionOnSet(f, s) # SumFunctionOnSet(g, s)}
<1>1. SUFFICES ASSUME Bad # {} PROVE FALSE
  OBVIOUS
<1>2. PICK T \in Bad : \A U \in Bad : ~ (U \subseteq T /\ U # T)
  <2>1. Bad \in SUBSET (SUBSET S)
    OBVIOUS
  <2> HIDE DEF Bad
  <2>2. QED
    BY <1>1, <2>1, FirstFailure
<1>3. IsFiniteSet(T)
  BY FS_Subset
<1>4. /\ SumFunctionOnSet(f, T) = IF T = {} THEN 0
           ELSE f[First(T)] + SumFunctionOnSet(f, T \ {First(T)})
      /\ SumFunctionOnSet(g, T) = IF T = {} THEN 0
           ELSE g[First(T)] + SumFunctionOnSet(g, T \ {First(T)})
  BY <1>3, SumFirst
<1>5. T # {} => First(T) \in S /\ T \ {First(T)} \notin Bad
  BY <1>2, FirstIn
<1>6. T # {} => SumFunctionOnSet(f, T \ {First(T)}) = SumFunctionOnSet(g, T \ {First(T)})
  BY <1>5
<1>7. QED
  BY <1>4, <1>5, <1>6

\* Nothing negative adds up to something negative.
LEMMA SumNat ==
  ASSUME NEW S, IsFiniteSet(S), NEW f, \A x \in S : f[x] \in Nat
  PROVE  SumFunctionOnSet(f, S) \in Nat
<1> DEFINE Bad == {s \in SUBSET S : SumFunctionOnSet(f, s) \notin Nat}
<1>1. SUFFICES ASSUME Bad # {} PROVE FALSE
  OBVIOUS
<1>2. PICK T \in Bad : \A U \in Bad : ~ (U \subseteq T /\ U # T)
  <2>1. Bad \in SUBSET (SUBSET S)
    OBVIOUS
  <2> HIDE DEF Bad
  <2>2. QED
    BY <1>1, <2>1, FirstFailure
<1>3. IsFiniteSet(T)
  BY FS_Subset
<1>4. SumFunctionOnSet(f, T) = IF T = {} THEN 0
           ELSE f[First(T)] + SumFunctionOnSet(f, T \ {First(T)})
  BY <1>3, SumFirst
<1>5. T # {} => f[First(T)] \in Nat /\ T \ {First(T)} \notin Bad
  BY <1>2, FirstIn
<1>6. T # {} => SumFunctionOnSet(f, T \ {First(T)}) \in Nat
  BY <1>5
<1>7. QED
  BY <1>2, <1>4, <1>5, <1>6

\* Zeros add up to zero.
LEMMA SumZero ==
  ASSUME NEW S, IsFiniteSet(S), NEW f, \A x \in S : f[x] = 0
  PROVE  SumFunctionOnSet(f, S) = 0
<1> DEFINE Bad == {s \in SUBSET S : SumFunctionOnSet(f, s) # 0}
<1>1. SUFFICES ASSUME Bad # {} PROVE FALSE
  OBVIOUS
<1>2. PICK T \in Bad : \A U \in Bad : ~ (U \subseteq T /\ U # T)
  <2>1. Bad \in SUBSET (SUBSET S)
    OBVIOUS
  <2> HIDE DEF Bad
  <2>2. QED
    BY <1>1, <2>1, FirstFailure
<1>3. IsFiniteSet(T)
  BY FS_Subset
<1>4. SumFunctionOnSet(f, T) = IF T = {} THEN 0
           ELSE f[First(T)] + SumFunctionOnSet(f, T \ {First(T)})
  BY <1>3, SumFirst
<1>5. T # {} => f[First(T)] = 0 /\ T \ {First(T)} \notin Bad
  BY <1>2, FirstIn
<1>6. T # {} => SumFunctionOnSet(f, T \ {First(T)}) = 0
  BY <1>5
<1>7. QED
  BY <1>2, <1>4, <1>5, <1>6

\* One more element.
LEMMA SumWith ==
  ASSUME NEW S, IsFiniteSet(S), NEW x, x \notin S,
         NEW f, NEW g, \A y \in S : f[y] \in Int /\ g[y] = f[y], g[x] \in Int
  PROVE  SumFunctionOnSet(g, S \cup {x}) = SumFunctionOnSet(f, S) + g[x]
<1>1. PICK T : T = S \cup {x}
  OBVIOUS
<1>2. IsFiniteSet(T) /\ x \in T /\ T \ {x} = S
  BY <1>1, FS_AddElement
<1>3. SumFunctionOnSet(g, T) = g[x] + SumFunctionOnSet(g, T \ {x})
  BY <1>1, <1>2, SumRest
<1>4. SumFunctionOnSet(g, T) = g[x] + SumFunctionOnSet(g, S)
  BY <1>2, <1>3, Zenon
<1>5. SumFunctionOnSet(g, S) = SumFunctionOnSet(f, S)
  BY SumSame
<1>6. SumFunctionOnSet(f, S) \in Int
  BY SumInt
<1>7. SumFunctionOnSet(g, T) = SumFunctionOnSet(f, S) + g[x]
  BY <1>4, <1>5, <1>6
<1>8. QED
  BY <1>1, <1>7

\* One value changes.
LEMMA SumChanged ==
  ASSUME NEW S, IsFiniteSet(S), NEW x \in S,
         NEW f, NEW g, \A y \in S : f[y] \in Int /\ g[y] \in Int,
         \A y \in S \ {x} : g[y] = f[y]
  PROVE  SumFunctionOnSet(g, S) = SumFunctionOnSet(f, S) + g[x] - f[x]
<1>1. /\ SumFunctionOnSet(g, S) = g[x] + SumFunctionOnSet(g, S \ {x})
      /\ SumFunctionOnSet(f, S) = f[x] + SumFunctionOnSet(f, S \ {x})
  BY SumRest
<1>2. IsFiniteSet(S \ {x})
  BY FS_Subset
<1>3. SumFunctionOnSet(g, S \ {x}) = SumFunctionOnSet(f, S \ {x})
  BY <1>2, SumSame
<1>4. SumFunctionOnSet(f, S \ {x}) \in Int
  BY <1>2, SumInt
<1>5. QED
  BY <1>1, <1>3, <1>4

-----------------------------------------------------------------------------
(* Units of a product.                                                     *)

\* What each line of a list has of product p.
Amount(items, p) ==
  [i \in DOMAIN items |-> IF items[i].product = p THEN items[i].quantity ELSE 0]

\* The units of a list are those of its lines.
LEMMA UnitsAre ==
  ASSUME NEW items \in Seq(Line), NEW p
  PROVE  /\ Units(items, p) = SumFunctionOnSet(Amount(items, p), 1 .. Len(items))
         /\ \A i \in 1 .. Len(items) : Amount(items, p)[i] \in Int
         /\ Units(items, p) \in Int
<1>1. DOMAIN items = 1 .. Len(items) /\ DOMAIN Amount(items, p) = DOMAIN items
  BY DEF Amount
<1>2. Units(items, p) = SumFunctionOnSet(Amount(items, p), DOMAIN Amount(items, p))
  BY DEF Units, SumFunction, Amount
<1>3. Units(items, p) = SumFunctionOnSet(Amount(items, p), 1 .. Len(items))
  BY <1>1, <1>2
<1>4. \A i \in 1 .. Len(items) : Amount(items, p)[i] \in Int
  <2>1. \A i \in 1 .. Len(items) : items[i] \in Line
    OBVIOUS
  <2>2. \A i \in 1 .. Len(items) : items[i].quantity \in Int
    BY <2>1 DEF Line
  <2>3. QED
    BY <1>1, <2>2 DEF Amount
<1>5. IsFiniteSet(1 .. Len(items))
  BY FS_Interval
<1>6. SumFunctionOnSet(Amount(items, p), 1 .. Len(items)) \in Int
  BY <1>4, <1>5, SumInt
<1>7. QED
  BY <1>3, <1>4, <1>6

\* The units of the lines from the k-th on.
UnitsFrom(items, k, p) == SumFunctionOnSet(Amount(items, p), k .. Len(items))

\* What passed the check is a line.
LEMMA WantedLines == \A items \in Seq(Wanted) : items \in Seq(Line)
<1>1. \A l \in Wanted : l \in Line
  BY DEF Wanted, Line
<1>2. QED
  BY <1>1

\* One line and the lines after it.
LEMMA TailSteps ==
  ASSUME NEW items \in Seq(Wanted), NEW k \in 1 .. Len(items), NEW p
  PROVE  /\ Amount(items, p)[k] = IF items[k].product = p THEN items[k].quantity ELSE 0
         /\ Amount(items, p)[k] \in Nat
         /\ UnitsFrom(items, k, p) = Amount(items, p)[k] + UnitsFrom(items, k + 1, p)
         /\ UnitsFrom(items, k, p) \in Nat /\ UnitsFrom(items, k + 1, p) \in Nat
         /\ k = Len(items) => UnitsFrom(items, k + 1, p) = 0
<1> DEFINE f == Amount(items, p)
           n == Len(items)
<1>1. \A i \in 1 .. n : f[i] = (IF items[i].product = p THEN items[i].quantity ELSE 0) /\ f[i] \in Nat
  <2>1. \A i \in 1 .. n : items[i] \in Wanted
    OBVIOUS
  <2>2. QED
    BY <2>1 DEF Amount, Wanted
<1> HIDE DEF f
<1>2. n \in Nat
  OBVIOUS
<1> HIDE DEF n
<1>3. IsFiniteSet(k .. n) /\ IsFiniteSet(k + 1 .. n) /\ k \in k .. n
  BY <1>2, FS_Interval DEF n
<1>4. PICK K, R : K = k .. n /\ R = K \ {k}
  OBVIOUS
<1>5. R = k + 1 .. n
  BY <1>2, <1>4 DEF n
<1>6. \A i \in k .. n : f[i] \in Nat
  BY <1>1, <1>2 DEF n
<1>7. SumFunctionOnSet(f, K) = f[k] + SumFunctionOnSet(f, K \ {k})
  <2>1. IsFiniteSet(K) /\ k \in K /\ \A i \in K : f[i] \in Int
    BY <1>3, <1>4, <1>6
  <2>2. QED
    BY <2>1, SumRest
<1>8. SumFunctionOnSet(f, k .. n) = f[k] + SumFunctionOnSet(f, k + 1 .. n)
  BY <1>4, <1>5, <1>7, Zenon
<1>9. SumFunctionOnSet(f, k .. n) \in Nat
  BY <1>3, <1>6, SumNat
<1>10. SumFunctionOnSet(f, k + 1 .. n) \in Nat
  <2>1. \A i \in k + 1 .. n : f[i] \in Nat
    BY <1>1, <1>2 DEF n
  <2>2. QED
    BY <1>3, <2>1, SumNat
<1>11. ASSUME k = n PROVE SumFunctionOnSet(f, k + 1 .. n) = 0
  <2>1. k + 1 .. n = {}
    BY <1>2, <1>11
  <2>2. QED
    BY <2>1, SumNone
<1>12. QED
  BY <1>1, <1>8, <1>9, <1>10, <1>11 DEF f, n, UnitsFrom

-----------------------------------------------------------------------------
(* The account of a product's stock.                                       *)

\* What a goroutine has still to take from the stock for its present order.
Left(c, p) ==
  IF c.op = "checkout" /\ c.pc = "decrement" THEN UnitsFrom(c.items, c.line, p) ELSE 0

Owed(p) == SumFunctionOnSet([s \in Slots |-> Left(call[s], p)], Slots)

Taken(p) == IF p \in DOMAIN products THEN Offers[p].quantity - products[p].quantity ELSE 0

\* What is taken and what will be was ordered, and nothing is taken that is
\* not there.
Account(p) ==
  /\ Taken(p) + Owed(p) <= OrderedUnits(p)
  /\ 0 <= Taken(p)
  /\ Taken(p) > 0 => products[p].quantity >= 0

SInv == LInv /\ IsFiniteSet(DOMAIN orders) /\ \A p \in Products : Account(p)

\* The account is about numbers.
LEMMA LeftNat ==
  ASSUME NEW s \in Slots, NEW c, CallTyped(s, c), NEW p
  PROVE  Left(c, p) \in Nat
<1>1. CASE c.op = "checkout" /\ c.pc = "decrement"
  <2>1. c \notin OrderCall /\ c \notin ListCall /\ c \notin AddCall /\ c # Idle
    BY <1>1 DEF OrderCall, OrderOps, ListCall, AddCall, Idle
  <2>2. c \in CheckoutCall /\ c.line \in 1 .. Len(c.items)
    BY <1>1, <2>1 DEF CallTyped
  <2>3. c.items \in Seq(Wanted)
    BY <2>2 DEF CheckoutCall
  <2>4. QED
    BY <2>2, <2>3, TailSteps DEF Left
<1>2. CASE ~ (c.op = "checkout" /\ c.pc = "decrement")
  BY <1>2 DEF Left
<1>3. QED
  BY <1>1, <1>2

\* The step of one goroutine changes what is owed by its own part.
LEMMA OwedStep ==
  ASSUME LInv, CallsTyped', NEW s \in Slots, \A t \in Slots \ {s} : call'[t] = call[t], NEW p
  PROVE  /\ Owed(p)' = Owed(p) + Left(call'[s], p) - Left(call[s], p)
         /\ Owed(p) \in Nat /\ Left(call'[s], p) \in Nat /\ Left(call[s], p) \in Nat
<1>1. \A t \in Slots : Left(call[t], p) \in Nat /\ Left(call'[t], p) \in Nat
  <2>1. \A t \in Slots : CallTyped(t, call[t]) /\ CallTyped(t, call'[t])
    BY DEF LInv, TInv, CallsTyped
  <2>2. QED
    BY <2>1, LeftNat
<1>2. PICK f, g : /\ f = [t \in Slots |-> Left(call[t], p)]
                  /\ g = [t \in Slots |-> Left(call'[t], p)]
  OBVIOUS
<1>3. /\ \A t \in Slots : f[t] \in Nat /\ g[t] \in Nat
      /\ \A t \in Slots \ {s} : g[t] = f[t]
      /\ f[s] = Left(call[s], p) /\ g[s] = Left(call'[s], p)
  BY <1>1, <1>2
<1>4. SumFunctionOnSet(g, Slots) = SumFunctionOnSet(f, Slots) + g[s] - f[s]
  <2>1. IsFiniteSet(Slots)
    BY MarketAssumption
  <2>2. \A t \in Slots : f[t] \in Int /\ g[t] \in Int
    BY <1>3
  <2>3. \A t \in Slots \ {s} : g[t] = f[t]
    BY <1>3
  <2>4. s \in Slots
    OBVIOUS
  <2>5. QED
    BY ONLY <2>1, <2>2, <2>3, <2>4, SumChanged
<1>5. SumFunctionOnSet(f, Slots) \in Nat
  BY <1>3, SumNat, MarketAssumption
<1>6. Owed(p) = SumFunctionOnSet(f, Slots) /\ Owed(p)' = SumFunctionOnSet(g, Slots)
  BY <1>2 DEF Owed
<1>7. QED
  BY <1>1, <1>3, <1>4, <1>5, <1>6

\* Transitions order and cancel nothing.
LEMMA OrderedSame ==
  ASSUME DOMAIN orders' = DOMAIN orders, \A i \in DOMAIN orders : orders'[i].items = orders[i].items,
         NEW p
  PROVE  OrderedUnits(p)' = OrderedUnits(p)
<1>1. [id \in DOMAIN orders |-> Units(orders[id].items, p)]'
        = [id \in DOMAIN orders |-> Units(orders[id].items, p)]
  OBVIOUS
<1>2. QED
  BY <1>1 DEF OrderedUnits

\* The orders of p so far are a number.
LEMMA OrderedInt ==
  ASSUME O!TypeOK, IsFiniteSet(DOMAIN orders), NEW p
  PROVE  /\ OrderedUnits(p) = SumFunctionOnSet([id \in DOMAIN orders |-> Units(orders[id].items, p)],
                                               DOMAIN orders)
         /\ \A id \in DOMAIN orders : Units(orders[id].items, p) \in Int
         /\ OrderedUnits(p) \in Int
<1> DEFINE f == [id \in DOMAIN orders |-> Units(orders[id].items, p)]
<1>1. \A id \in DOMAIN orders : orders[id].items \in Seq(Line)
  BY DEF O!TypeOK, O!Order
<1>2. \A id \in DOMAIN orders : Units(orders[id].items, p) \in Int
  BY <1>1, UnitsAre
<1>3. OrderedUnits(p) = SumFunctionOnSet(f, DOMAIN f) /\ DOMAIN f = DOMAIN orders
  BY DEF OrderedUnits, SumFunction
<1>4. OrderedUnits(p) = SumFunctionOnSet(f, DOMAIN orders)
  BY <1>3
<1>5. \A id \in DOMAIN orders : f[id] \in Int
  BY <1>2
<1> HIDE DEF f
<1>6. SumFunctionOnSet(f, DOMAIN orders) \in Int
  BY <1>5, SumInt
<1>7. QED
  BY <1>2, <1>4, <1>6 DEF f

\* A new order adds its units.
LEMMA OrderedMore ==
  ASSUME O!TypeOK, IsFiniteSet(DOMAIN orders), NEW id, id \notin DOMAIN orders,
         DOMAIN orders' = DOMAIN orders \cup {id},
         \A i \in DOMAIN orders : orders'[i].items = orders[i].items,
         orders'[id].items \in Seq(Line), NEW p
  PROVE  /\ OrderedUnits(p)' = OrderedUnits(p) + Units(orders'[id].items, p)
         /\ Units(orders'[id].items, p) \in Int /\ IsFiniteSet(DOMAIN orders')
<1>1. Units(orders'[id].items, p) \in Int
  BY UnitsAre
<1>2. PICK f, g, D : /\ D = DOMAIN orders
                     /\ f = [i \in D |-> Units(orders[i].items, p)]
                     /\ g = [i \in D \cup {id} |-> Units(orders'[i].items, p)]
  OBVIOUS
<1>3. OrderedUnits(p) = SumFunctionOnSet(f, D)
  BY <1>2, OrderedInt
<1>4. OrderedUnits(p)' = SumFunctionOnSet(g, D \cup {id})
  <2>1. g = [i \in DOMAIN orders' |-> Units(orders'[i].items, p)] /\ DOMAIN g = D \cup {id}
    BY <1>2
  <2>2. OrderedUnits(p)' = SumFunctionOnSet(g, DOMAIN g)
    BY <2>1 DEF OrderedUnits, SumFunction
  <2>3. QED
    BY <2>1, <2>2
<1>5. \A i \in D : f[i] \in Int /\ g[i] = f[i]
  BY <1>2, OrderedInt
<1>6. g[id] = Units(orders'[id].items, p) /\ id \notin D /\ IsFiniteSet(D)
  BY <1>2
<1>7. SumFunctionOnSet(g, D \cup {id}) = SumFunctionOnSet(f, D) + g[id]
  <2>1. \A i \in D : f[i] \in Int /\ g[i] = f[i]
    BY <1>5
  <2>2. IsFiniteSet(D) /\ id \notin D /\ g[id] \in Int
    BY <1>1, <1>6
  <2>3. QED
    BY ONLY <2>1, <2>2, SumWith
<1>8. IsFiniteSet(DOMAIN orders')
  BY FS_AddElement
<1>9. QED
  BY <1>1, <1>3, <1>4, <1>6, <1>7, <1>8

\* A step that takes and orders nothing leaves the account as it is.
LEMMA AccountSame ==
  ASSUME SInv, LInv', NEW s \in Slots, \A t \in Slots \ {s} : call'[t] = call[t],
         call[s].pc # "decrement", call'[s].pc # "decrement",
         UNCHANGED products, DOMAIN orders' = DOMAIN orders,
         \A i \in DOMAIN orders : orders'[i].items = orders[i].items
  PROVE  SInv'
<1>1. ASSUME NEW p \in Products PROVE Account(p)'
  <2>1. Owed(p)' = Owed(p)
    <3>1. Left(call[s], p) = 0 /\ Left(call'[s], p) = 0
      BY DEF Left
    <3>2. LInv /\ CallsTyped'
      BY DEF SInv, LInv, TInv
    <3>3. QED
      BY <3>1, <3>2, OwedStep
  <2>2. OrderedUnits(p)' = OrderedUnits(p)
    BY OrderedSame
  <2>3. Taken(p)' = Taken(p)
    BY DEF Taken
  <2>4. Account(p)
    BY DEF SInv
  <2>5. QED
    BY <2>1, <2>2, <2>3, <2>4 DEF Account
<1>2. QED
  BY <1>1 DEF SInv

\* The clock takes and orders nothing.
LEMMA AccountIdle ==
  ASSUME SInv, LInv', UNCHANGED <<call, products, orders>>
  PROVE  SInv'
<1>1. ASSUME NEW p \in Products PROVE Account(p)'
  <2>1. Owed(p)' = Owed(p) /\ OrderedUnits(p)' = OrderedUnits(p) /\ Taken(p)' = Taken(p)
    BY DEF Owed, OrderedUnits, Taken
  <2>2. Account(p)
    BY DEF SInv
  <2>3. QED
    BY <2>1, <2>2 DEF Account
<1>2. QED
  BY <1>1 DEF SInv

\* A request that arrives has taken nothing.
LEMMA ArriveAccount ==
  ASSUME SInv, LInv', NEW s \in Slots, Arrive(s)
  PROVE  SInv'
<1>1. CallsTyped
  BY DEF SInv, LInv, TInv
<1>2. call[s].pc # "decrement" /\ UNCHANGED <<products, orders>>
  <2>1. call[s] = Idle /\ UNCHANGED <<productVars, orderVars>>
    BY DEF Arrive, ArriveList, ArriveAdd, ArriveCheckout, ArriveOrderOp, Asks
  <2>2. QED
    BY <2>1 DEF Idle, productVars, orderVars
<1>3. \E next : Continue(s, next) /\ next.pc # "decrement"
  <2>1. CASE ArriveList(s)
    BY <2>1 DEF ArriveList
  <2>2. CASE ArriveAdd(s)
    BY <2>2 DEF ArriveAdd
  <2>3. CASE ArriveCheckout(s)
    <3>1. PICK b \in Buyers, c \in Carts :
            Continue(s, [op |-> "checkout", pc |-> "check", answer |-> 0, by |-> b,
                         cart |-> c, line |-> 1, groups |-> <<>>, id |-> "", seller |-> "",
                         items |-> <<>>])
      BY <2>3 DEF ArriveCheckout
    <3> DEFINE first == [op |-> "checkout", pc |-> "check", answer |-> 0, by |-> b,
                         cart |-> c, line |-> 1, groups |-> <<>>, id |-> "", seller |-> "",
                         items |-> <<>>]
    <3>2. Continue(s, first) /\ first.pc = "check"
      BY <3>1
    <3> HIDE DEF first
    <3>3. QED
      BY <3>2
  <2>4. CASE ArriveOrderOp(s)
    BY <2>4 DEF ArriveOrderOp
  <2>5. QED
    BY <2>1, <2>2, <2>3, <2>4 DEF Arrive
<1>4. call'[s].pc # "decrement" /\ \A t \in Slots \ {s} : call'[t] = call[t]
  BY <1>1, <1>3, Continued
<1>5. QED
  BY <1>2, <1>4, AccountSame

\* The goroutines of the other operations, and those of a checkout before and
\* after it takes stock.
LEMMA AsideAccount ==
  ASSUME SInv, LInv', NEW s \in Slots,
         \/ WriteListed(s) \/ AddToCart(s) \/ WriteAdded(s) \/ CheckLine(s) \/ WriteCheckout(s)
         \/ GetOrder(s) \/ Refuse(s) \/ Reread(s) \/ WriteOrderEvent(s)
  PROVE  SInv'
<1>1. CallsTyped
  BY DEF SInv, LInv, TInv
<1>2. call[s].pc # "decrement" /\ UNCHANGED <<products, orders>>
  BY DEF WriteListed, AddToCart, WriteAdded, CheckLine, WriteCheckout, GetOrder, Refuse, Reread,
     WriteOrderEvent, At, productVars, orderVars
<1>3. \E next : Continue(s, next)
  BY DEF WriteListed, AddToCart, WriteAdded, CheckLine, WriteCheckout, GetOrder, Refuse, Reread,
     WriteOrderEvent, Answer
<1>4. \A t \in Slots \ {s} : call'[t] = call[t]
  BY <1>1, <1>3, Continued
<1>5. \A code : Answer(s, code) => call'[s].pc = "done"
  BY <1>1, AnswerLeaves
<1>6. call'[s].pc # "decrement"
  <2>1. CASE \E code : Answer(s, code)
    BY <1>5, <2>1
  <2>2. CASE CheckLine(s) /\ ~ Answer(s, 400)
    <3>1. call[s] \in CheckoutCall
      BY <1>1, <2>2, Held DEF CheckLine, At
    <3>2. PICK groups, pc : /\ Continue(s, [call[s] EXCEPT !.groups = groups, !.line = @ + 1, !.pc = pc])
                            /\ pc \in {"create", "check"}
      BY <2>2 DEF CheckLine
    <3>3. call'[s] = [call[s] EXCEPT !.groups = groups, !.line = @ + 1, !.pc = pc]
      BY <1>1, <3>2, Continued
    <3>4. call'[s].pc = pc
      BY <3>1, <3>3 DEF CheckoutCall
    <3>5. QED
      BY <3>2, <3>4
  <2>3. CASE WriteCheckout(s) /\ ~ Answer(s, 201)
    <3>1. call[s] \in CheckoutCall
      BY <1>1, <2>3, Held DEF WriteCheckout, At
    <3>2. Continue(s, [call[s] EXCEPT !.pc = "create"])
      BY <2>3 DEF WriteCheckout
    <3>3. call'[s] = [call[s] EXCEPT !.pc = "create"]
      BY <1>1, <3>2, Continued
    <3>4. QED
      BY <3>1, <3>3 DEF CheckoutCall
  <2>4. CASE (GetOrder(s) \/ Reread(s)) /\ ~ Answer(s, 404)
    <3>1. call[s].pc \in {"get", "reread"} /\ (call[s].op \in OrderOps \/ call[s].pc = "reread")
      BY <2>4 DEF GetOrder, Reread
    <3>2. CallTyped(s, call[s])
      BY <1>1 DEF CallsTyped
    <3>3. call[s] \in OrderCall
      <4>a. call[s].pc \notin {"idle", "check", "create", "decrement", "validate", "write", "done"}
        BY <3>1
      <4>b. call[s] \notin CheckoutCall
        BY <4>a DEF CheckoutCall
      <4>c. call[s] \notin ListCall
        BY <4>a DEF ListCall
      <4>d. call[s] # Idle
        BY <4>a DEF Idle
      <4>1. call[s] \notin CheckoutCall /\ call[s] \notin ListCall /\ call[s] # Idle
        BY <4>b, <4>c, <4>d
      <4>2. call[s] \notin AddCall
        BY <3>1 DEF AddCall, OrderOps
      <4>3. QED
        BY <3>2, <4>1, <4>2 DEF CallTyped
    <3>4. PICK seen, pc : /\ Continue(s, [call[s] EXCEPT !.pc = pc, !.seen = seen])
                          /\ pc \in {"transition", "write"}
      BY <2>4 DEF GetOrder, Reread
    <3>5. call'[s] = [call[s] EXCEPT !.pc = pc, !.seen = seen]
      BY <1>1, <3>4, Continued
    <3>6. call'[s].pc = pc
      BY <3>3, <3>5 DEF OrderCall
    <3>7. QED
      BY <3>4, <3>6
  <2>5. CASE AddToCart(s) /\ ~ Answer(s, 404)
    <3>1. call[s] \in AddCall
      BY <1>1, <2>5, Held DEF AddToCart, At
    <3>2. call'[s] = [call[s] EXCEPT !.pc = "write"]
      BY <1>1, <2>5, Continued DEF AddToCart
    <3>3. QED
      BY <3>1, <3>2 DEF AddCall
  <2>6. QED
    BY <2>1, <2>2, <2>3, <2>4, <2>5 DEF WriteListed, WriteAdded, Refuse, WriteOrderEvent
<1>7. QED
  BY <1>2, <1>4, <1>6, AccountSame

\* So do the transitions, which leave an order's items as they are.
LEMMA TransitionAccount ==
  ASSUME SInv, LInv', NEW s \in Slots, Transition(s)
  PROVE  SInv'
<1>1. LInv /\ CallsTyped
  BY DEF SInv, LInv, TInv
<1>2. Kept /\ Raised(call[s].id, OpRank[call[s].op]) /\ call'[s].pc \in {"reread", "write"}
  BY <1>1, TransitionLinked
<1>3. /\ DOMAIN orders' = DOMAIN orders
      /\ \A i \in DOMAIN orders : orders'[i].items = orders[i].items
  BY <1>2 DEF Kept, Raised
<1>4. call[s].pc = "transition" /\ UNCHANGED products
  BY DEF Transition, productVars
<1>5. \A t \in Slots \ {s} : call'[t] = call[t]
  BY <1>1, Continued DEF Transition
<1>6. QED
  BY <1>2, <1>3, <1>4, <1>5, AccountSame

\* Listing takes nothing: at the worst it puts back what was taken.
LEMMA ListAccount ==
  ASSUME SInv, LInv', NEW s \in Slots, ListProduct(s)
  PROVE  SInv'
<1>1. CallsTyped /\ call[s].op = "list" /\ call[s].pc = "validate" /\ call[s] \in ListCall
  BY Held DEF SInv, LInv, TInv, ListProduct, At
<1>2. UNCHANGED orders
  BY DEF ListProduct, orderVars
<1>3. /\ \A t \in Slots \ {s} : call'[t] = call[t]
      /\ call'[s].pc # "decrement"
  <2>1. CASE Answer(s, 400)
    <3>1. call'[s].pc = "done"
      BY <1>1, <2>1, AnswerLeaves
    <3>2. \A t \in Slots \ {s} : call'[t] = call[t]
      BY <1>1, <2>1, Continued DEF Answer
    <3>3. QED
      BY <3>1, <3>2
  <2>2. CASE Continue(s, [call[s] EXCEPT !.pc = "write"])
    <3>1. call'[s] = [call[s] EXCEPT !.pc = "write"] /\ \A t \in Slots \ {s} : call'[t] = call[t]
      BY <1>1, <2>2, Continued
    <3>2. call'[s].pc = "write"
      BY <1>1, <3>1 DEF ListCall
    <3>3. QED
      BY <3>1, <3>2
  <2>3. QED
    BY <2>1, <2>2 DEF ListProduct
<1>4. CASE UNCHANGED products
  BY <1>1, <1>2, <1>3, <1>4, AccountSame
<1>5. CASE P!Add(call[s].product, call[s].by, Offers[call[s].product].quantity)
  <2>1. PICK q \in Products : q = call[s].product
    BY <1>1 DEF ListCall
  <2>2. /\ DOMAIN products' = DOMAIN products \cup {q}
        /\ products'[q].quantity = Offers[q].quantity
        /\ \A i \in DOMAIN products \ {q} : products'[i] = products[i]
    BY <1>5, <2>1 DEF P!Add
  <2>3. ASSUME NEW p \in Products PROVE Account(p)'
    <3>1. Owed(p)' = Owed(p) /\ Owed(p) \in Nat
      <4>1. Left(call[s], p) = 0 /\ Left(call'[s], p) = 0
        BY <1>1, <1>3 DEF Left
      <4>2. LInv /\ CallsTyped'
        BY DEF SInv, LInv, TInv
      <4>3. QED
        BY <1>3, <4>1, <4>2, OwedStep
    <3>2. OrderedUnits(p)' = OrderedUnits(p) /\ OrderedUnits(p) \in Int
      BY <1>2, OrderedSame, OrderedInt DEF SInv, LInv, TInv
    <3>3. Account(p) /\ Taken(p) \in Int
      <4>1. ProductsTyped
        BY DEF SInv, LInv, TInv
      <4>2. \A i \in DOMAIN products : products[i].quantity \in Int
        BY <4>1 DEF ProductsTyped
      <4>3. Offers[p].quantity \in Int
        BY MarketAssumption
      <4>4. QED
        BY <4>2, <4>3 DEF SInv, Taken
    <3>4. CASE p = q
      <4>1. Taken(p)' = 0
        <5>1. Offers[q].quantity \in Int
          BY MarketAssumption
        <5>2. QED
          BY <2>2, <3>4, <5>1 DEF Taken
      <4>2. QED
        BY <3>1, <3>2, <3>3, <4>1 DEF Account
    <3>5. CASE p # q
      <4>1. Taken(p)' = Taken(p) /\ (p \in DOMAIN products => products'[p] = products[p])
        <5>1. /\ p \in DOMAIN products' <=> p \in DOMAIN products
              /\ p \in DOMAIN products => products'[p] = products[p]
          BY <2>2, <3>5
        <5>2. QED
          BY <5>1 DEF Taken
      <4>2. Taken(p) > 0 => p \in DOMAIN products
        BY DEF Taken
      <4>3. QED
        BY <3>1, <3>2, <3>3, <4>1, <4>2 DEF Account
    <3>6. QED
      BY <3>4, <3>5
  <2>4. QED
    BY <1>2, <2>3 DEF SInv
<1>6. QED
  BY <1>4, <1>5 DEF ListProduct, productVars

\* A new order is owed in full.
LEMMA CreateAccount ==
  ASSUME SInv, LInv', NEW s \in Slots, CreateOrder(s)
  PROVE  SInv'
<1> DEFINE c == call[s]
<1>1. LInv /\ CallsTyped /\ O!TypeOK /\ IsFiniteSet(DOMAIN orders) /\ CallsTyped'
  BY DEF SInv, LInv, TInv
<1>2. c \in CheckoutCall /\ c.pc = "create" /\ CallTyped(s, c)
  BY <1>1, Held DEF CreateOrder, At
<1>3. PICK seller \in DOMAIN c.groups :
        LET groups == c.groups
            id == CHOOSE i \in OrderIds : i \notin DOMAIN orders IN
        /\ O!Create(id, O!NewOrder(c.by, seller, groups[seller]))
        /\ Continue(s, [c EXCEPT !.pc = "decrement", !.line = 1, !.id = id,
                          !.seller = seller, !.items = groups[seller],
                          !.groups = [x \in DOMAIN groups \ {seller} |-> groups[x]]])
  BY DEF CreateOrder
<1>4. PICK id : id = CHOOSE i \in OrderIds : i \notin DOMAIN orders
  OBVIOUS
<1>5. id \in OrderIds \ DOMAIN orders /\ UNCHANGED products
  BY <1>4 DEF CreateOrder, productVars
<1>6. PICK items, rest : /\ items = c.groups[seller]
                         /\ rest = [x \in DOMAIN c.groups \ {seller} |-> c.groups[x]]
  OBVIOUS
<1>7. /\ O!Create(id, O!NewOrder(c.by, seller, items))
      /\ Continue(s, [c EXCEPT !.pc = "decrement", !.line = 1, !.id = id, !.seller = seller,
                               !.items = items, !.groups = rest])
  BY <1>3, <1>4, <1>6
<1>8. items \in Seq(Wanted) /\ seller \in Sellers /\ c.by \in Buyers /\ items # <<>>
  <2>1. c.groups \in Groups /\ c.by \in Buyers
    BY <1>2 DEF CheckoutCall
  <2>2. \A x \in DOMAIN c.groups : c.groups[x] # <<>>
    BY <1>2 DEF CallTyped, CheckoutCall
  <2>3. QED
    BY <1>6, <2>1, <2>2, GroupsTyped
<1>9. items \in Seq(Line)
  BY <1>8, WantedLines
<1>10. /\ DOMAIN orders' = DOMAIN orders \cup {id}
       /\ \A i \in DOMAIN orders : orders'[i] = orders[i]
       /\ orders'[id].items = items
  <2>1. /\ DOMAIN orders' = DOMAIN orders \cup {id}
        /\ \A i \in DOMAIN orders \ {id} : orders'[i] = orders[i]
        /\ orders'[id] = O!NewOrder(c.by, seller, items)
    BY <1>1, <1>5, <1>7, <1>8, <1>9, CreateTyped
  <2>2. O!NewOrder(c.by, seller, items).items = items
    BY DEF O!NewOrder
  <2>3. QED
    BY <1>5, <2>1, <2>2
<1>11. /\ \A t \in Slots \ {s} : call'[t] = call[t]
       /\ call'[s] = [c EXCEPT !.pc = "decrement", !.line = 1, !.id = id, !.seller = seller,
                               !.items = items, !.groups = rest]
  BY <1>1, <1>7, Continued
<1>12. /\ call'[s].op = "checkout" /\ call'[s].pc = "decrement"
       /\ call'[s].line = 1 /\ call'[s].items = items
  BY <1>2, <1>11 DEF CheckoutCall
<1>13. ASSUME NEW p \in Products PROVE Account(p)' /\ IsFiniteSet(DOMAIN orders')
  <2>1. /\ OrderedUnits(p)' = OrderedUnits(p) + Units(items, p)
        /\ Units(items, p) \in Int /\ IsFiniteSet(DOMAIN orders')
    <3>1. id \notin DOMAIN orders /\ \A i \in DOMAIN orders : orders'[i].items = orders[i].items
      BY <1>5, <1>10
    <3>2. orders'[id].items \in Seq(Line)
      BY <1>9, <1>10
    <3>3. /\ OrderedUnits(p)' = OrderedUnits(p) + Units(orders'[id].items, p)
          /\ Units(orders'[id].items, p) \in Int /\ IsFiniteSet(DOMAIN orders')
      BY <1>1, <1>10, <3>1, <3>2, OrderedMore
    <3>4. QED
      BY <1>10, <3>3
  <2>2. Left(c, p) = 0 /\ Left(call'[s], p) = UnitsFrom(items, 1, p)
    BY <1>2, <1>12 DEF Left
  <2>3. UnitsFrom(items, 1, p) = Units(items, p)
    BY <1>9, UnitsAre DEF UnitsFrom
  <2>4. /\ Owed(p)' = Owed(p) + Left(call'[s], p) - Left(c, p)
        /\ Owed(p) \in Nat
    BY <1>1, <1>11, OwedStep
  <2>5. OrderedUnits(p) \in Int
    BY <1>1, OrderedInt
  <2>6. Account(p) /\ Taken(p)' = Taken(p) /\ Taken(p) \in Int /\ UNCHANGED products
    <3>1. ProductsTyped
      BY DEF SInv, LInv, TInv
    <3>2. \A i \in DOMAIN products : products[i].quantity \in Int
      BY <3>1 DEF ProductsTyped
    <3>3. Offers[p].quantity \in Int
      BY MarketAssumption
    <3>4. QED
      BY <1>5, <3>2, <3>3 DEF SInv, Taken
  <2>7. QED
    BY <2>1, <2>2, <2>3, <2>4, <2>5, <2>6 DEF Account
<1>14. IsFiniteSet(DOMAIN orders')
  BY <1>1, <1>10, FS_AddElement
<1>15. QED
  BY <1>13, <1>14 DEF SInv

\* A unit taken was owed, and a line that finds too little left is dropped.
LEMMA DecrementAccount ==
  ASSUME SInv, LInv', NEW s \in Slots, DecrementLine(s)
  PROVE  SInv'
<1>1. LInv /\ CallsTyped /\ O!TypeOK /\ CallsTyped' /\ ProductsTyped
  BY DEF SInv, LInv, TInv
<1>2. PICK c, k, items, l : c = call[s] /\ k = c.line /\ items = c.items /\ l = items[k]
  OBVIOUS
<1>3. c \in CheckoutCall /\ CallTyped(s, c) /\ c.op = "checkout" /\ c.pc = "decrement"
  BY <1>1, <1>2, Held DEF DecrementLine, At
<1>4. items \in Seq(Wanted) /\ k \in 1 .. Len(items) /\ l \in Wanted
  <2>1. items \in Seq(Wanted) /\ k \in 1 .. Len(items)
    BY <1>2, <1>3 DEF CheckoutCall, CallTyped
  <2>2. QED
    BY <1>2, <2>1
<1>5. l.product \in Products /\ l.quantity \in Nat \ {0}
  BY <1>4 DEF Wanted
<1>6. PICK pc : /\ pc = IF k = Len(items) THEN "write" ELSE "decrement"
                /\ Continue(s, [c EXCEPT !.line = k + 1, !.pc = pc])
  BY <1>2 DEF DecrementLine
<1>7. P!DecrementQuantity(l.product, l.quantity) /\ UNCHANGED orders
  BY <1>2 DEF DecrementLine, orderVars
<1>8. /\ \A t \in Slots \ {s} : call'[t] = call[t]
      /\ call'[s] = [c EXCEPT !.line = k + 1, !.pc = pc]
  BY <1>1, <1>6, Continued
<1>9. /\ call'[s].op = "checkout" /\ call'[s].pc = pc
      /\ call'[s].line = k + 1 /\ call'[s].items = items
  BY <1>2, <1>3, <1>8 DEF CheckoutCall
<1>10. ASSUME NEW p \in Products PROVE Account(p)'
  <2>1. Left(c, p) = UnitsFrom(items, k, p)
    BY <1>2, <1>3 DEF Left
  <2>2. Left(call'[s], p) = UnitsFrom(items, k + 1, p)
    <3>1. k = Len(items) => UnitsFrom(items, k + 1, p) = 0
      BY <1>4, TailSteps
    <3>2. QED
      BY <1>6, <1>9, <3>1 DEF Left
  <2>3. PICK n \in Nat : n = IF l.product = p THEN l.quantity ELSE 0
    BY <1>5
  <2>4. UnitsFrom(items, k, p) = n + UnitsFrom(items, k + 1, p) /\ UnitsFrom(items, k + 1, p) \in Nat
    <3>1. /\ Amount(items, p)[k] = IF items[k].product = p THEN items[k].quantity ELSE 0
          /\ UnitsFrom(items, k, p) = Amount(items, p)[k] + UnitsFrom(items, k + 1, p)
          /\ UnitsFrom(items, k + 1, p) \in Nat
      BY <1>4, TailSteps
    <3>2. Amount(items, p)[k] = n
      BY <1>2, <2>3, <3>1
    <3>3. QED
      BY <3>1, <3>2
  <2>5. /\ Owed(p)' = Owed(p) + Left(call'[s], p) - Left(c, p)
        /\ Owed(p) \in Nat
    BY <1>1, <1>2, <1>8, OwedStep
  <2>6. Owed(p)' = Owed(p) - n /\ Owed(p) \in Nat
    BY <2>1, <2>2, <2>4, <2>5
  <2>7. OrderedUnits(p)' = OrderedUnits(p) /\ OrderedUnits(p) \in Int
    BY <1>7, OrderedSame, OrderedInt DEF SInv, LInv, TInv
  <2>8. \A i \in DOMAIN products : products[i].quantity \in Int
    BY <1>1 DEF ProductsTyped
  <2>9. Offers[p].quantity \in Int
    BY MarketAssumption
  <2>10. Account(p) /\ Taken(p) \in Int
    BY <2>8, <2>9 DEF SInv, Taken
  <2>11. CASE p = l.product /\ P!Has(p, l.quantity)
    <3>1. /\ p \in DOMAIN products /\ DOMAIN products' = DOMAIN products
          /\ ~ (products[p].quantity < l.quantity)
          /\ products' = [products EXCEPT ![p].quantity = @ - l.quantity]
      BY <1>7, <2>11 DEF P!DecrementQuantity, P!Has, P!Listed
    <3>2. products'[p].quantity = products[p].quantity - l.quantity
      <4>1. products[p] \in [seller : Sellers, quantity : Int]
        BY <1>1, <3>1 DEF ProductsTyped
      <4>2. QED
        BY <3>1, <4>1
    <3>3. Taken(p)' = Taken(p) + n /\ products'[p].quantity >= 0
      <4>1. products[p].quantity \in Int /\ l.quantity \in Nat /\ n = l.quantity
        BY <1>5, <2>3, <2>8, <2>11, <3>1
      <4>2. Taken(p) = Offers[p].quantity - products[p].quantity
        BY <3>1 DEF Taken
      <4>3. Taken(p)' = Offers[p].quantity - products'[p].quantity
        BY <3>1 DEF Taken
      <4>4. QED
        BY <2>9, <3>1, <3>2, <4>1, <4>2, <4>3
    <3>4. QED
      BY <2>3, <2>6, <2>7, <2>10, <3>3 DEF Account
  <2>12. CASE ~ (p = l.product /\ P!Has(p, l.quantity))
    <3>1. /\ DOMAIN products' = DOMAIN products
          /\ p \in DOMAIN products => products'[p] = products[p]
      BY <1>7, <2>12 DEF P!DecrementQuantity
    <3>2. Taken(p)' = Taken(p) /\ (Taken(p) > 0 => p \in DOMAIN products)
      BY <3>1 DEF Taken
    <3>3. QED
      BY <2>3, <2>6, <2>7, <2>10, <3>1, <3>2 DEF Account
  <2>13. QED
    BY <2>11, <2>12
<1>11. QED
  BY <1>7, <1>10 DEF SInv

\* Every step keeps the account.
LEMMA NextSInv == SInv /\ [Next]_vars => SInv'
<1> SUFFICES ASSUME SInv, [Next]_vars PROVE SInv'
  OBVIOUS
<1>1. LInv'
  BY NextLInv DEF SInv
<1>2. ASSUME NEW s \in Slots, Step(s) PROVE SInv'
  BY <1>1, <1>2, ListAccount, AsideAccount, CreateAccount, DecrementAccount, TransitionAccount
     DEF Step
<1>3. ASSUME NEW s \in Slots, Arrive(s) PROVE SInv'
  BY <1>1, <1>3, ArriveAccount
<1>4. CASE Tick
  BY <1>1, <1>4, AccountIdle, TickTyped DEF Tick, productVars, SInv, LInv, TInv
<1>5. CASE UNCHANGED vars
  BY <1>1, <1>5, AccountIdle DEF vars, productVars, orderVars
<1>6. QED
  BY <1>2, <1>3, <1>4, <1>5 DEF Next

\* At the start nothing is taken, owed or ordered.
LEMMA InitSInv == Init => SInv
<1> SUFFICES ASSUME Init PROVE SInv
  OBVIOUS
<1>1. LInv
  BY InitLInv
<1>2. DOMAIN orders = {} /\ DOMAIN products = {}
  BY DEF Init, O!Init, P!InitProducts
<1>3. IsFiniteSet(DOMAIN orders)
  BY <1>2, FS_EmptySet
<1>4. ASSUME NEW p \in Products PROVE Account(p)
  <2>1. Taken(p) = 0
    BY <1>2 DEF Taken
  <2>2. OrderedUnits(p) = 0
    <3>1. OrderedUnits(p) = SumFunctionOnSet([id \in DOMAIN orders |-> Units(orders[id].items, p)],
                                             DOMAIN orders)
      BY <1>1, <1>3, OrderedInt DEF LInv, TInv
    <3>2. QED
      BY <1>2, <3>1, SumNone
  <2>3. Owed(p) = 0
    <3>1. PICK f, g : /\ f = [s \in Slots |-> Left(call[s], p)]
                      /\ g = [s \in Slots |-> 0]
      OBVIOUS
    <3>2. \A s \in Slots : Left(call[s], p) = 0
      BY DEF Init, Idle, Left
    <3>3. f = g
      BY <3>1, <3>2
    <3>4. SumFunctionOnSet(g, Slots) = 0
      BY <3>1, SumZero, MarketAssumption
    <3>5. QED
      BY <3>1, <3>3, <3>4 DEF Owed
  <2>4. QED
    BY <2>1, <2>2, <2>3 DEF Account
<1>5. QED
  BY <1>1, <1>3, <1>4 DEF SInv

-----------------------------------------------------------------------------
(* The theorem about the stock.                                            *)

\* Stock is only ever taken for an order that exists, and never more of it
\* than there is: the units that left a product's stock are covered by
\* ordered ones, and no race of checkouts makes the stock negative.
THEOREM SpecStockCovered == Spec => []StockCovered
<1>1. SInv => StockCovered
  <2> SUFFICES ASSUME SInv, NEW p \in DOMAIN products
               PROVE  LET taken == Offers[p].quantity - products[p].quantity
                      IN  /\ 0 <= taken /\ taken <= OrderedUnits(p)
                          /\ taken > 0 => products[p].quantity >= 0
    BY DEF StockCovered
  <2>1. p \in Products /\ products[p].quantity \in Int /\ Offers[p].quantity \in Int
    BY MarketAssumption DEF SInv, LInv, TInv, ProductsTyped
  <2>2. Owed(p) \in Nat
    <3>1. PICK f : f = [s \in Slots |-> Left(call[s], p)]
      OBVIOUS
    <3>2. \A s \in Slots : f[s] \in Nat
      BY <3>1, LeftNat DEF SInv, LInv, TInv, CallsTyped
    <3>3. SumFunctionOnSet(f, Slots) \in Nat
      BY <3>2, SumNat, MarketAssumption
    <3>4. QED
      BY <3>1, <3>3 DEF Owed
  <2>3. OrderedUnits(p) \in Int
    BY OrderedInt DEF SInv, LInv, TInv
  <2>4. Taken(p) = Offers[p].quantity - products[p].quantity
    BY DEF Taken
  <2>5. Account(p)
    BY <2>1 DEF SInv
  <2>6. QED
    BY <2>1, <2>2, <2>3, <2>4, <2>5 DEF Account
<1>2. QED
  BY <1>1, InitSInv, NextSInv, PTL DEF Spec

-----------------------------------------------------------------------------
(* The account of a cart.  Every line checked so far is in one of three    *)
(* places: a group still to be ordered, the order in hand, or an event     *)
(* already passed to the producer.                                         *)

\* The events the request of slot s passed to the producer.
Mine(s) == {w.event : w \in {v \in written : v.slot = s}}

\* Units of the first k lines, of all groups, of the order in hand, of events.
UnitsTo(items, k, p) == SumFunctionOnSet(Amount(items, p), 1 .. k)
Gathered(groups, p) == SumFunctionOnSet([x \in DOMAIN groups |-> Units(groups[x], p)], DOMAIN groups)
InHand(c, p) == IF c.pc \in {"decrement", "write"} THEN Units(c.items, p) ELSE 0
Sent(mine, p) == SumFunctionOnSet([e \in mine |-> Units(e.items, p)], mine)

Checked(c, p) ==
  IF c.pc = "check" THEN UnitsTo(c.cart, c.line - 1, p) ELSE Units(c.cart, p)

\* All of these lines are of the seller's own products, among the listed ones.
Own(items, seller, listed) ==
  \A i \in 1 .. Len(items) : /\ items[i].product \in listed
                            /\ Offers[items[i].product].seller = seller

\* Every seller's lines are in one place, and in that seller's.
Sorted(c, mine, listed) ==
  /\ IsFiniteSet(DOMAIN c.groups)
  /\ \A x \in DOMAIN c.groups : Own(c.groups[x], x, listed)
  /\ c.pc \in {"decrement", "write"} => Own(c.items, c.seller, listed) /\ c.seller \notin DOMAIN c.groups
  /\ \A e \in mine :
       /\ e.items \in Seq(Wanted) /\ Own(e.items, e.seller, listed)
       /\ e.seller \notin DOMAIN c.groups
       /\ c.pc \in {"decrement", "write"} => e.seller # c.seller
       /\ \A f \in mine : f.seller = e.seller => f = e

\* No unit is lost or doubled on the way, and a refused cart went nowhere.
Balanced(c, mine) ==
  /\ c.pc = "check" \/ (c.pc = "done" /\ c.answer # 201) => mine = {}
  /\ c.pc = "done" /\ c.answer = 201 => DOMAIN c.groups = {}
  /\ c.pc # "done" \/ c.answer = 201 =>
       \A p \in Products : Checked(c, p) = Gathered(c.groups, p) + InHand(c, p) + Sent(mine, p)

Split(c, mine, listed) ==
  /\ IsFiniteSet(mine)
  /\ c.op = "none" => mine = {}
  /\ c.op = "checkout" => Sorted(c, mine, listed) /\ Balanced(c, mine)

\* A product stays its seller's.
Shelved == \A p \in DOMAIN products : products[p].seller = Offers[p].seller

XInv == LInv /\ Shelved /\ \A s \in Slots : Split(call[s], Mine(s), DOMAIN products)

\* One more line at the end of a list.
LEMMA UnitsMore ==
  ASSUME NEW items \in Seq(Line), NEW l \in Line, NEW p
  PROVE  /\ items \o <<l>> \in Seq(Line)
         /\ Units(items \o <<l>>, p) = Units(items, p) + IF l.product = p THEN l.quantity ELSE 0
<1>1. PICK more, n : more = items \o <<l>> /\ n = Len(items)
  OBVIOUS
<1>2. /\ more \in Seq(Line) /\ n \in Nat /\ Len(more) = n + 1
      /\ more[n + 1] = l /\ \A i \in 1 .. n : more[i] = items[i]
  BY <1>1
<1>3. PICK f, g : f = Amount(items, p) /\ g = Amount(more, p)
  OBVIOUS
<1>4. /\ Units(items, p) = SumFunctionOnSet(f, 1 .. n) /\ \A i \in 1 .. n : f[i] \in Int
      /\ Units(more, p) = SumFunctionOnSet(g, 1 .. n + 1) /\ \A i \in 1 .. n + 1 : g[i] \in Int
  BY <1>1, <1>2, <1>3, UnitsAre
<1>5. \A i \in 1 .. n : g[i] = f[i]
  <2>1. DOMAIN items = 1 .. n /\ DOMAIN more = 1 .. n + 1
    BY <1>1, <1>2
  <2>2. QED
    BY <1>2, <1>3, <2>1 DEF Amount
<1>6. g[n + 1] = IF l.product = p THEN l.quantity ELSE 0
  <2>1. DOMAIN more = 1 .. n + 1 /\ n + 1 \in 1 .. n + 1
    BY <1>2
  <2>2. QED
    BY <1>2, <1>3, <2>1 DEF Amount
<1>7. PICK S, T, x : S = 1 .. n /\ T = S \cup {x} /\ x = n + 1
  OBVIOUS
<1>8. T = 1 .. n + 1 /\ IsFiniteSet(S) /\ x \notin S
  <2>1. IsFiniteSet(1 .. n)
    BY <1>2, FS_Interval
  <2>2. T = 1 .. n + 1 /\ x \notin S
    BY <1>2, <1>7
  <2>3. QED
    BY <1>7, <2>1, <2>2
<1>9. SumFunctionOnSet(g, S \cup {x}) = SumFunctionOnSet(f, S) + g[x]
  <2>1. \A i \in S : f[i] \in Int /\ g[i] = f[i]
    BY <1>4, <1>5, <1>7
  <2>2. g[x] \in Int
    BY <1>2, <1>4, <1>7
  <2>3. QED
    BY ONLY <1>8, <2>1, <2>2, SumWith
<1>10. SumFunctionOnSet(g, 1 .. n + 1) = SumFunctionOnSet(f, 1 .. n) + g[x]
  BY <1>7, <1>8, <1>9, Zenon
<1>11. Units(more, p) = Units(items, p) + g[n + 1]
  BY <1>4, <1>7, <1>10
<1>12. QED
  BY <1>1, <1>2, <1>6, <1>11

\* The next line of a cart; all lines are the whole cart.
LEMMA HeadSteps ==
  ASSUME NEW items \in Seq(Line), NEW k \in 1 .. Len(items), NEW p
  PROVE  /\ UnitsTo(items, k, p)
              = UnitsTo(items, k - 1, p) + IF items[k].product = p THEN items[k].quantity ELSE 0
         /\ UnitsTo(items, k - 1, p) \in Int
         /\ k = Len(items) => UnitsTo(items, k, p) = Units(items, p)
<1>1. PICK f, n : f = Amount(items, p) /\ n = Len(items)
  OBVIOUS
<1>2. /\ n \in Nat /\ \A i \in 1 .. n : f[i] \in Int
      /\ Units(items, p) = SumFunctionOnSet(f, 1 .. n)
  BY <1>1, UnitsAre
<1>3. f[k] = IF items[k].product = p THEN items[k].quantity ELSE 0
  BY <1>1 DEF Amount
<1>4. PICK K, R : K = 1 .. k /\ R = K \ {k}
  OBVIOUS
<1>5. R = 1 .. k - 1 /\ IsFiniteSet(K) /\ IsFiniteSet(R) /\ k \in K
  <2>1. k \in Nat /\ k >= 1
    BY <1>1, <1>2
  <2>2. R = 1 .. k - 1 /\ k \in K
    BY <1>4, <2>1
  <2>3. IsFiniteSet(1 .. k) /\ IsFiniteSet(1 .. k - 1)
    BY <2>1, FS_Interval
  <2>4. QED
    BY <1>4, <2>2, <2>3
<1>6. \A i \in K : f[i] \in Int
  BY <1>1, <1>2, <1>4
<1>7. SumFunctionOnSet(f, K) = f[k] + SumFunctionOnSet(f, K \ {k})
  BY <1>5, <1>6, SumRest
<1>8. SumFunctionOnSet(f, 1 .. k) = f[k] + SumFunctionOnSet(f, 1 .. k - 1)
  BY <1>4, <1>5, <1>7, Zenon
<1>9. SumFunctionOnSet(f, 1 .. k - 1) \in Int
  <2>1. \A i \in R : f[i] \in Int
    BY <1>4, <1>6
  <2>2. SumFunctionOnSet(f, R) \in Int
    BY <1>5, <2>1, SumInt
  <2>3. QED
    BY <1>5, <2>2
<1>10. f[k] \in Int
  BY <1>5, <1>6
<1>11. QED
  BY <1>1, <1>2, <1>3, <1>8, <1>9, <1>10 DEF UnitsTo

\* What is gathered is a number, none of it in no group.
LEMMA GatheredInt ==
  ASSUME NEW groups \in Groups, NEW p
  PROVE  /\ IsFiniteSet(DOMAIN groups) => Gathered(groups, p) \in Int
         /\ DOMAIN groups = {} => Gathered(groups, p) = 0
         /\ \A x \in DOMAIN groups : Units(groups[x], p) \in Int
<1>1. \A x \in DOMAIN groups : groups[x] \in Seq(Line)
  BY GroupsTyped, WantedLines
<1>2. \A x \in DOMAIN groups : Units(groups[x], p) \in Int
  <2>1. \A items \in Seq(Line) : Units(items, p) \in Int
    BY UnitsAre
  <2>2. QED
    BY <1>1, <2>1
<1>3. PICK f, D : f = [x \in DOMAIN groups |-> Units(groups[x], p)] /\ D = DOMAIN groups
  OBVIOUS
<1>4. \A x \in D : f[x] \in Int
  BY <1>2, <1>3
<1>5. Gathered(groups, p) = SumFunctionOnSet(f, D)
  BY <1>3 DEF Gathered
<1>6. QED
  BY <1>2, <1>3, <1>4, <1>5, SumInt, SumNone

\* Groups without the one of seller x.
Without(groups, x) == [y \in DOMAIN groups \ {x} |-> groups[y]]

\* Taking a group out takes its units out.
LEMMA GatheredLess ==
  ASSUME NEW groups \in Groups, IsFiniteSet(DOMAIN groups), NEW x \in DOMAIN groups, NEW p
  PROVE  /\ Gathered(groups, p) = Units(groups[x], p) + Gathered(Without(groups, x), p)
         /\ Without(groups, x) \in Groups /\ IsFiniteSet(DOMAIN Without(groups, x))
<1>a. PICK rest : rest = Without(groups, x) /\ rest = [y \in DOMAIN groups \ {x} |-> groups[y]]
  BY DEF Without
<1>1. PICK f, g, D : /\ D = DOMAIN groups
                     /\ f = [y \in D |-> Units(groups[y], p)]
                     /\ g = [y \in D \ {x} |-> Units(rest[y], p)]
  OBVIOUS
<1>2. DOMAIN rest = D \ {x} /\ \A y \in D \ {x} : rest[y] = groups[y]
  BY <1>a, <1>1
<1>3. \A y \in D : f[y] \in Int /\ f[y] = Units(groups[y], p)
  BY <1>1, GatheredInt
<1>4. \A y \in D \ {x} : g[y] = f[y] /\ g[y] \in Int
  BY <1>1, <1>2, <1>3
<1>5. SumFunctionOnSet(f, D) = f[x] + SumFunctionOnSet(f, D \ {x})
  BY <1>1, <1>3, SumRest
<1>6. IsFiniteSet(D \ {x})
  BY <1>1, FS_Subset
<1>7. SumFunctionOnSet(g, D \ {x}) = SumFunctionOnSet(f, D \ {x})
  <2>1. PICK R : R = D \ {x}
    OBVIOUS
  <2>2. IsFiniteSet(R) /\ \A y \in R : g[y] = f[y] /\ f[y] \in Int
    BY <1>3, <1>4, <1>6, <2>1
  <2>3. SumFunctionOnSet(g, R) = SumFunctionOnSet(f, R)
    BY ONLY <2>2, SumSame
  <2>4. QED
    BY <2>1, <2>3
<1>8. Gathered(groups, p) = SumFunctionOnSet(f, D)
  BY <1>1 DEF Gathered
<1>9. Gathered(rest, p) = SumFunctionOnSet(g, D \ {x})
  <2>1. PICK R : R = D \ {x} /\ R = DOMAIN rest
    BY <1>2
  <2>2. g = [y \in R |-> Units(rest[y], p)]
    BY <1>1, <2>1
  <2>3. Gathered(rest, p) = SumFunctionOnSet([y \in R |-> Units(rest[y], p)], R)
    BY <2>1 DEF Gathered
  <2>4. QED
    BY <2>1, <2>2, <2>3
<1>10. rest \in Groups
  <2>1. DOMAIN groups \subseteq Sellers /\ \A y \in DOMAIN groups : groups[y] \in Seq(Wanted)
    BY GroupsTyped
  <2>2. rest \in [DOMAIN groups \ {x} -> Seq(Wanted)] /\ DOMAIN groups \ {x} \subseteq Sellers
    BY <1>a, <2>1
  <2>3. QED
    BY <2>2, GroupsTyped
<1>11. QED
  <2>1. IsFiniteSet(DOMAIN rest)
    BY <1>2, <1>6
  <2>2. f[x] = Units(groups[x], p)
    BY <1>1
  <2>3. Gathered(groups, p) = Units(groups[x], p) + Gathered(rest, p)
    BY <1>5, <1>7, <1>8, <1>9, <2>2
  <2>4. QED
    BY <1>a, <1>10, <2>1, <2>3

\* Groups with one more line, in the group of seller x.
With(groups, x, l) ==
  [y \in DOMAIN groups \cup {x} |->
     (IF y \in DOMAIN groups THEN groups[y] ELSE <<>>) \o (IF y = x THEN <<l>> ELSE <<>>)]

\* It is in that group, at the end, and in no other.
LEMMA GatheredMore ==
  ASSUME NEW groups \in Groups, IsFiniteSet(DOMAIN groups), NEW x \in Sellers, NEW l \in Wanted
  PROVE  /\ DOMAIN With(groups, x, l) = DOMAIN groups \cup {x}
         /\ IsFiniteSet(DOMAIN With(groups, x, l))
         /\ \A y \in DOMAIN groups : y # x => With(groups, x, l)[y] = groups[y]
         /\ \E items \in Seq(Wanted) :
              /\ With(groups, x, l)[x] = items \o <<l>>
              /\ x \in DOMAIN groups => items = groups[x]
              /\ x \notin DOMAIN groups => items = <<>>
         /\ \A p : Gathered(With(groups, x, l), p)
                     = Gathered(groups, p) + IF l.product = p THEN l.quantity ELSE 0
<1>a. PICK more : more = With(groups, x, l)
  OBVIOUS
<1>b. /\ DOMAIN more = DOMAIN groups \cup {x}
      /\ \A y \in DOMAIN more : more[y] = (IF y \in DOMAIN groups THEN groups[y] ELSE <<>>)
                                         \o (IF y = x THEN <<l>> ELSE <<>>)
  BY <1>a DEF With
<1>1. \A y \in DOMAIN groups : groups[y] \in Seq(Wanted)
  BY GroupsTyped
<1>2. DOMAIN more = DOMAIN groups \cup {x} /\ IsFiniteSet(DOMAIN more)
  <2>1. DOMAIN more = DOMAIN groups \cup {x}
    BY <1>b
  <2>2. IsFiniteSet(DOMAIN groups \cup {x})
    BY FS_AddElement
  <2>3. QED
    BY <2>1, <2>2
<1>3. ASSUME NEW y \in DOMAIN groups \ {x} PROVE more[y] = groups[y]
  <2>1. more[y] = groups[y] \o <<>>
    BY <1>b
  <2>2. groups[y] \in Seq(Wanted)
    BY <1>1
  <2>3. QED
    BY <2>1, <2>2
<1>4. PICK items : items = IF x \in DOMAIN groups THEN groups[x] ELSE <<>>
  OBVIOUS
<1>5. items \in Seq(Wanted) /\ more[x] = items \o <<l>>
  <2>1. items \in Seq(Wanted)
    BY <1>1, <1>4
  <2>2. more[x] = items \o <<l>>
    BY <1>b, <1>4
  <2>3. QED
    BY <2>1, <2>2
<1>6. items \in Seq(Line) /\ l \in Line /\ l.quantity \in Int
  <2>1. items \in Seq(Line)
    BY <1>5, WantedLines
  <2>2. l \in Line /\ l.quantity \in Int
    BY DEF Wanted, Line
  <2>3. QED
    BY <2>1, <2>2
<1>7. ASSUME NEW p
      PROVE  Gathered(more, p) = Gathered(groups, p) + IF l.product = p THEN l.quantity ELSE 0
  <2>1. PICK n \in Int : n = IF l.product = p THEN l.quantity ELSE 0
    BY <1>6
  <2>2. Units(more[x], p) = Units(items, p) + n /\ Units(items, p) \in Int
    <3>1. Units(items \o <<l>>, p) = Units(items, p) + IF l.product = p THEN l.quantity ELSE 0
      BY <1>6, UnitsMore
    <3>2. Units(items, p) \in Int
      BY <1>6, UnitsAre
    <3>3. QED
      BY <1>5, <2>1, <3>1, <3>2
  <2>3. PICK f, g, D : /\ D = DOMAIN groups
                       /\ f = [y \in D |-> Units(groups[y], p)]
                       /\ g = [y \in D \cup {x} |-> Units(more[y], p)]
    OBVIOUS
  <2>4. \A y \in D : f[y] \in Int /\ f[y] = Units(groups[y], p)
    BY <2>3, GatheredInt
  <2>5. \A y \in D \ {x} : g[y] = f[y]
    BY <1>3, <2>3, <2>4
  <2>6. g[x] = Units(items, p) + n /\ g[x] \in Int
    BY <2>2, <2>3
  <2>7. Gathered(groups, p) = SumFunctionOnSet(f, D)
    BY <2>3 DEF Gathered
  <2>8. Gathered(more, p) = SumFunctionOnSet(g, D \cup {x})
    <3>1. PICK R : R = D \cup {x} /\ R = DOMAIN more
      BY <1>2, <2>3
    <3>2. g = [y \in R |-> Units(more[y], p)]
      BY <2>3, <3>1
    <3>3. Gathered(more, p) = SumFunctionOnSet([y \in R |-> Units(more[y], p)], R)
      BY <3>1 DEF Gathered
    <3>4. QED
      BY <3>1, <3>2, <3>3
  <2>9. SumFunctionOnSet(f, D) \in Int
    BY <2>3, <2>4, SumInt
  <2>10. CASE x \in D
    <3>1. f[x] = Units(items, p) /\ D \cup {x} = D
      BY <1>4, <2>3, <2>4, <2>10
    <3>2. \A y \in D : f[y] \in Int /\ g[y] \in Int
      BY <2>4, <2>5, <2>6
    <3>3. SumFunctionOnSet(g, D) = SumFunctionOnSet(f, D) + g[x] - f[x]
      <4>1. IsFiniteSet(D)
        BY <2>3
      <4>2. QED
        BY ONLY <4>1, <2>5, <2>10, <3>2, SumChanged
    <3>4. SumFunctionOnSet(g, D \cup {x}) = SumFunctionOnSet(g, D)
      <4>1. PICK R : R = D \cup {x}
        OBVIOUS
      <4>2. R = D
        BY <3>1, <4>1
      <4>3. QED
        BY <4>1, <4>2, Zenon
    <3>5. QED
      BY <2>1, <2>2, <2>6, <2>7, <2>8, <2>9, <3>1, <3>3, <3>4
  <2>11. CASE x \notin D
    <3>1. Units(items, p) = 0
      <4>1. items \in Seq(Line) /\ Len(items) = 0
        BY <1>4, <1>6, <2>3, <2>11
      <4>2. Units(items, p) = SumFunctionOnSet(Amount(items, p), 1 .. Len(items))
        BY <4>1, UnitsAre
      <4>3. 1 .. Len(items) = {}
        BY <4>1
      <4>4. QED
        BY <4>2, <4>3, SumNone
    <3>2. \A y \in D : f[y] \in Int /\ g[y] = f[y]
      BY <2>4, <2>5, <2>11
    <3>3. SumFunctionOnSet(g, D \cup {x}) = SumFunctionOnSet(f, D) + g[x]
      <4>1. IsFiniteSet(D) /\ x \notin D /\ g[x] \in Int
        BY <2>3, <2>6, <2>11
      <4>2. QED
        BY ONLY <4>1, <3>2, SumWith
    <3>4. QED
      BY <2>1, <2>6, <2>7, <2>8, <2>9, <3>1, <3>3
  <2>12. QED
    BY <2>10, <2>11
<1>8. QED
  <2>1. \E i \in Seq(Wanted) : /\ more[x] = i \o <<l>>
                               /\ x \in DOMAIN groups => i = groups[x]
                               /\ x \notin DOMAIN groups => i = <<>>
    BY <1>4, <1>5
  <2>2. QED
    BY <1>a, <1>2, <1>3, <1>7, <2>1

\* What is sent is a number; one more event adds its units.
LEMMA SentMore ==
  ASSUME NEW mine, IsFiniteSet(mine), \A e \in mine : e.items \in Seq(Wanted), NEW p
  PROVE  /\ Sent(mine, p) \in Int
         /\ mine = {} => Sent(mine, p) = 0
         /\ \A e : e \notin mine /\ e.items \in Seq(Wanted) =>
              Sent(mine \cup {e}, p) = Sent(mine, p) + Units(e.items, p)
<1>1. \A items \in Seq(Wanted) : Units(items, p) \in Int
  BY WantedLines, UnitsAre
<1>2. PICK f : f = [e \in mine |-> Units(e.items, p)]
  OBVIOUS
<1>3. \A e \in mine : f[e] \in Int /\ f[e] = Units(e.items, p)
  BY <1>1, <1>2
<1>4. Sent(mine, p) = SumFunctionOnSet(f, mine)
  BY <1>2 DEF Sent
<1>5. SumFunctionOnSet(f, mine) \in Int /\ (mine = {} => SumFunctionOnSet(f, mine) = 0)
  BY <1>3, SumInt, SumNone
<1>6. ASSUME NEW e, e \notin mine, e.items \in Seq(Wanted)
      PROVE  Sent(mine \cup {e}, p) = Sent(mine, p) + Units(e.items, p)
  <2>1. PICK g : g = [d \in mine \cup {e} |-> Units(d.items, p)]
    OBVIOUS
  <2>2. \A d \in mine : f[d] \in Int /\ g[d] = f[d]
    BY <1>3, <2>1
  <2>3. g[e] = Units(e.items, p) /\ g[e] \in Int
    BY <1>1, <1>6, <2>1
  <2>4. SumFunctionOnSet(g, mine \cup {e}) = SumFunctionOnSet(f, mine) + g[e]
    <3>1. IsFiniteSet(mine) /\ e \notin mine /\ g[e] \in Int
      BY <1>6, <2>3
    <3>2. QED
      BY ONLY <2>2, <3>1, SumWith
  <2>5. Sent(mine \cup {e}, p) = SumFunctionOnSet(g, mine \cup {e})
    BY <2>1 DEF Sent
  <2>6. QED
    BY <1>4, <2>3, <2>4, <2>5
<1>7. QED
  BY <1>4, <1>5, <1>6

\* What is listed stays listed.
LEMMA StillSplit ==
  ASSUME NEW c, NEW mine, NEW listed, NEW listed2, listed \subseteq listed2, Split(c, mine, listed)
  PROVE  Split(c, mine, listed2)
<1>1. \A items, x : Own(items, x, listed) => Own(items, x, listed2)
  BY DEF Own
<1>2. QED
  BY <1>1 DEF Split, Sorted

\* An event written by one goroutine is not another's.
LEMMA MineOf ==
  ASSUME NEW s
  PROVE  /\ UNCHANGED written => \A t : Mine(t)' = Mine(t)
         /\ \A e : Write(s, e) => /\ Mine(s)' = Mine(s) \cup {e}
                                  /\ \A t : t # s => Mine(t)' = Mine(t)
<1>1. UNCHANGED written => \A t : Mine(t)' = Mine(t)
  BY DEF Mine
<1>2. ASSUME NEW e, Write(s, e)
      PROVE  Mine(s)' = Mine(s) \cup {e} /\ \A t : t # s => Mine(t)' = Mine(t)
  <2>1. PICK w : w = [slot |-> s, event |-> e]
    OBVIOUS
  <2>2. written' = written \cup {w} /\ w.slot = s /\ w.event = e
    BY <1>2, <2>1 DEF Write
  <2>3. QED
    BY <2>2 DEF Mine
<1>3. QED
  BY <1>1, <1>2

\* A step of one goroutine keeps every other cart's account.
LEMMA SplitFrom ==
  ASSUME XInv, LInv', Shelved', DOMAIN products \subseteq DOMAIN products', NEW s \in Slots,
         \A t \in Slots \ {s} : call'[t] = call[t] /\ Mine(t)' = Mine(t),
         Split(call'[s], Mine(s)', DOMAIN products')
  PROVE  XInv'
<1>1. ASSUME NEW t \in Slots \ {s} PROVE Split(call'[t], Mine(t)', DOMAIN products')
  <2>1. Split(call[t], Mine(t), DOMAIN products)
    BY DEF XInv
  <2>2. Split(call[t], Mine(t), DOMAIN products')
    BY <2>1, StillSplit
  <2>3. call'[t] = call[t] /\ Mine(t)' = Mine(t)
    OBVIOUS
  <2>4. QED
    BY <2>2, <2>3
<1>2. \A t \in Slots : Split(call'[t], Mine(t)', DOMAIN products')
  BY <1>1
<1>3. QED
  BY <1>2 DEF XInv

\* A goroutine that is no checkout has no cart to account for.
LEMMA PlainSplit ==
  ASSUME XInv, LInv', Shelved', DOMAIN products \subseteq DOMAIN products', NEW s \in Slots,
         \A t \in Slots \ {s} : call'[t] = call[t], call'[s].op \notin {"none", "checkout"},
         UNCHANGED written \/ \E e : Write(s, e)
  PROVE  XInv'
<1>1. IsFiniteSet(Mine(s))
  BY DEF XInv, Split
<1>2. IsFiniteSet(Mine(s)') /\ \A t \in Slots \ {s} : Mine(t)' = Mine(t)
  <2>1. CASE UNCHANGED written
    BY <1>1, <2>1, MineOf
  <2>2. CASE \E e : Write(s, e)
    <3>1. PICK e : Mine(s)' = Mine(s) \cup {e} /\ \A t : t # s => Mine(t)' = Mine(t)
      BY <2>2, MineOf
    <3>2. IsFiniteSet(Mine(s) \cup {e})
      BY <1>1, FS_AddElement
    <3>3. QED
      BY <3>1, <3>2
  <2>3. QED
    BY <2>1, <2>2
<1>3. Split(call'[s], Mine(s)', DOMAIN products')
  BY <1>2 DEF Split
<1>4. QED
  BY <1>2, <1>3, SplitFrom

\* A cart that arrives has no line checked, and its request has sent nothing.
LEMMA ArriveSplit ==
  ASSUME XInv, LInv', NEW s \in Slots, Arrive(s)
  PROVE  XInv'
<1>1. CallsTyped /\ Shelved
  BY DEF XInv, LInv, TInv
<1>2. /\ call[s].op = "none" /\ UNCHANGED <<written, products>>
  <2>1. call[s] = Idle /\ UNCHANGED <<written, productVars>>
    BY DEF Arrive, ArriveList, ArriveAdd, ArriveCheckout, ArriveOrderOp, Asks
  <2>2. QED
    BY <2>1 DEF Idle, productVars
<1>3. Shelved' /\ DOMAIN products' = DOMAIN products /\ \A t : Mine(t)' = Mine(t)
  BY <1>1, <1>2, MineOf DEF Shelved
<1>4. CASE ArriveCheckout(s)
  <2>1. PICK b \in Buyers, c \in Carts :
          Continue(s, [op |-> "checkout", pc |-> "check", answer |-> 0, by |-> b,
                       cart |-> c, line |-> 1, groups |-> <<>>, id |-> "", seller |-> "",
                       items |-> <<>>])
    BY <1>4 DEF ArriveCheckout
  <2>2. PICK next : next = [op |-> "checkout", pc |-> "check", answer |-> 0, by |-> b,
                            cart |-> c, line |-> 1, groups |-> <<>>, id |-> "", seller |-> "",
                            items |-> <<>>]
    OBVIOUS
  <2>3. call'[s] = next /\ \A t \in Slots \ {s} : call'[t] = call[t]
    BY <1>1, <2>1, <2>2, Continued
  <2>4. /\ next.op = "checkout" /\ next.pc = "check" /\ next.line = 1
        /\ next.cart = c /\ next.groups = <<>>
    BY <2>2
  <2>5. Mine(s) = {} /\ IsFiniteSet(Mine(s))
    BY <1>2 DEF XInv, Split
  <2>6. DOMAIN next.groups = {} /\ IsFiniteSet(DOMAIN next.groups)
    <3>1. DOMAIN next.groups = {}
      BY <2>4
    <3>2. QED
      BY <3>1, FS_EmptySet
  <2>7. Sorted(next, Mine(s), DOMAIN products)
    BY <2>4, <2>5, <2>6 DEF Sorted
  <2>8. ASSUME NEW p PROVE Checked(next, p) = Gathered(next.groups, p) + InHand(next, p) + Sent(Mine(s), p)
    <3>1. Checked(next, p) = 0
      <4>1. Checked(next, p) = SumFunctionOnSet(Amount(c, p), 1 .. 0)
        BY <2>4 DEF Checked, UnitsTo
      <4>2. 1 .. 0 = {}
        OBVIOUS
      <4>3. QED
        BY <4>1, <4>2, SumNone
    <3>2. Gathered(next.groups, p) = 0
      <4>1. next.groups \in Groups
        <5>1. <<>> \in [{} -> Seq(Wanted)] /\ {} \subseteq Sellers
          OBVIOUS
        <5>2. QED
          BY <2>4, <5>1, GroupsTyped
      <4>2. QED
        BY <2>6, <4>1, GatheredInt
    <3>3. InHand(next, p) = 0
      BY <2>4 DEF InHand
    <3>4. Sent(Mine(s), p) = 0
      BY <2>5, SentMore
    <3>5. QED
      BY <3>1, <3>2, <3>3, <3>4
  <2>9. Balanced(next, Mine(s))
    BY <2>4, <2>5, <2>8 DEF Balanced
  <2>10. Split(call'[s], Mine(s)', DOMAIN products')
    BY <1>3, <2>3, <2>4, <2>5, <2>7, <2>9 DEF Split
  <2>11. QED
    BY <1>3, <2>3, <2>10, SplitFrom
<1>5. CASE ~ ArriveCheckout(s)
  <2>1. PICK next : Continue(s, next) /\ next.op \notin {"none", "checkout"}
    <3>1. CASE ArriveList(s)
      BY <3>1 DEF ArriveList
    <3>2. CASE ArriveAdd(s)
      BY <3>2 DEF ArriveAdd
    <3>3. CASE ArriveOrderOp(s)
      BY <3>3 DEF ArriveOrderOp, OrderOps
    <3>4. QED
      BY <1>5, <3>1, <3>2, <3>3 DEF Arrive
  <2>2. call'[s].op \notin {"none", "checkout"} /\ \A t \in Slots \ {s} : call'[t] = call[t]
    BY <1>1, <2>1, Continued
  <2>3. QED
    BY <1>2, <1>3, <2>2, PlainSplit
<1>6. QED
  BY <1>4, <1>5

\* A product is listed under the seller who offers it.
LEMMA ListSplit ==
  ASSUME XInv, LInv', NEW s \in Slots, ListProduct(s)
  PROVE  XInv'
<1>1. /\ CallsTyped /\ Shelved /\ call[s].op = "list" /\ call[s] \in ListCall
      /\ CallTyped(s, call[s])
  BY Held DEF XInv, LInv, TInv, ListProduct, At
<1>2. UNCHANGED written
  BY DEF ListProduct
<1>3. call'[s].op = "list" /\ \A t \in Slots \ {s} : call'[t] = call[t]
  <2>1. CASE Answer(s, 400)
    <3>1. call'[s].op = call[s].op
      BY <1>1, <2>1, AnswerLeaves
    <3>2. \A t \in Slots \ {s} : call'[t] = call[t]
      BY <1>1, <2>1, Continued DEF Answer
    <3>3. QED
      BY <1>1, <3>1, <3>2
  <2>2. CASE Continue(s, [call[s] EXCEPT !.pc = "write"])
    <3>1. call'[s] = [call[s] EXCEPT !.pc = "write"] /\ \A t \in Slots \ {s} : call'[t] = call[t]
      BY <1>1, <2>2, Continued
    <3>2. call'[s].op = "list"
      BY <1>1, <3>1 DEF ListCall
    <3>3. QED
      BY <3>1, <3>2
  <2>3. QED
    BY <2>1, <2>2 DEF ListProduct
<1>4. Shelved' /\ DOMAIN products \subseteq DOMAIN products'
  <2>1. CASE UNCHANGED products
    BY <1>1, <2>1 DEF Shelved
  <2>2. CASE P!Add(call[s].product, call[s].by, Offers[call[s].product].quantity)
    <3>1. call[s].by = Offers[call[s].product].seller
      BY <1>1 DEF CallTyped
    <3>2. PICK q, by : q = call[s].product /\ by = call[s].by
      OBVIOUS
    <3>3. /\ DOMAIN products' = DOMAIN products \cup {q}
          /\ products'[q].seller = by
          /\ \A i \in DOMAIN products \ {q} : products'[i] = products[i]
      BY <2>2, <3>2 DEF P!Add
    <3>4. QED
      BY <1>1, <3>1, <3>2, <3>3 DEF Shelved
  <2>3. QED
    BY <2>1, <2>2 DEF ListProduct, productVars
<1>5. QED
  BY <1>2, <1>3, <1>4, PlainSplit

\* The other handlers have no cart.
LEMMA QuietSplit ==
  ASSUME XInv, LInv', NEW s \in Slots,
         \/ WriteListed(s) \/ AddToCart(s) \/ WriteAdded(s) \/ GetOrder(s) \/ Transition(s) \/ Refuse(s)
         \/ Reread(s) \/ WriteOrderEvent(s)
  PROVE  XInv'
<1>1. CallsTyped /\ Shelved /\ LInv
  BY DEF XInv, LInv, TInv
<1>2. UNCHANGED products
  BY DEF WriteListed, AddToCart, WriteAdded, GetOrder, Transition, Refuse, Reread, WriteOrderEvent, productVars
<1>3. UNCHANGED written \/ \E e : Write(s, e)
  BY DEF WriteListed, AddToCart, WriteAdded, GetOrder, Transition, Refuse, Reread, WriteOrderEvent
<1>4. \A t \in Slots \ {s} : call'[t] = call[t]
  <2>1. \E next : Continue(s, next)
    BY DEF WriteListed, AddToCart, WriteAdded, GetOrder, Transition, Refuse, Reread, WriteOrderEvent, Answer
  <2>2. QED
    BY <1>1, <2>1, Continued
<1>5. call[s].op \notin {"none", "checkout"}
  <2>1. CASE WriteListed(s) \/ AddToCart(s) \/ WriteAdded(s)
    BY <2>1 DEF WriteListed, AddToCart, WriteAdded, At
  <2>2. CASE GetOrder(s) \/ WriteOrderEvent(s)
    BY <2>2 DEF GetOrder, WriteOrderEvent, OrderOps
  <2>3. CASE Transition(s)
    BY <1>1, <2>3, TransitionLinked DEF OrderOps
  <2>4. CASE Reread(s)
    BY <1>1, <2>4, RereadLinked DEF OrderOps
  <2>5. CASE Refuse(s)
    <3>1. call[s].pc = "transition" /\ CallTyped(s, call[s])
      BY <1>1, <2>5 DEF Refuse, CallsTyped
    <3>2. call[s] # Idle
      BY <3>1 DEF Idle
    <3>3. call[s] \notin CheckoutCall
      BY <3>1 DEF CheckoutCall
    <3>4. call[s].op \in {"list", "add"} \cup OrderOps
      BY <3>1, <3>2, <3>3 DEF CallTyped, ListCall, AddCall, OrderCall
    <3>5. QED
      BY <3>4 DEF OrderOps
  <2>6. QED
    BY <2>1, <2>2, <2>3, <2>4, <2>5
<1>6. call'[s].op = call[s].op
  <2>1. CASE \E code : Answer(s, code)
    BY <1>1, <2>1, AnswerLeaves
  <2>2. CASE Transition(s)
    BY <1>1, <2>2, TransitionLinked
  <2>3. CASE Reread(s)
    BY <1>1, <2>3, RereadLinked
  <2>4. CASE GetOrder(s) /\ ~ Answer(s, 404)
    <3>1. call[s] \in OrderCall
      BY <1>1, <2>4, Held DEF GetOrder
    <3>2. PICK o : o = orders[call[s].id]
      OBVIOUS
    <3>3. call'[s] = [call[s] EXCEPT !.pc = "transition", !.seen = o]
      BY <1>1, <2>4, <3>2, Continued DEF GetOrder
    <3>4. QED
      BY <3>1, <3>3 DEF OrderCall
  <2>5. CASE AddToCart(s) /\ ~ Answer(s, 404)
    <3>1. call[s] \in AddCall
      BY <1>1, <2>5, Held DEF AddToCart, At
    <3>2. call'[s] = [call[s] EXCEPT !.pc = "write"]
      BY <1>1, <2>5, Continued DEF AddToCart
    <3>3. QED
      BY <3>1, <3>2 DEF AddCall
  <2>6. QED
    BY <2>1, <2>2, <2>3, <2>4, <2>5 DEF WriteListed, WriteAdded, Refuse, WriteOrderEvent
<1>7. Shelved' /\ DOMAIN products' = DOMAIN products
  BY <1>1, <1>2 DEF Shelved
<1>8. QED
  BY <1>3, <1>4, <1>5, <1>6, <1>7, PlainSplit

\* A checkout that answers keeps what it has sorted.
LEMMA AnsweredCart ==
  ASSUME CallsTyped, NEW s \in Slots, call[s] \in CheckoutCall, NEW code, Answer(s, code)
  PROVE  /\ call'[s].op = "checkout" /\ call'[s].pc = "done" /\ call'[s].answer = code
         /\ call'[s].cart = call[s].cart /\ call'[s].groups = call[s].groups
<1>1. call'[s] = [call[s] EXCEPT !.pc = "done", !.answer = code]
  BY Continued DEF Answer
<1>2. QED
  BY <1>1 DEF CheckoutCall

\* An acceptable line goes to its seller's group; a refused cart goes nowhere.
LEMMA CheckSplit ==
  ASSUME XInv, LInv', NEW s \in Slots, CheckLine(s)
  PROVE  XInv'
<1>1. CallsTyped /\ Shelved /\ LInv /\ ProductsTyped
  BY DEF XInv, LInv, TInv
<1>2. UNCHANGED <<products, written>>
  BY DEF CheckLine, productVars
<1>3. PICK c, mine, listed : c = call[s] /\ mine = Mine(s) /\ listed = DOMAIN products
  OBVIOUS
<1>4. /\ c \in CheckoutCall /\ c.op = "checkout" /\ c.pc = "check" /\ CallTyped(s, c)
  BY <1>1, <1>3, Held DEF CheckLine, At
<1>5. /\ Shelved' /\ DOMAIN products' = listed /\ \A t : Mine(t)' = Mine(t)
  BY <1>1, <1>2, <1>3, MineOf DEF Shelved
<1>6. Split(c, mine, listed)
  BY <1>3 DEF XInv
<1>7. mine = {} /\ IsFiniteSet(mine) /\ Sorted(c, mine, listed) /\ Balanced(c, mine)
  BY <1>4, <1>6 DEF Split, Balanced
<1>8. CASE Answer(s, 400)
  <2>1. PICK next : next = call'[s]
    OBVIOUS
  <2>2. /\ next.op = "checkout" /\ next.pc = "done" /\ next.answer = 400
        /\ next.groups = c.groups
    BY <1>1, <1>3, <1>4, <1>8, <2>1, AnsweredCart
  <2>3. Sorted(next, mine, listed)
    BY <1>7, <2>2 DEF Sorted
  <2>4. Balanced(next, mine)
    BY <1>7, <2>2 DEF Balanced
  <2>5. Split(next, mine, listed)
    BY <1>7, <2>2, <2>3, <2>4 DEF Split
  <2>6. \A t \in Slots \ {s} : call'[t] = call[t]
    BY <1>1, <1>8, Continued DEF Answer
  <2>7. QED
    BY <1>3, <1>5, <2>1, <2>5, <2>6, SplitFrom
<1>9. CASE ~ Answer(s, 400)
  <2>1. PICK k, l, x : k = c.line /\ l = c.cart[k] /\ x = products[l.product].seller
    OBVIOUS
  <2>2. c.cart # <<>> /\ Acceptable(l)
    BY <1>3, <1>9, <2>1 DEF CheckLine
  <2>3. c.cart \in Seq(Line) /\ k \in 1 .. Len(c.cart)
    <3>1. c.cart \in Carts
      BY <1>4 DEF CheckoutCall
    <3>2. QED
      BY <1>4, <2>1, <2>2, <3>1, MarketAssumption DEF CallTyped
  <2>4. l \in Line
    BY <2>1, <2>3
  <2>5. l \in Wanted /\ l.product \in listed
    <3>1. l.product \in listed /\ l.quantity > 0
      BY <1>3, <2>2 DEF Acceptable, P!Listed
    <3>2. QED
      BY <2>4, <3>1 DEF Line, Wanted
  <2>6. x \in Sellers /\ x = Offers[l.product].seller
    BY <1>1, <1>3, <2>1, <2>5 DEF ProductsTyped, Shelved
  <2>7. PICK more : more = With(c.groups, x, l)
    OBVIOUS
  <2>8. c.groups \in Groups /\ IsFiniteSet(DOMAIN c.groups)
    BY <1>4, <1>7 DEF CheckoutCall, Sorted
  <2>9. /\ DOMAIN more = DOMAIN c.groups \cup {x} /\ IsFiniteSet(DOMAIN more)
        /\ \A y \in DOMAIN c.groups : y # x => more[y] = c.groups[y]
        /\ \E items \in Seq(Wanted) : /\ more[x] = items \o <<l>>
                                      /\ x \in DOMAIN c.groups => items = c.groups[x]
                                      /\ x \notin DOMAIN c.groups => items = <<>>
        /\ \A p : Gathered(more, p) = Gathered(c.groups, p) + IF l.product = p THEN l.quantity ELSE 0
    <3>1. PICK groups : groups = c.groups
      OBVIOUS
    <3>2. groups \in Groups /\ IsFiniteSet(DOMAIN groups) /\ x \in Sellers /\ l \in Wanted
      BY <2>5, <2>6, <2>8, <3>1
    <3>3. /\ DOMAIN With(groups, x, l) = DOMAIN groups \cup {x}
          /\ IsFiniteSet(DOMAIN With(groups, x, l))
          /\ \A y \in DOMAIN groups : y # x => With(groups, x, l)[y] = groups[y]
      <4>1. DOMAIN With(groups, x, l) = DOMAIN groups \cup {x}
        BY DEF With
      <4>2. IsFiniteSet(DOMAIN With(groups, x, l))
        BY ONLY <3>2, GatheredMore, Zenon
      <4>3. \A y \in DOMAIN groups : y # x => With(groups, x, l)[y] = groups[y]
        <5>1. SUFFICES ASSUME NEW y \in DOMAIN groups, y # x
                       PROVE  With(groups, x, l)[y] = groups[y]
          OBVIOUS
        <5>2. With(groups, x, l)[y] = groups[y] \o <<>> /\ groups[y] \in Seq(Wanted)
          BY <3>2, <5>1, GroupsTyped DEF With
        <5>3. QED
          BY <5>2
      <4>4. QED
        BY <4>1, <4>2, <4>3
    <3>4. \E items \in Seq(Wanted) :
            /\ With(groups, x, l)[x] = items \o <<l>>
            /\ x \in DOMAIN groups => items = groups[x]
            /\ x \notin DOMAIN groups => items = <<>>
      BY ONLY <3>2, GatheredMore
    <3>5. \A p : Gathered(With(groups, x, l), p)
                 = Gathered(groups, p) + IF l.product = p THEN l.quantity ELSE 0
      BY ONLY <3>2, GatheredMore, ZenonT(60)
    <3>6. more = With(groups, x, l)
      BY <2>7, <3>1
    <3>7. QED
      BY <3>1, <3>3, <3>4, <3>5, <3>6
  <2>10. PICK next, pc : /\ next = [c EXCEPT !.groups = more, !.line = k + 1, !.pc = pc]
                         /\ pc = IF k = Len(c.cart) THEN "create" ELSE "check"
    OBVIOUS
  <2>11. call'[s] = next /\ \A t \in Slots \ {s} : call'[t] = call[t]
    <3>1. Grouped(c.groups, l) = more
      BY <2>1, <2>7 DEF Grouped, With
    <3>2. Continue(s, [c EXCEPT !.groups = Grouped(c.groups, l), !.line = k + 1, !.pc = pc])
      BY <1>3, <1>9, <2>1, <2>10 DEF CheckLine
    <3>3. Continue(s, next)
      BY <2>10, <3>1, <3>2
    <3>4. QED
      BY <1>1, <3>3, Continued
  <2>12. /\ next.op = "checkout" /\ next.pc = pc /\ next.groups = more
         /\ next.line = k + 1 /\ next.cart = c.cart /\ pc \in {"create", "check"}
    BY <1>4, <2>10 DEF CheckoutCall
  <2>13. ASSUME NEW y \in DOMAIN more PROVE Own(more[y], y, listed)
    <3>1. CASE y # x
      BY <1>7, <2>9, <3>1 DEF Sorted
    <3>2. CASE y = x
      <4>1. PICK items \in Seq(Wanted) : /\ more[x] = items \o <<l>>
                                         /\ x \in DOMAIN c.groups => items = c.groups[x]
                                         /\ x \notin DOMAIN c.groups => items = <<>>
        BY <2>9
      <4>2. Own(items, x, listed)
        <5>1. CASE x \in DOMAIN c.groups
          BY <1>7, <4>1, <5>1 DEF Sorted
        <5>2. CASE x \notin DOMAIN c.groups
          <6>1. Len(items) = 0
            BY <4>1, <5>2
          <6>2. QED
            BY <6>1 DEF Own
        <5>3. QED
          BY <5>1, <5>2
      <4>3. ASSUME NEW i \in 1 .. Len(items \o <<l>>)
            PROVE  /\ (items \o <<l>>)[i].product \in listed
                   /\ Offers[(items \o <<l>>)[i].product].seller = x
        <5>1. CASE i \in 1 .. Len(items)
          BY <4>2, <5>1 DEF Own
        <5>2. CASE i = Len(items) + 1
          BY <2>5, <2>6, <5>2
        <5>3. QED
          BY <5>1, <5>2
      <4>4. QED
        BY <3>2, <4>1, <4>3 DEF Own
    <3>3. QED
      BY <3>1, <3>2
  <2>14. Sorted(next, mine, listed)
    BY <1>7, <2>9, <2>12, <2>13 DEF Sorted
  <2>15. ASSUME NEW p \in Products
         PROVE  Checked(next, p) = Gathered(next.groups, p) + InHand(next, p) + Sent(mine, p)
    <3>1. PICK n \in Int : n = IF l.product = p THEN l.quantity ELSE 0
      BY <2>5 DEF Wanted
    <3>2. /\ UnitsTo(c.cart, k, p) = UnitsTo(c.cart, k - 1, p) + n
          /\ UnitsTo(c.cart, k - 1, p) \in Int
          /\ k = Len(c.cart) => UnitsTo(c.cart, k, p) = Units(c.cart, p)
      BY <2>1, <2>3, <3>1, HeadSteps
    <3>3. Checked(next, p) = UnitsTo(c.cart, k, p)
      <4>1. PICK j : j = next.line - 1
        OBVIOUS
      <4>2. j = k
        BY <2>3, <2>12, <4>1
      <4>3. Checked(next, p) = IF pc = "check" THEN UnitsTo(c.cart, j, p) ELSE Units(c.cart, p)
        BY <2>12, <4>1 DEF Checked
      <4>4. QED
        BY <2>10, <3>2, <4>2, <4>3
    <3>4. Checked(c, p) = UnitsTo(c.cart, k - 1, p)
      BY <1>4, <2>1 DEF Checked
    <3>5. Checked(c, p) = Gathered(c.groups, p) + InHand(c, p) + Sent(mine, p)
      BY <1>4, <1>7 DEF Balanced
    <3>6. InHand(c, p) = 0 /\ InHand(next, p) = 0
      BY <1>4, <2>12 DEF InHand
    <3>7. Sent(mine, p) = 0
      BY <1>7, SentMore
    <3>8. Gathered(c.groups, p) \in Int
      BY <2>8, GatheredInt
    <3>9. Gathered(next.groups, p) = Gathered(c.groups, p) + n
      BY <2>9, <2>12, <3>1
    <3>10. QED
      BY <3>1, <3>2, <3>3, <3>4, <3>5, <3>6, <3>7, <3>8, <3>9
  <2>16. Balanced(next, mine)
    BY <1>7, <2>12, <2>15 DEF Balanced
  <2>17. Split(next, mine, listed)
    BY <1>7, <2>12, <2>14, <2>16 DEF Split
  <2>18. QED
    BY <1>3, <1>5, <2>11, <2>17, SplitFrom
<1>10. QED
  BY <1>8, <1>9

\* A group taken out becomes the order in hand.
LEMMA CreateSplit ==
  ASSUME XInv, LInv', NEW s \in Slots, CreateOrder(s)
  PROVE  XInv'
<1>1. CallsTyped /\ Shelved
  BY DEF XInv, LInv, TInv
<1>2. UNCHANGED <<products, written>>
  BY DEF CreateOrder, productVars
<1>3. PICK c, mine, listed : c = call[s] /\ mine = Mine(s) /\ listed = DOMAIN products
  OBVIOUS
<1>4. c \in CheckoutCall /\ c.op = "checkout" /\ c.pc = "create"
  BY <1>1, <1>3, Held DEF CreateOrder, At
<1>5. /\ Shelved' /\ DOMAIN products' = listed /\ \A t : Mine(t)' = Mine(t)
  BY <1>1, <1>2, <1>3, MineOf DEF Shelved
<1>6. Split(c, mine, listed)
  BY <1>3 DEF XInv
<1>7. IsFiniteSet(mine) /\ Sorted(c, mine, listed) /\ Balanced(c, mine)
  BY <1>4, <1>6 DEF Split
<1>8. PICK x, id :
        /\ x \in DOMAIN c.groups
        /\ Continue(s, [c EXCEPT !.pc = "decrement", !.line = 1, !.id = id,
                                !.seller = x, !.items = c.groups[x],
                                !.groups = [y \in DOMAIN c.groups \ {x} |-> c.groups[y]]])
  <2>1. PICK x \in DOMAIN c.groups :
          LET groups == c.groups
              id == CHOOSE i \in OrderIds : i \notin DOMAIN orders IN
          Continue(s, [c EXCEPT !.pc = "decrement", !.line = 1, !.id = id,
                               !.seller = x, !.items = groups[x],
                               !.groups = [y \in DOMAIN groups \ {x} |-> groups[y]]])
    BY <1>3 DEF CreateOrder
  <2>2. PICK id : id = CHOOSE i \in OrderIds : i \notin DOMAIN orders
    OBVIOUS
  <2>3. Continue(s, [c EXCEPT !.pc = "decrement", !.line = 1, !.id = id,
                             !.seller = x, !.items = c.groups[x],
                             !.groups = [y \in DOMAIN c.groups \ {x} |-> c.groups[y]]])
    BY <2>1, <2>2
  <2>4. QED
    BY <2>3
<1>9. PICK items, rest, next :
        /\ items = c.groups[x] /\ rest = [y \in DOMAIN c.groups \ {x} |-> c.groups[y]]
        /\ next = [c EXCEPT !.pc = "decrement", !.line = 1, !.id = id, !.seller = x,
                            !.items = items, !.groups = rest]
  OBVIOUS
<1>10. call'[s] = next /\ \A t \in Slots \ {s} : call'[t] = call[t]
  BY <1>1, <1>8, <1>9, Continued
<1>11. /\ next.op = "checkout" /\ next.pc = "decrement" /\ next.seller = x
       /\ next.items = items /\ next.groups = rest /\ next.cart = c.cart
  BY <1>4, <1>9 DEF CheckoutCall
<1>12. c.groups \in Groups /\ IsFiniteSet(DOMAIN c.groups)
  BY <1>4, <1>7 DEF CheckoutCall, Sorted
<1>13. /\ \A p : Gathered(c.groups, p) = Units(items, p) + Gathered(rest, p)
       /\ IsFiniteSet(DOMAIN rest) /\ DOMAIN rest = DOMAIN c.groups \ {x}
       /\ rest \in Groups
  <2>1. PICK groups : groups = c.groups
    OBVIOUS
  <2>2. groups \in Groups /\ IsFiniteSet(DOMAIN groups) /\ x \in DOMAIN groups
    BY <1>8, <1>12, <2>1
  <2>3. rest = Without(groups, x) /\ DOMAIN rest = DOMAIN groups \ {x} /\ items = groups[x]
    BY <1>9, <2>1 DEF Without
  <2>4. ASSUME NEW p
        PROVE  /\ Gathered(groups, p) = Units(groups[x], p) + Gathered(Without(groups, x), p)
               /\ Without(groups, x) \in Groups /\ IsFiniteSet(DOMAIN Without(groups, x))
    BY ONLY <2>2, GatheredLess
  <2>5. QED
    BY <2>1, <2>3, <2>4
<1>14. Sorted(next, mine, listed)
  <2>1. ASSUME NEW y \in DOMAIN rest PROVE Own(rest[y], y, listed)
    BY <1>7, <1>9, <1>13 DEF Sorted
  <2>2. Own(items, x, listed) /\ x \notin DOMAIN rest
    BY <1>7, <1>8, <1>9, <1>13 DEF Sorted
  <2>3. \A e \in mine : e.seller \notin DOMAIN rest /\ e.seller # x
    BY <1>7, <1>8, <1>13 DEF Sorted
  <2>4. QED
    BY <1>7, <1>11, <1>13, <2>1, <2>2, <2>3 DEF Sorted
<1>15. ASSUME NEW p \in Products
       PROVE  Checked(next, p) = Gathered(next.groups, p) + InHand(next, p) + Sent(mine, p)
  <2>1. Checked(c, p) = Gathered(c.groups, p) + InHand(c, p) + Sent(mine, p)
    BY <1>4, <1>7 DEF Balanced
  <2>2. Checked(next, p) = Checked(c, p) /\ InHand(c, p) = 0 /\ InHand(next, p) = Units(items, p)
    BY <1>4, <1>11 DEF Checked, InHand
  <2>3. Units(items, p) \in Int /\ Gathered(rest, p) \in Int
    <3>1. \A groups \in Groups :
            /\ IsFiniteSet(DOMAIN groups) => Gathered(groups, p) \in Int
            /\ \A y \in DOMAIN groups : Units(groups[y], p) \in Int
      BY GatheredInt
    <3>2. Gathered(rest, p) \in Int
      BY <1>13, <3>1
    <3>3. Units(items, p) \in Int
      BY <1>8, <1>9, <1>12, <3>1
    <3>4. QED
      BY <3>2, <3>3
  <2>4. Sent(mine, p) \in Int
    BY <1>7, SentMore DEF Sorted
  <2>5. Gathered(c.groups, p) = Units(items, p) + Gathered(next.groups, p)
    BY <1>11, <1>13
  <2>6. QED
    BY <1>11, <2>1, <2>2, <2>3, <2>4, <2>5
<1>16. Balanced(next, mine)
  BY <1>11, <1>15 DEF Balanced
<1>17. Split(next, mine, listed)
  BY <1>7, <1>11, <1>14, <1>16 DEF Split
<1>18. QED
  BY <1>3, <1>5, <1>10, <1>17, SplitFrom

\* Taking stock moves no line.
LEMMA DecrementSplit ==
  ASSUME XInv, LInv', NEW s \in Slots, DecrementLine(s)
  PROVE  XInv'
<1>1. CallsTyped /\ Shelved /\ ProductsTyped
  BY DEF XInv, LInv, TInv
<1>2. PICK c, mine, listed : c = call[s] /\ mine = Mine(s) /\ listed = DOMAIN products
  OBVIOUS
<1>3. c \in CheckoutCall /\ c.op = "checkout" /\ c.pc = "decrement"
  BY <1>1, <1>2, Held DEF DecrementLine, At
<1>4. UNCHANGED written /\ \E p, q : P!DecrementQuantity(p, q)
  BY DEF DecrementLine
<1>5. Shelved' /\ DOMAIN products' = listed
  <2>1. PICK p, q : products' = IF P!Has(p, q) THEN [products EXCEPT ![p].quantity = @ - q]
                                ELSE products
    BY <1>4 DEF P!DecrementQuantity
  <2>2. /\ DOMAIN products' = DOMAIN products
        /\ \A i \in DOMAIN products : products'[i].seller = products[i].seller
    <3>1. \A i \in DOMAIN products : products[i] \in [seller : Sellers, quantity : Int]
      BY <1>1 DEF ProductsTyped
    <3>2. QED
      BY <2>1, <3>1
  <2>3. QED
    BY <1>1, <1>2, <2>2 DEF Shelved
<1>6. IsFiniteSet(mine) /\ Sorted(c, mine, listed) /\ Balanced(c, mine)
  BY <1>2, <1>3 DEF XInv, Split
<1>7. PICK pc, line, next : /\ next = [c EXCEPT !.line = line, !.pc = pc]
                            /\ pc \in {"write", "decrement"} /\ Continue(s, next)
  <2>1. PICK line, pc : /\ line = c.line + 1
                        /\ pc = IF c.line = Len(c.items) THEN "write" ELSE "decrement"
    OBVIOUS
  <2>2. Continue(s, [c EXCEPT !.line = line, !.pc = pc])
    BY <1>2, <2>1 DEF DecrementLine
  <2>3. QED
    BY <2>1, <2>2
<1>8. call'[s] = next /\ \A t \in Slots \ {s} : call'[t] = call[t]
  BY <1>1, <1>7, Continued
<1>9. /\ next.op = "checkout" /\ next.pc = pc /\ next.seller = c.seller
      /\ next.items = c.items /\ next.groups = c.groups /\ next.cart = c.cart
  BY <1>3, <1>7 DEF CheckoutCall
<1>10. Sorted(next, mine, listed)
  BY <1>3, <1>6, <1>7, <1>9 DEF Sorted
<1>11. ASSUME NEW p \in Products
       PROVE  Checked(next, p) = Gathered(next.groups, p) + InHand(next, p) + Sent(mine, p)
  <2>1. Checked(c, p) = Gathered(c.groups, p) + InHand(c, p) + Sent(mine, p)
    BY <1>3, <1>6 DEF Balanced
  <2>2. Checked(next, p) = Checked(c, p) /\ InHand(next, p) = InHand(c, p)
    BY <1>3, <1>7, <1>9 DEF Checked, InHand
  <2>3. QED
    BY <1>9, <2>1, <2>2
<1>12. Balanced(next, mine)
  BY <1>7, <1>9, <1>11 DEF Balanced
<1>13. Split(next, mine, listed)
  BY <1>6, <1>9, <1>10, <1>12 DEF Split
<1>14. QED
  BY <1>2, <1>4, <1>5, <1>8, <1>13, SplitFrom, MineOf

\* The order in hand becomes an event, the only one of its seller.
LEMMA WriteSplit ==
  ASSUME XInv, LInv', NEW s \in Slots, WriteCheckout(s)
  PROVE  XInv'
<1>1. CallsTyped /\ Shelved
  BY DEF XInv, LInv, TInv
<1>2. UNCHANGED products
  BY DEF WriteCheckout, productVars
<1>3. PICK c, mine, listed, e :
        /\ c = call[s] /\ mine = Mine(s) /\ listed = DOMAIN products
        /\ e = [type |-> "cart.checkout", id |-> c.id, buyer |-> c.by, seller |-> c.seller,
                items |-> c.items]
  OBVIOUS
<1>4. c \in CheckoutCall /\ c.op = "checkout" /\ c.pc = "write"
  BY <1>1, <1>3, Held DEF WriteCheckout, At
<1>5. Shelved' /\ DOMAIN products' = listed
  BY <1>1, <1>2, <1>3 DEF Shelved
<1>6. e.seller = c.seller /\ e.items = c.items /\ c.items \in Seq(Wanted)
  BY <1>3, <1>4 DEF CheckoutCall
<1>7. Mine(s)' = mine \cup {e} /\ \A t : t # s => Mine(t)' = Mine(t)
  <2>1. Write(s, e)
    BY <1>3 DEF WriteCheckout
  <2>2. QED
    BY <1>3, <2>1, MineOf
<1>8. IsFiniteSet(mine) /\ Sorted(c, mine, listed) /\ Balanced(c, mine)
  BY <1>3, <1>4 DEF XInv, Split
<1>9. /\ Own(c.items, c.seller, listed) /\ c.seller \notin DOMAIN c.groups
      /\ \A f \in mine : f.seller # c.seller
      /\ e \notin mine
  BY <1>4, <1>6, <1>8 DEF Sorted
<1>10. PICK more : more = mine \cup {e}
  OBVIOUS
<1>11. IsFiniteSet(more)
  BY <1>8, <1>10, FS_AddElement
<1>12. PICK next : /\ call'[s] = next /\ \A t \in Slots \ {s} : call'[t] = call[t]
                   /\ next.op = "checkout" /\ next.groups = c.groups /\ next.cart = c.cart
                   /\ \/ next.pc = "create"
                      \/ next.pc = "done" /\ next.answer = 201 /\ DOMAIN c.groups = {}
  <2>1. CASE DOMAIN c.groups = {} /\ Answer(s, 201)
    <3>1. /\ call'[s].op = "checkout" /\ call'[s].groups = c.groups /\ call'[s].cart = c.cart
          /\ call'[s].pc = "done" /\ call'[s].answer = 201
      BY <1>1, <1>3, <1>4, <2>1, AnsweredCart
    <3>2. \A t \in Slots \ {s} : call'[t] = call[t]
      BY <1>1, <2>1, Continued DEF Answer
    <3>3. QED
      BY <2>1, <3>1, <3>2
  <2>2. CASE Continue(s, [c EXCEPT !.pc = "create"])
    <3>1. call'[s] = [c EXCEPT !.pc = "create"] /\ \A t \in Slots \ {s} : call'[t] = call[t]
      BY <1>1, <2>2, Continued
    <3>2. /\ call'[s].op = "checkout" /\ call'[s].groups = c.groups /\ call'[s].cart = c.cart
          /\ call'[s].pc = "create"
      BY <1>4, <3>1 DEF CheckoutCall
    <3>3. QED
      BY <3>1, <3>2
  <2>3. QED
    BY <1>3, <2>1, <2>2 DEF WriteCheckout
<1>13. Sorted(next, more, listed)
  <2>1. \A f \in mine : /\ f.items \in Seq(Wanted) /\ Own(f.items, f.seller, listed)
                        /\ f.seller \notin DOMAIN c.groups
                        /\ \A g \in mine : g.seller = f.seller => g = f
    BY <1>8 DEF Sorted
  <2>2. \A f \in more : /\ f.items \in Seq(Wanted) /\ Own(f.items, f.seller, listed)
                        /\ f.seller \notin DOMAIN c.groups
                        /\ \A g \in more : g.seller = f.seller => g = f
    BY <1>6, <1>9, <1>10, <2>1
  <2>3. IsFiniteSet(DOMAIN c.groups) /\ \A y \in DOMAIN c.groups : Own(c.groups[y], y, listed)
    BY <1>8 DEF Sorted
  <2>4. QED
    BY <1>12, <2>2, <2>3 DEF Sorted
<1>14. ASSUME NEW p \in Products
       PROVE  Checked(next, p) = Gathered(next.groups, p) + InHand(next, p) + Sent(more, p)
  <2>1. Checked(c, p) = Gathered(c.groups, p) + InHand(c, p) + Sent(mine, p)
    BY <1>4, <1>8 DEF Balanced
  <2>2. /\ Checked(next, p) = Checked(c, p)
        /\ InHand(c, p) = Units(c.items, p) /\ InHand(next, p) = 0
    BY <1>4, <1>12 DEF Checked, InHand
  <2>3. Sent(more, p) = Sent(mine, p) + Units(c.items, p) /\ Sent(mine, p) \in Int
    <3>1. \A f \in mine : f.items \in Seq(Wanted)
      BY <1>8 DEF Sorted
    <3>2. /\ Sent(mine, p) \in Int
          /\ Sent(mine \cup {e}, p) = Sent(mine, p) + Units(e.items, p)
      BY <1>6, <1>8, <1>9, <3>1, SentMore
    <3>3. QED
      BY <1>6, <1>10, <3>2
  <2>4. Units(c.items, p) \in Int
    BY <1>6, WantedLines, UnitsAre
  <2>5. Gathered(c.groups, p) \in Int
    BY <1>4, <1>8, GatheredInt DEF CheckoutCall, Sorted
  <2>6. Gathered(next.groups, p) = Gathered(c.groups, p)
    BY <1>12
  <2>7. QED
    BY <2>1, <2>2, <2>3, <2>4, <2>5, <2>6
<1>15. Balanced(next, more)
  BY <1>12, <1>14 DEF Balanced
<1>16. Split(next, more, listed)
  BY <1>11, <1>12, <1>13, <1>15 DEF Split
<1>17. Split(call'[s], Mine(s)', DOMAIN products')
  BY <1>5, <1>7, <1>10, <1>12, <1>16
<1>18. /\ DOMAIN products \subseteq DOMAIN products'
       /\ \A t \in Slots \ {s} : call'[t] = call[t] /\ Mine(t)' = Mine(t)
  BY <1>3, <1>5, <1>7, <1>12
<1>19. QED
  BY <1>5, <1>17, <1>18, SplitFrom

\* Every step keeps the accounts of all carts.
LEMMA NextXInv == XInv /\ [Next]_vars => XInv'
<1> SUFFICES ASSUME XInv, [Next]_vars PROVE XInv'
  OBVIOUS
<1>1. LInv'
  BY NextLInv DEF XInv
<1>2. ASSUME NEW s \in Slots, Step(s) PROVE XInv'
  BY <1>1, <1>2, ListSplit, QuietSplit, CheckSplit, CreateSplit, DecrementSplit, WriteSplit
     DEF Step
<1>3. ASSUME NEW s \in Slots, Arrive(s) PROVE XInv'
  BY <1>1, <1>3, ArriveSplit
<1>4. CASE UNCHANGED <<call, written, products>>
  <2>1. Shelved' /\ DOMAIN products' = DOMAIN products
    BY <1>4 DEF XInv, Shelved
  <2>2. \A s \in Slots : Split(call'[s], Mine(s)', DOMAIN products')
    <3>1. SUFFICES ASSUME NEW s \in Slots PROVE Split(call'[s], Mine(s)', DOMAIN products')
      OBVIOUS
    <3>2. Split(call[s], Mine(s), DOMAIN products)
      BY DEF XInv
    <3>3. call'[s] = call[s] /\ Mine(s)' = Mine(s)
      BY <1>4, MineOf
    <3>4. QED
      BY <2>1, <3>2, <3>3
  <2>3. QED
    BY <1>1, <2>1, <2>2 DEF XInv
<1>5. QED
  BY <1>2, <1>3, <1>4 DEF Next, Tick, vars, productVars

\* At the start there are no carts.
LEMMA InitXInv == Init => XInv
<1> SUFFICES ASSUME Init PROVE XInv
  OBVIOUS
<1>1. LInv
  BY InitLInv
<1>2. Shelved
  BY DEF Init, P!InitProducts, Shelved
<1>3. ASSUME NEW s \in Slots PROVE Split(call[s], Mine(s), DOMAIN products)
  <2>1. call[s].op = "none" /\ Mine(s) = {}
    BY DEF Init, Idle, Mine
  <2>2. QED
    BY <2>1, FS_EmptySet DEF Split
<1>4. QED
  BY <1>1, <1>2, <1>3 DEF XInv

\* An accepted checkout turns its cart into one order per seller, each line in
\* the order of its own seller and no unit lost or doubled; a refused one
\* leaves nothing behind.
THEOREM SpecSplitExact == Spec => []SplitExact
<1>1. XInv => SplitExact
  <2> SUFFICES ASSUME XInv, NEW s \in Slots, call[s].op = "checkout", call[s].pc = "done"
               PROVE  LET mine == {w.event : w \in {v \in written : v.slot = s}} IN
                      IF call[s].answer # 201 THEN mine = {}
                      ELSE /\ \A p \in Products :
                                Units(call[s].cart, p)
                                  = SumFunction([e \in mine |-> Units(e.items, p)])
                           /\ \A e \in mine :
                                /\ \A i \in DOMAIN e.items :
                                     products[e.items[i].product].seller = e.seller
                                /\ \A f \in mine : f.seller = e.seller => f = e
    BY DEF SplitExact
  <2>1. PICK c, mine, listed : c = call[s] /\ mine = Mine(s) /\ listed = DOMAIN products
    OBVIOUS
  <2>2. mine = {w.event : w \in {v \in written : v.slot = s}}
    BY <2>1 DEF Mine
  <2>3. IsFiniteSet(mine) /\ Sorted(c, mine, listed) /\ Balanced(c, mine)
    BY <2>1 DEF XInv, Split
  <2>4. c.answer # 201 => mine = {}
    BY <2>1, <2>3 DEF Balanced
  <2>5. ASSUME c.answer = 201, NEW p \in Products
        PROVE  Units(c.cart, p) = SumFunction([e \in mine |-> Units(e.items, p)])
    <3>1. Units(c.cart, p) = Gathered(c.groups, p) + 0 + Sent(mine, p)
      BY <2>1, <2>3, <2>5 DEF Balanced, Checked, InHand
    <3>2. Gathered(c.groups, p) = 0
      <4>1. c \in CheckoutCall
        BY <2>1, Held DEF XInv, LInv, TInv
      <4>2. c.groups \in Groups /\ DOMAIN c.groups = {}
        BY <2>1, <2>3, <2>5, <4>1 DEF Balanced, CheckoutCall
      <4>3. QED
        BY <4>2, GatheredInt
    <3>3. Sent(mine, p) \in Int
      BY <2>3, SentMore DEF Sorted
    <3>4. Sent(mine, p) = SumFunction([e \in mine |-> Units(e.items, p)])
      BY DEF Sent, SumFunction
    <3>5. QED
      BY <3>1, <3>2, <3>3, <3>4
  <2>6. ASSUME NEW e \in mine
        PROVE  /\ \A i \in DOMAIN e.items : products[e.items[i].product].seller = e.seller
               /\ \A f \in mine : f.seller = e.seller => f = e
    <3>1. e.items \in Seq(Wanted) /\ Own(e.items, e.seller, listed)
      BY <2>3 DEF Sorted
    <3>2. DOMAIN e.items = 1 .. Len(e.items)
      BY <3>1
    <3>3. ASSUME NEW i \in DOMAIN e.items PROVE products[e.items[i].product].seller = e.seller
      BY <2>1, <3>1, <3>2 DEF Own, XInv, Shelved
    <3>4. QED
      BY <2>3, <3>3 DEF Sorted
  <2>7. QED
    BY <2>1, <2>2, <2>4, <2>5, <2>6
<1>2. QED
  BY <1>1, InitXInv, NextXInv, PTL DEF Spec

-----------------------------------------------------------------------------
(* Every step of a goroutine brings it nearer to its end.                  *)

\* The steps left at each place.
LEMMA StepsAre ==
  ASSUME NEW c
  PROVE  /\ c.pc \in {"idle", "done"} => StepsLeft(c) = 0
         /\ c.pc = "get" => StepsLeft(c) = 4
         /\ c.pc = "transition" => StepsLeft(c) = 3
         /\ c.pc \in {"validate", "reread"} => StepsLeft(c) = 2
         /\ c.pc = "write" /\ c.op # "checkout" => StepsLeft(c) = 1
         /\ c.pc = "write" /\ c.op = "checkout" => StepsLeft(c) = 1 + StepsFor(c.groups)
         /\ c.pc = "check" => StepsLeft(c) = 4 * (Len(c.cart) - c.line + 1) + 1 + StepsFor(c.groups)
         /\ c.pc = "create" => StepsLeft(c) = StepsFor(c.groups)
         /\ c.pc = "decrement" => StepsLeft(c) = Len(c.items) - c.line + 2 + StepsFor(c.groups)
<1>1. ASSUME c.pc \in {"idle", "done"} PROVE StepsLeft(c) = 0
  BY <1>1 DEF StepsLeft
<1>2. ASSUME c.pc = "get" PROVE StepsLeft(c) = 4
  BY <1>2 DEF StepsLeft
<1>3. ASSUME c.pc = "transition" PROVE StepsLeft(c) = 3
  BY <1>3 DEF StepsLeft
<1>4. ASSUME c.pc \in {"validate", "reread"} PROVE StepsLeft(c) = 2
  BY <1>4 DEF StepsLeft
<1>5. ASSUME c.pc = "write", c.op # "checkout" PROVE StepsLeft(c) = 1
  <2>1. StepsLeft(c) = 1 + 0
    BY <1>5 DEF StepsLeft
  <2>2. QED
    BY <2>1
<1>6. ASSUME c.pc = "write", c.op = "checkout" PROVE StepsLeft(c) = 1 + StepsFor(c.groups)
  BY <1>6 DEF StepsLeft
<1>7. ASSUME c.pc = "check"
      PROVE  StepsLeft(c) = 4 * (Len(c.cart) - c.line + 1) + 1 + StepsFor(c.groups)
  BY <1>7 DEF StepsLeft
<1>8. ASSUME c.pc = "create" PROVE StepsLeft(c) = StepsFor(c.groups)
  BY <1>8 DEF StepsLeft
<1>9. ASSUME c.pc = "decrement"
      PROVE  StepsLeft(c) = Len(c.items) - c.line + 2 + StepsFor(c.groups)
  BY <1>9 DEF StepsLeft
<1>10. QED
  BY <1>1, <1>2, <1>3, <1>4, <1>5, <1>6, <1>7, <1>8, <1>9

\* What one group costs.
Cost(groups) == [x \in DOMAIN groups |-> 2 + Len(groups[x])]

\* The steps for groups are a number, the sum of the costs of each.
LEMMA StepsForNat ==
  ASSUME NEW groups \in Groups, IsFiniteSet(DOMAIN groups)
  PROVE  /\ StepsFor(groups) = SumFunctionOnSet(Cost(groups), DOMAIN groups)
         /\ \A x \in DOMAIN groups : Cost(groups)[x] \in Nat /\ Cost(groups)[x] = 2 + Len(groups[x])
         /\ StepsFor(groups) \in Nat
<1>1. StepsFor(groups) = SumFunctionOnSet(Cost(groups), DOMAIN groups)
  <2>1. StepsFor(groups) = SumFunctionOnSet(Cost(groups), DOMAIN Cost(groups))
    BY DEF StepsFor, SumFunction, Cost
  <2>2. DOMAIN Cost(groups) = DOMAIN groups
    BY DEF Cost
  <2>3. QED
    BY <2>1, <2>2
<1>2. ASSUME NEW x \in DOMAIN groups
      PROVE  Cost(groups)[x] \in Nat /\ Cost(groups)[x] = 2 + Len(groups[x])
  <2>1. groups[x] \in Seq(Wanted)
    BY GroupsTyped
  <2>2. Len(groups[x]) \in Nat
    BY <2>1
  <2>3. QED
    BY <2>2 DEF Cost
<1>3. SumFunctionOnSet(Cost(groups), DOMAIN groups) \in Nat
  <2>1. PICK f, D : f = Cost(groups) /\ D = DOMAIN groups
    OBVIOUS
  <2>2. IsFiniteSet(D) /\ \A x \in D : f[x] \in Nat
    BY <1>2, <2>1
  <2>3. SumFunctionOnSet(f, D) \in Nat
    BY ONLY <2>2, SumNat
  <2>4. QED
    BY <2>1, <2>3
<1>4. QED
  BY <1>1, <1>2, <1>3

\* The group whose order is stored costs nothing more.
LEMMA StepsForLess ==
  ASSUME NEW groups \in Groups, IsFiniteSet(DOMAIN groups), NEW x \in DOMAIN groups
  PROVE  /\ StepsFor(groups) = 2 + Len(groups[x]) + StepsFor(Without(groups, x))
         /\ StepsFor(Without(groups, x)) \in Nat /\ Len(groups[x]) \in Nat
<1>1. PICK rest, D, R : rest = Without(groups, x) /\ D = DOMAIN groups /\ R = D \ {x}
  OBVIOUS
<1>2. DOMAIN rest = R /\ \A y \in R : rest[y] = groups[y]
  BY <1>1 DEF Without
<1>3. rest \in Groups /\ IsFiniteSet(R)
  <2>1. Without(groups, x) \in Groups /\ IsFiniteSet(DOMAIN Without(groups, x))
    BY GatheredLess
  <2>2. QED
    BY <1>1, <1>2, <2>1
<1>4. PICK f, g : f = Cost(groups) /\ g = Cost(rest)
  OBVIOUS
<1>5. /\ StepsFor(groups) = SumFunctionOnSet(f, D)
      /\ \A y \in D : f[y] \in Nat /\ f[y] = 2 + Len(groups[y])
  BY <1>1, <1>4, StepsForNat
<1>6. /\ StepsFor(rest) = SumFunctionOnSet(g, R) /\ StepsFor(rest) \in Nat
      /\ \A y \in R : g[y] = 2 + Len(rest[y])
  BY <1>2, <1>3, <1>4, StepsForNat
<1>7. SumFunctionOnSet(f, D) = f[x] + SumFunctionOnSet(f, R)
  <2>1. IsFiniteSet(D) /\ x \in D /\ \A y \in D : f[y] \in Int
    BY <1>1, <1>5
  <2>2. SumFunctionOnSet(f, D) = f[x] + SumFunctionOnSet(f, D \ {x})
    BY ONLY <2>1, SumRest
  <2>3. QED
    BY <1>1, <2>2
<1>8. SumFunctionOnSet(g, R) = SumFunctionOnSet(f, R)
  <2>1. \A y \in R : g[y] = f[y]
    BY <1>1, <1>2, <1>5, <1>6
  <2>2. QED
    BY ONLY <1>3, <2>1, SumSame
<1>9. Len(groups[x]) \in Nat
  <2>1. groups[x] \in Seq(Wanted)
    BY GroupsTyped
  <2>2. QED
    BY <2>1
<1>10. f[x] = 2 + Len(groups[x])
  BY <1>1, <1>5
<1>11. StepsFor(groups) = 2 + Len(groups[x]) + StepsFor(rest)
  BY <1>5, <1>6, <1>7, <1>8, <1>9, <1>10
<1>12. QED
  BY <1>1, <1>6, <1>9, <1>11

\* One more line costs three steps at most: its own, or those of a group of its own.
LEMMA StepsForMore ==
  ASSUME NEW groups \in Groups, IsFiniteSet(DOMAIN groups), NEW x \in Sellers, NEW l \in Wanted,
         NEW more \in Groups, more = With(groups, x, l)
  PROVE  /\ IsFiniteSet(DOMAIN more)
         /\ StepsFor(more) \in Nat /\ StepsFor(more) <= StepsFor(groups) + 3
<1>1. PICK D, R : D = DOMAIN groups /\ R = DOMAIN more
  OBVIOUS
<1>2. /\ R = D \cup {x} /\ IsFiniteSet(R)
      /\ \A y \in D \ {x} : more[y] = groups[y]
  <2>1. R = D \cup {x}
    BY <1>1 DEF With
  <2>2. IsFiniteSet(R)
    BY <1>1, <2>1, FS_AddElement
  <2>3. ASSUME NEW y \in D \ {x} PROVE more[y] = groups[y]
    <3>1. more[y] = groups[y] \o <<>> /\ groups[y] \in Seq(Wanted)
      BY <1>1, <2>3, GroupsTyped DEF With
    <3>2. QED
      BY <3>1
  <2>4. QED
    BY <2>1, <2>2, <2>3
<1>3. /\ x \in D => Len(more[x]) = Len(groups[x]) + 1 /\ Len(groups[x]) \in Nat
      /\ x \notin D => Len(more[x]) = 1
  <2>1. CASE x \in D
    <3>1. more[x] = groups[x] \o <<l>> /\ groups[x] \in Seq(Wanted)
      BY <1>1, <2>1, GroupsTyped DEF With
    <3>2. QED
      BY <2>1, <3>1
  <2>2. CASE x \notin D
    <3>1. more[x] = <<>> \o <<l>>
      BY <1>1, <2>2 DEF With
    <3>2. QED
      BY <2>2, <3>1
  <2>3. QED
    BY <2>1, <2>2
<1>4. PICK f, g : f = Cost(groups) /\ g = Cost(more)
  OBVIOUS
<1>5. /\ StepsFor(groups) = SumFunctionOnSet(f, D) /\ StepsFor(groups) \in Nat
      /\ \A y \in D : f[y] \in Nat /\ f[y] = 2 + Len(groups[y])
  BY <1>1, <1>4, StepsForNat
<1>6. /\ StepsFor(more) = SumFunctionOnSet(g, R) /\ StepsFor(more) \in Nat
      /\ \A y \in R : g[y] \in Nat /\ g[y] = 2 + Len(more[y])
  BY <1>1, <1>2, <1>4, StepsForNat
<1>7. \A y \in D \ {x} : g[y] = f[y]
  BY <1>2, <1>5, <1>6
<1>8. CASE x \in D
  <2>1. R = D /\ IsFiniteSet(D)
    BY <1>1, <1>2, <1>8
  <2>2. \A y \in D : f[y] \in Int /\ g[y] \in Int
    BY <1>5, <1>6, <2>1
  <2>3. SumFunctionOnSet(g, D) = SumFunctionOnSet(f, D) + g[x] - f[x]
    BY ONLY <1>7, <1>8, <2>1, <2>2, SumChanged
  <2>4. g[x] = f[x] + 1 /\ f[x] \in Nat
    BY <1>3, <1>5, <1>6, <1>8, <2>1
  <2>5. StepsFor(more) = StepsFor(groups) + 1
    BY <1>5, <1>6, <2>1, <2>3, <2>4
  <2>6. QED
    BY <1>1, <1>2, <1>5, <1>6, <2>5
<1>9. CASE x \notin D
  <2>1. IsFiniteSet(D) /\ g[x] \in Int /\ \A y \in D : f[y] \in Int /\ g[y] = f[y]
    BY <1>1, <1>2, <1>5, <1>6, <1>7, <1>9
  <2>2. SumFunctionOnSet(g, D \cup {x}) = SumFunctionOnSet(f, D) + g[x]
    BY ONLY <1>9, <2>1, SumWith
  <2>3. g[x] = 3
    <3>1. x \in R /\ Len(more[x]) = 1
      BY <1>2, <1>3, <1>9
    <3>2. g[x] = 2 + Len(more[x])
      BY <1>6, <3>1
    <3>3. QED
      BY <3>1, <3>2
  <2>4. StepsFor(more) = StepsFor(groups) + 3
    <3>1. SumFunctionOnSet(g, R) = SumFunctionOnSet(g, D \cup {x})
      BY <1>2, Zenon
    <3>2. QED
      BY <1>5, <1>6, <2>2, <2>3, <3>1
  <2>5. QED
    BY <1>1, <1>2, <1>5, <1>6, <2>4
<1>10. QED
  BY <1>8, <1>9

\* Less is left of d than of c.
Nearer(c, d) == StepsLeft(d) \in Nat /\ StepsLeft(d) < StepsLeft(c)

\* A goroutine of a checkout holds a checkout's locals.
LEMMA CartTyped ==
  ASSUME NEW s, NEW c, CallTyped(s, c), c.op = "checkout"
  PROVE  c \in CheckoutCall
BY DEF CallTyped, Idle, ListCall, AddCall, OrderCall, OrderOps

\* The cart of a checkout, wherever it is, has a number of steps left.
LEMMA CartOf ==
  ASSUME XInv, NEW s \in Slots, call[s].op = "checkout"
  PROVE  /\ call[s] \in CheckoutCall /\ CallTyped(s, call[s])
         /\ call[s].groups \in Groups /\ IsFiniteSet(DOMAIN call[s].groups)
         /\ StepsFor(call[s].groups) \in Nat
<1>1. call[s] \in CheckoutCall /\ CallTyped(s, call[s])
  BY Held DEF XInv, LInv, TInv
<1>2. call[s].groups \in Groups
  BY <1>1 DEF CheckoutCall
<1>3. IsFiniteSet(DOMAIN call[s].groups)
  BY DEF XInv, Split, Sorted
<1>4. QED
  BY <1>1, <1>2, <1>3, StepsForNat

\* A goroutine that answers is at its end.
LEMMA AnswerNearer ==
  ASSUME CallsTyped, NEW s \in Slots, NEW code, Answer(s, code),
         StepsLeft(call[s]) \in Nat \ {0}
  PROVE  Nearer(call[s], call'[s])
<1>1. CallTyped(s, call[s])
  BY DEF CallsTyped
<1>2. call'[s] = [call[s] EXCEPT !.pc = "done", !.answer = code]
  BY Continued DEF Answer
<1>3. call'[s].pc = "done"
  BY <1>1, <1>2 DEF CallTyped, ListCall, AddCall, CheckoutCall, OrderCall, Idle
<1>4. StepsLeft(call'[s]) = 0
  BY <1>3, StepsAre
<1>5. QED
  BY <1>4 DEF Nearer

\* Checking a line: four steps are saved, three at most are added.
LEMMA CheckNearer ==
  ASSUME XInv, LInv', NEW s \in Slots, CheckLine(s)
  PROVE  Nearer(call[s], call'[s])
<1>1. CallsTyped /\ ProductsTyped /\ call[s].op = "checkout" /\ call[s].pc = "check"
  BY DEF XInv, LInv, TInv, CheckLine, At
<1>2. PICK c : c = call[s]
  OBVIOUS
<1>3. /\ c \in CheckoutCall /\ CallTyped(s, c) /\ c.op = "checkout" /\ c.pc = "check"
      /\ c.groups \in Groups /\ IsFiniteSet(DOMAIN c.groups) /\ StepsFor(c.groups) \in Nat
      /\ c.cart \in Seq(Line)
  <2>1. c \in CheckoutCall
    BY <1>1, <1>2, CartOf
  <2>2. c.cart \in Seq(Line)
    BY <2>1, MarketAssumption DEF CheckoutCall
  <2>3. QED
    BY <1>1, <1>2, <2>1, <2>2, CartOf
<1>4. StepsLeft(c) = 4 * (Len(c.cart) - c.line + 1) + 1 + StepsFor(c.groups)
  BY <1>3, StepsAre
<1>5. c.line \in Nat /\ Len(c.cart) \in Nat
  <2>1. c.line \in Nat
    BY <1>3 DEF CheckoutCall
  <2>2. QED
    BY <1>3, <2>1
<1>6. CASE Answer(s, 400)
  <2>1. c.line <= Len(c.cart) + 1
    <3>1. (c.cart = <<>> /\ c.line = 1) \/ c.line \in 1 .. Len(c.cart)
      BY <1>3 DEF CallTyped
    <3>2. c.cart = <<>> => Len(c.cart) = 0
      OBVIOUS
    <3>3. QED
      BY <1>5, <3>1, <3>2
  <2>2. PICK n \in Nat, g \in Nat : n = Len(c.cart) - c.line + 1 /\ g = StepsFor(c.groups)
    BY <1>3, <1>5, <2>1
  <2>3. StepsLeft(c) \in Nat \ {0}
    BY <1>4, <2>2
  <2>4. QED
    BY <1>1, <1>2, <1>6, <2>3, AnswerNearer
<1>7. CASE ~ Answer(s, 400)
  <2>1. PICK k, l, x : k = c.line /\ l = c.cart[k] /\ x = products[l.product].seller
    OBVIOUS
  <2>2. c.cart # <<>> /\ Acceptable(l)
    BY <1>2, <1>7, <2>1 DEF CheckLine
  <2>3. k \in 1 .. Len(c.cart)
    BY <1>3, <2>1, <2>2 DEF CallTyped
  <2>4. l \in Wanted /\ l.product \in DOMAIN products
    <3>1. l \in Line
      BY <1>3, <2>1, <2>3
    <3>2. l.product \in DOMAIN products /\ l.quantity > 0
      BY <2>2 DEF Acceptable, P!Listed
    <3>3. QED
      BY <3>1, <3>2 DEF Line, Wanted
  <2>5. x \in Sellers
    BY <1>1, <2>1, <2>4 DEF ProductsTyped
  <2>6. PICK more : more = With(c.groups, x, l)
    OBVIOUS
  <2>7. PICK next, pc : /\ next = [c EXCEPT !.groups = more, !.line = k + 1, !.pc = pc]
                        /\ pc = IF k = Len(c.cart) THEN "create" ELSE "check"
    OBVIOUS
  <2>8. call'[s] = next
    <3>1. Grouped(c.groups, l) = more
      BY <2>1, <2>6 DEF Grouped, With
    <3>2. Continue(s, [c EXCEPT !.groups = Grouped(c.groups, l), !.line = k + 1, !.pc = pc])
      BY <1>2, <1>7, <2>1, <2>7 DEF CheckLine
    <3>3. Continue(s, next)
      BY <2>7, <3>1, <3>2
    <3>4. QED
      BY <1>1, <3>3, Continued
  <2>9. /\ next.op = "checkout" /\ next.pc = pc /\ next.groups = more
        /\ next.line = k + 1 /\ next.cart = c.cart /\ pc \in {"create", "check"}
    BY <1>3, <2>7 DEF CheckoutCall
  <2>10. more \in Groups
    <3>1. CallTyped(s, next)
      BY <2>8 DEF LInv, TInv, CallsTyped
    <3>2. next \in CheckoutCall
      BY <2>9, <3>1, CartTyped
    <3>3. QED
      BY <2>9, <3>2 DEF CheckoutCall
  <2>11. StepsFor(more) \in Nat /\ StepsFor(more) <= StepsFor(c.groups) + 3
    <3>1. PICK groups : groups = c.groups
      OBVIOUS
    <3>2. groups \in Groups /\ IsFiniteSet(DOMAIN groups) /\ more = With(groups, x, l)
      BY <1>3, <2>6, <3>1
    <3>3. StepsFor(more) \in Nat /\ StepsFor(more) <= StepsFor(groups) + 3
      BY ONLY <2>4, <2>5, <2>10, <3>2, StepsForMore
    <3>4. QED
      BY <3>1, <3>3
  <2>12. PICK g \in Nat, h \in Nat : g = StepsFor(c.groups) /\ h = StepsFor(more) /\ h <= g + 3
    BY <1>3, <2>11
  <2>13. PICK m \in Nat : m = Len(c.cart)
    BY <1>5
  <2>14. StepsLeft(c) = 4 * (m - k + 1) + 1 + g
    BY <1>4, <2>1, <2>12, <2>13
  <2>15. k \in Nat /\ k <= m
    BY <2>3, <2>13
  <2>16. CASE pc = "create"
    <3>1. StepsLeft(next) = h
      BY <2>9, <2>12, <2>16, StepsAre
    <3>2. h < 4 * (m - k + 1) + 1 + g
      BY <2>12, <2>15
    <3>3. QED
      BY <1>2, <2>8, <2>12, <2>14, <3>1, <3>2 DEF Nearer
  <2>17. CASE pc = "check"
    <3>1. k # m
      BY <2>7, <2>13, <2>17
    <3>2. StepsLeft(next) = 4 * (Len(next.cart) - next.line + 1) + 1 + StepsFor(next.groups)
      BY <2>9, <2>17, StepsAre
    <3>3. StepsLeft(next) = 4 * (m - (k + 1) + 1) + 1 + h
      BY <2>9, <2>12, <2>13, <3>2
    <3>4. /\ 4 * (m - (k + 1) + 1) + 1 + h \in Nat
          /\ 4 * (m - (k + 1) + 1) + 1 + h < 4 * (m - k + 1) + 1 + g
      BY <2>12, <2>15, <3>1
    <3>5. QED
      BY <1>2, <2>8, <2>14, <3>3, <3>4 DEF Nearer
  <2>18. QED
    BY <2>9, <2>16, <2>17
<1>8. QED
  BY <1>6, <1>7

\* Storing a group's order: its two steps and its lines are to come, less this one.
LEMMA CreateNearer ==
  ASSUME XInv, LInv', NEW s \in Slots, CreateOrder(s)
  PROVE  Nearer(call[s], call'[s])
<1>1. CallsTyped /\ call[s].op = "checkout" /\ call[s].pc = "create"
  BY DEF XInv, LInv, TInv, CreateOrder, At
<1>2. PICK c, groups : c = call[s] /\ groups = c.groups
  OBVIOUS
<1>3. /\ c \in CheckoutCall /\ c.pc = "create"
      /\ groups \in Groups /\ IsFiniteSet(DOMAIN groups)
  BY <1>1, <1>2, CartOf
<1>4. PICK x, id :
        /\ x \in DOMAIN groups
        /\ Continue(s, [c EXCEPT !.pc = "decrement", !.line = 1, !.id = id,
                                !.seller = x, !.items = groups[x],
                                !.groups = [y \in DOMAIN groups \ {x} |-> groups[y]]])
  <2>1. PICK x \in DOMAIN groups :
          LET id == CHOOSE i \in OrderIds : i \notin DOMAIN orders IN
          Continue(s, [c EXCEPT !.pc = "decrement", !.line = 1, !.id = id,
                               !.seller = x, !.items = groups[x],
                               !.groups = [y \in DOMAIN groups \ {x} |-> groups[y]]])
    BY <1>2 DEF CreateOrder
  <2>2. PICK id : id = CHOOSE i \in OrderIds : i \notin DOMAIN orders
    OBVIOUS
  <2>3. Continue(s, [c EXCEPT !.pc = "decrement", !.line = 1, !.id = id,
                             !.seller = x, !.items = groups[x],
                             !.groups = [y \in DOMAIN groups \ {x} |-> groups[y]]])
    BY <2>1, <2>2
  <2>4. QED
    BY <2>3
<1>5. PICK items, rest, next :
        /\ items = groups[x] /\ rest = [y \in DOMAIN groups \ {x} |-> groups[y]]
        /\ next = [c EXCEPT !.pc = "decrement", !.line = 1, !.id = id, !.seller = x,
                            !.items = items, !.groups = rest]
  OBVIOUS
<1>6. call'[s] = next
  BY <1>1, <1>4, <1>5, Continued
<1>7. next.pc = "decrement" /\ next.line = 1 /\ next.items = items /\ next.groups = rest
  BY <1>3, <1>5 DEF CheckoutCall
<1>8. /\ StepsFor(groups) = 2 + Len(items) + StepsFor(rest)
      /\ StepsFor(rest) \in Nat /\ Len(items) \in Nat
  <2>1. rest = Without(groups, x)
    BY <1>5 DEF Without
  <2>2. /\ StepsFor(groups) = 2 + Len(groups[x]) + StepsFor(Without(groups, x))
        /\ StepsFor(Without(groups, x)) \in Nat /\ Len(groups[x]) \in Nat
    BY ONLY <1>3, <1>4, StepsForLess
  <2>3. QED
    BY <1>5, <2>1, <2>2
<1>9. StepsLeft(c) = StepsFor(groups)
  BY <1>2, <1>3, StepsAre
<1>10. StepsLeft(next) = Len(items) - 1 + 2 + StepsFor(rest)
  <2>1. StepsLeft(next) = Len(next.items) - next.line + 2 + StepsFor(next.groups)
    BY <1>7, StepsAre
  <2>2. QED
    BY <1>7, <2>1
<1>11. QED
  BY <1>2, <1>6, <1>8, <1>9, <1>10 DEF Nearer

\* The next line of the order, or its event.
LEMMA DecrementNearer ==
  ASSUME XInv, NEW s \in Slots, DecrementLine(s)
  PROVE  Nearer(call[s], call'[s])
<1>1. CallsTyped /\ call[s].op = "checkout" /\ call[s].pc = "decrement"
  BY DEF XInv, LInv, TInv, DecrementLine, At
<1>2. PICK c : c = call[s]
  OBVIOUS
<1>3. /\ c \in CheckoutCall /\ CallTyped(s, c) /\ c.op = "checkout" /\ c.pc = "decrement"
      /\ StepsFor(c.groups) \in Nat
  BY <1>1, <1>2, CartOf
<1>4. c.line \in 1 .. Len(c.items) /\ Len(c.items) \in Nat
  <2>1. c.items \in Seq(Wanted)
    BY <1>3 DEF CheckoutCall
  <2>2. QED
    BY <1>3, <2>1 DEF CallTyped
<1>5. PICK next, pc : /\ next = [c EXCEPT !.line = c.line + 1, !.pc = pc]
                      /\ pc = IF c.line = Len(c.items) THEN "write" ELSE "decrement"
  OBVIOUS
<1>6. call'[s] = next
  <2>1. Continue(s, next)
    BY <1>2, <1>5 DEF DecrementLine
  <2>2. QED
    BY <1>1, <2>1, Continued
<1>7. /\ next.op = "checkout" /\ next.pc = pc /\ next.line = c.line + 1
      /\ next.items = c.items /\ next.groups = c.groups
  BY <1>3, <1>5 DEF CheckoutCall
<1>8. StepsLeft(c) = Len(c.items) - c.line + 2 + StepsFor(c.groups)
  BY <1>3, StepsAre
<1>9. CASE pc = "write"
  <2>1. StepsLeft(next) = 1 + StepsFor(c.groups)
    BY <1>7, <1>9, StepsAre
  <2>2. QED
    BY <1>2, <1>3, <1>4, <1>6, <1>8, <2>1 DEF Nearer
<1>10. CASE pc = "decrement"
  <2>1. StepsLeft(next) = Len(c.items) - (c.line + 1) + 2 + StepsFor(c.groups)
    <3>1. StepsLeft(next) = Len(next.items) - next.line + 2 + StepsFor(next.groups)
      BY <1>7, <1>10, StepsAre
    <3>2. QED
      BY <1>7, <3>1
  <2>2. c.line # Len(c.items)
    BY <1>5, <1>10
  <2>3. PICK k \in Nat, m \in Nat, g \in Nat :
          k = c.line /\ m = Len(c.items) /\ g = StepsFor(c.groups) /\ k < m
    BY <1>3, <1>4, <2>2
  <2>4. StepsLeft(next) = m - (k + 1) + 2 + g /\ StepsLeft(c) = m - k + 2 + g
    BY <1>8, <2>1, <2>3
  <2>5. Nearer(c, next)
    <3>1. \A i, j, n \in Nat : i < j => j - (i + 1) + 2 + n \in Nat
                                        /\ j - (i + 1) + 2 + n < j - i + 2 + n
      OBVIOUS
    <3>2. k < m
      BY <2>3
    <3>3. m - (k + 1) + 2 + g \in Nat /\ m - (k + 1) + 2 + g < m - k + 2 + g
      BY ONLY <3>1, <3>2
    <3>4. QED
      BY <2>4, <3>3 DEF Nearer
  <2>6. QED
    BY <1>2, <1>6, <2>5
<1>11. QED
  BY <1>5, <1>9, <1>10

\* The event of an order: the next group, or the answer.
LEMMA WriteNearer ==
  ASSUME XInv, NEW s \in Slots, WriteCheckout(s)
  PROVE  Nearer(call[s], call'[s])
<1>1. CallsTyped /\ call[s].op = "checkout" /\ call[s].pc = "write"
  BY DEF XInv, LInv, TInv, WriteCheckout, At
<1>2. PICK c : c = call[s]
  OBVIOUS
<1>3. /\ c \in CheckoutCall /\ c.op = "checkout" /\ c.pc = "write"
      /\ StepsFor(c.groups) \in Nat
  BY <1>1, <1>2, CartOf
<1>4. StepsLeft(c) = 1 + StepsFor(c.groups)
  BY <1>3, StepsAre
<1>5. CASE Answer(s, 201)
  BY <1>1, <1>2, <1>3, <1>4, <1>5, AnswerNearer
<1>6. CASE Continue(s, [c EXCEPT !.pc = "create"])
  <2>1. call'[s] = [c EXCEPT !.pc = "create"]
    BY <1>1, <1>6, Continued
  <2>2. PICK next : next = call'[s]
    OBVIOUS
  <2>3. next.pc = "create" /\ next.groups = c.groups
    BY <1>3, <2>1, <2>2 DEF CheckoutCall
  <2>4. StepsLeft(next) = StepsFor(c.groups)
    BY <2>3, StepsAre
  <2>5. QED
    BY <1>2, <1>3, <1>4, <2>2, <2>4 DEF Nearer
<1>7. QED
  BY <1>2, <1>5, <1>6 DEF WriteCheckout

\* The handlers without a cart: each step is the next one of a few.
LEMMA QuietNearer ==
  ASSUME XInv, NEW s \in Slots,
         \/ ListProduct(s) \/ WriteListed(s) \/ AddToCart(s) \/ WriteAdded(s) \/ GetOrder(s)
         \/ Transition(s) \/ Refuse(s) \/ Reread(s) \/ WriteOrderEvent(s)
  PROVE  Nearer(call[s], call'[s])
<1>1. LInv /\ CallsTyped
  BY DEF XInv, LInv, TInv
<1>2. CASE Transition(s)
  <2>1. call'[s].pc \in {"reread", "write"} /\ call'[s].op # "checkout"
    BY <1>1, <1>2, TransitionLinked DEF OrderOps
  <2>2. call[s].pc = "transition"
    BY <1>2 DEF Transition
  <2>3. StepsLeft(call'[s]) \in {1, 2} /\ StepsLeft(call[s]) = 3
    BY <2>1, <2>2, StepsAre
  <2>4. QED
    BY <2>3 DEF Nearer
<1>3. CASE Reread(s)
  <2>1. call'[s].pc = "write" /\ call'[s].op # "checkout"
    BY <1>1, <1>3, RereadLinked DEF OrderOps
  <2>2. call[s].pc = "reread"
    BY <1>3 DEF Reread
  <2>3. StepsLeft(call'[s]) = 1 /\ StepsLeft(call[s]) = 2
    BY <2>1, <2>2, StepsAre
  <2>4. QED
    BY <2>3 DEF Nearer
<1>4. CASE GetOrder(s) /\ ~ Answer(s, 404)
  <2>1. call[s] \in OrderCall
    BY <1>1, <1>4, Held DEF GetOrder
  <2>2. PICK o : o = orders[call[s].id]
    OBVIOUS
  <2>3. call'[s] = [call[s] EXCEPT !.pc = "transition", !.seen = o]
    BY <1>1, <1>4, <2>2, Continued DEF GetOrder
  <2>4. call'[s].pc = "transition" /\ call[s].pc = "get"
    BY <1>4, <2>1, <2>3 DEF OrderCall, GetOrder
  <2>5. StepsLeft(call'[s]) = 3 /\ StepsLeft(call[s]) = 4
    BY <2>4, StepsAre
  <2>6. QED
    BY <2>5 DEF Nearer
<1>5. CASE ListProduct(s) /\ ~ Answer(s, 400)
  <2>1. call[s] \in ListCall /\ call[s].pc = "validate"
    BY <1>1, <1>5, Held DEF ListProduct, At
  <2>2. call'[s] = [call[s] EXCEPT !.pc = "write"]
    BY <1>1, <1>5, Continued DEF ListProduct
  <2>3. call'[s].pc = "write" /\ call'[s].op # "checkout"
    BY <2>1, <2>2 DEF ListCall
  <2>4. StepsLeft(call'[s]) = 1 /\ StepsLeft(call[s]) = 2
    BY <2>1, <2>3, StepsAre
  <2>5. QED
    BY <2>4 DEF Nearer
<1>6. CASE AddToCart(s) /\ ~ Answer(s, 404)
  <2>1. call[s] \in AddCall /\ call[s].pc = "get"
    BY <1>1, <1>6, Held DEF AddToCart, At
  <2>2. call'[s] = [call[s] EXCEPT !.pc = "write"]
    BY <1>1, <1>6, Continued DEF AddToCart
  <2>3. call'[s].pc = "write" /\ call'[s].op # "checkout"
    BY <2>1, <2>2 DEF AddCall
  <2>4. StepsLeft(call'[s]) = 1 /\ StepsLeft(call[s]) = 4
    BY <2>1, <2>3, StepsAre
  <2>5. QED
    BY <2>4 DEF Nearer
<1>7. CASE \E code : Answer(s, code)
  <2>1. PICK code : Answer(s, code)
    BY <1>7
  <2>2. \/ call[s].pc \in {"validate", "get", "transition", "reread"}
        \/ call[s].pc = "write" /\ call[s].op # "checkout"
    BY DEF ListProduct, WriteListed, AddToCart, WriteAdded, GetOrder, Transition, Refuse, Reread,
           WriteOrderEvent, At, OrderOps
  <2>3. StepsLeft(call[s]) \in {1, 2, 3, 4}
    BY <2>2, StepsAre
  <2>4. StepsLeft(call[s]) \in Nat \ {0}
    BY <2>3
  <2>5. QED
    BY <1>1, <2>1, <2>4, AnswerNearer
<1>8. QED
  BY <1>2, <1>3, <1>4, <1>5, <1>6, <1>7 DEF WriteListed, WriteAdded, Refuse, WriteOrderEvent

\* Only its own steps move a goroutine, and a request only arrives at an idle one.
LEMMA StepNearer ==
  ASSUME XInv, LInv', [Next]_vars, NEW s \in Slots, call[s] # Idle, call'[s] # call[s]
  PROVE  Nearer(call[s], call'[s])
<1>1. CallsTyped
  BY DEF XInv, LInv, TInv
<1>2. PICK t \in Slots : Arrive(t) \/ Step(t)
  BY DEF Next, Tick, vars
<1>3. \E next : Continue(t, next)
  BY <1>2 DEF Arrive, ArriveList, ArriveAdd, ArriveCheckout, ArriveOrderOp, Step, ListProduct,
     WriteListed, AddToCart, WriteAdded, CheckLine, CreateOrder, DecrementLine, WriteCheckout, GetOrder,
     Transition, Refuse, Reread, WriteOrderEvent, Answer
<1>4. t = s
  BY <1>1, <1>3, Continued
<1>5. ~ Arrive(s)
  BY DEF Arrive, ArriveList, ArriveAdd, ArriveCheckout, ArriveOrderOp, Asks
<1>6. Step(s)
  BY <1>2, <1>4, <1>5
<1>7. QED
  BY <1>6, CheckNearer, CreateNearer, DecrementNearer, WriteNearer, QuietNearer DEF Step

\* Whatever races for the stock and for the orders, every step of a goroutine
\* leaves it fewer steps to take: a request cannot keep it busy for ever.
THEOREM AlwaysNearerItsEnd == Spec => NearerItsEnd
<1>1. XInv /\ LInv' /\ [Next]_vars
        => [\A s \in Slots : call[s] # Idle /\ call'[s] # call[s] =>
              0 <= StepsLeft(call'[s]) /\ StepsLeft(call'[s]) < StepsLeft(call[s])]_vars
  BY StepNearer DEF Nearer
<1>2. XInv => LInv
  BY DEF XInv
<1>3. QED
  BY <1>1, <1>2, InitXInv, NextXInv, PTL DEF Spec, NearerItsEnd

=============================================================================
