-------------------------- MODULE OrderStoreProofs --------------------------
(***************************************************************************)
(* Machine-checked proofs about OrderStore, for any sets of ids and users, *)
(* any readiness delays and any clock bound.                               *)
(***************************************************************************)
EXTENDS OrderStore, SequenceTheorems, TLAPS

-----------------------------------------------------------------------------
(* What the two index updates of the store do to a duplicate-free list.    *)

\* Appending an id that is not listed keeps the list free of duplicates.
LEMMA AppendLists ==
  ASSUME NEW S, NEW ids \in Seq(S), NEW id \in S,
         NEW wanted, Lists(ids, wanted), id \notin wanted
  PROVE  /\ Append(ids, id) \in Seq(S)
         /\ Lists(Append(ids, id), wanted \cup {id})
<1>1. Append(ids, id) \in Seq(S)
  OBVIOUS
<1>2. /\ DOMAIN Append(ids, id) = 1 .. Len(ids) + 1
      /\ \A i \in 1 .. Len(ids) : Append(ids, id)[i] = ids[i]
      /\ Append(ids, id)[Len(ids) + 1] = id
      /\ DOMAIN ids = 1 .. Len(ids)
      /\ Len(ids) \in Nat
  OBVIOUS
<1>3. \A i \in DOMAIN ids : ids[i] \in wanted
  BY DEF Lists, ToSet
<1>4. IsInjective(Append(ids, id))
  BY <1>2, <1>3 DEF Lists, IsInjective
<1>5. ToSet(Append(ids, id)) = wanted \cup {id}
  <2>1. ToSet(Append(ids, id)) \subseteq wanted \cup {id}
    BY <1>2, <1>3 DEF ToSet
  <2>2. wanted \cup {id} \subseteq ToSet(Append(ids, id))
    BY <1>2 DEF Lists, ToSet
  <2>3. QED
    BY <2>1, <2>2
<1>6. QED
  BY <1>1, <1>4, <1>5 DEF Lists

\* Removing the first occurrence of a listed id from a duplicate-free list
\* removes that id and nothing else.
LEMMA RemoveLists ==
  ASSUME NEW S, NEW ids \in Seq(S), NEW id,
         NEW wanted, Lists(ids, wanted), id \in wanted
  PROVE  /\ RemoveFirst(ids, id) \in Seq(S)
         /\ Lists(RemoveFirst(ids, id), wanted \ {id})
<1>1. /\ Len(ids) \in Nat
      /\ DOMAIN ids = 1 .. Len(ids)
      /\ \A i \in 1 .. Len(ids) : ids[i] \in S
  OBVIOUS
<1>2. PICK k \in 1 .. Len(ids) : ids[k] = id
  BY <1>1 DEF Lists, ToSet
<1>3. \A i \in 1 .. Len(ids) : ids[i] = id <=> i = k
  BY <1>1, <1>2 DEF Lists, IsInjective
<1>4. SelectInSeq(ids, LAMBDA v : v = id) = k
  <2>1. {i \in 1 .. Len(ids) : ids[i] = id} = {k}
    BY <1>3
  <2>2. Min({k}) = k
    BY DEF Min
  <2>3. QED
    BY <2>1, <2>2 DEF SelectInSeq
<1>5. RemoveFirst(ids, id) = SubSeq(ids, 1, k - 1) \o SubSeq(ids, k + 1, Len(ids))
  BY <1>2, <1>4 DEF RemoveFirst, RemoveAt
<1> DEFINE front == SubSeq(ids, 1, k - 1)
           back  == SubSeq(ids, k + 1, Len(ids))
           rest  == front \o back
<1>6. /\ front \in Seq(S) /\ Len(front) = k - 1
      /\ \A i \in 1 .. k - 1 : front[i] = ids[i]
  <2>1. \A i \in 1 .. k - 1 : ids[i] \in S
    BY <1>1
  <2>2. QED
    BY <1>1, <2>1, SubSeqProperties
<1>7. /\ back \in Seq(S) /\ Len(back) = Len(ids) - k
      /\ \A i \in 1 .. Len(ids) - k : back[i] = ids[k + i]
  <2>1. \A i \in k + 1 .. Len(ids) : ids[i] \in S
    BY <1>1
  <2>2. /\ back \in Seq(S)
        /\ Len(back) = IF k + 1 <= Len(ids) THEN Len(ids) - (k + 1) + 1 ELSE 0
        /\ \A i \in 1 .. Len(ids) - (k + 1) + 1 : back[i] = ids[k + 1 + i - 1]
    BY <1>1, <2>1, SubSeqProperties
  <2> HIDE DEF back
  <2>3. Len(back) = Len(ids) - k
    <3>1. k \in Nat /\ k <= Len(ids) /\ Len(ids) \in Nat
      BY <1>1, <1>2
    <3>2. Len(back) = IF k + 1 <= Len(ids) THEN Len(ids) - (k + 1) + 1 ELSE 0
      BY <2>2
    <3>3. QED
      BY <3>1, <3>2
  <2>4. ASSUME NEW i \in 1 .. Len(ids) - k
        PROVE  back[i] = ids[k + i]
    <3>1. i \in 1 .. Len(ids) - (k + 1) + 1 /\ k + 1 + i - 1 = k + i
      BY <1>1
    <3>2. QED
      BY <2>2, <3>1
  <2>5. QED
    BY <2>2, <2>3, <2>4
<1>8. /\ rest \in Seq(S) /\ Len(rest) = Len(ids) - 1
      /\ \A i \in 1 .. Len(ids) - 1 :
           rest[i] = IF i < k THEN ids[i] ELSE ids[i + 1]
  <2>1. /\ rest \in Seq(S)
        /\ Len(rest) = Len(front) + Len(back)
        /\ \A i \in 1 .. Len(front) + Len(back) :
             rest[i] = IF i <= Len(front) THEN front[i] ELSE back[i - Len(front)]
    BY <1>6, <1>7, ConcatProperties
  <2> HIDE DEF front, back, rest
  <2>2. Len(front) + Len(back) = Len(ids) - 1
    BY <1>1, <1>6, <1>7
  <2>3. ASSUME NEW i \in 1 .. Len(ids) - 1
        PROVE  rest[i] = IF i < k THEN ids[i] ELSE ids[i + 1]
    <3>1. CASE i < k
      BY <3>1, <1>1, <1>6, <2>1, <2>2
    <3>2. CASE ~ (i < k)
      <4>1. rest[i] = back[i - (k - 1)]
        BY <3>2, <1>1, <1>6, <2>1, <2>2
      <4>2. i - (k - 1) \in 1 .. Len(ids) - k /\ k + (i - (k - 1)) = i + 1
        BY <3>2, <1>1
      <4>3. QED
        BY <3>2, <4>1, <4>2, <1>7
    <3>3. QED
      BY <3>1, <3>2
  <2>4. QED
    BY <2>1, <2>2, <2>3
<1> HIDE DEF front, back, rest
<1>9. DOMAIN rest = 1 .. Len(ids) - 1
  BY <1>1, <1>8
<1>10. IsInjective(rest)
  <2> SUFFICES ASSUME NEW i \in 1 .. Len(ids) - 1, NEW j \in 1 .. Len(ids) - 1,
                      rest[i] = rest[j]
               PROVE  i = j
    BY <1>9 DEF IsInjective
  <2> DEFINE at(n) == IF n < k THEN n ELSE n + 1
  <2>1. /\ at(i) \in 1 .. Len(ids) /\ rest[i] = ids[at(i)]
        /\ at(j) \in 1 .. Len(ids) /\ rest[j] = ids[at(j)]
    BY <1>1, <1>8
  <2>2. at(i) = at(j)
    BY <2>1, <1>1 DEF Lists, IsInjective
  <2>3. QED
    BY <2>2, <1>1
<1>11. ToSet(rest) = wanted \ {id}
  <2>1. ASSUME NEW i \in 1 .. Len(ids) - 1
        PROVE  rest[i] \in wanted \ {id}
    <3>1. PICK n \in 1 .. Len(ids) : n # k /\ rest[i] = ids[n]
      <4>1. CASE i < k
        BY <4>1, <1>1, <1>8
      <4>2. CASE ~ (i < k)
        <5>1. i + 1 \in 1 .. Len(ids) /\ i + 1 # k /\ rest[i] = ids[i + 1]
          BY <4>2, <1>1, <1>8
        <5>2. QED
          BY <5>1
      <4>3. QED
        BY <4>1, <4>2
    <3>2. QED
      BY <3>1, <1>1, <1>3 DEF Lists, ToSet
  <2>2. ASSUME NEW e \in wanted \ {id}
        PROVE  \E i \in 1 .. Len(ids) - 1 : rest[i] = e
    <3>1. PICK n \in 1 .. Len(ids) : ids[n] = e
      BY <1>1 DEF Lists, ToSet
    <3>2. n # k
      BY <3>1, <1>2
    <3>3. CASE n < k
      BY <3>1, <3>3, <1>1, <1>8
    <3>4. CASE n > k
      <4>1. n - 1 \in 1 .. Len(ids) - 1 /\ ~ (n - 1 < k) /\ (n - 1) + 1 = n
        BY <3>4, <1>1
      <4>2. rest[n - 1] = ids[n]
        BY <4>1, <1>8
      <4>3. QED
        BY <3>1, <4>1, <4>2
    <3>5. QED
      BY <3>2, <3>3, <3>4
  <2>3. QED
    BY <2>1, <2>2, <1>9 DEF ToSet
<1>12. QED
  BY <1>5, <1>8, <1>10, <1>11 DEF Lists, rest, front, back

-----------------------------------------------------------------------------
(* The inductive invariant: the three invariants support each other.  The  *)
(* shipper index stays exact at a pickup only because an order that is     *)
(* still confirmed has no holder (TimelineOK), and removing an order from  *)
(* its old status list is right only because it is there once.             *)

\* The inductive invariant.
IInv == TypeOK /\ IndexesAgree /\ TimelineOK

\* The empty store satisfies the inductive invariant.
LEMMA InitIInv == Init => IInv
<1> SUFFICES ASSUME Init PROVE IInv
  OBVIOUS
<1>1. DOMAIN orders = {} /\ orders \in [{} -> Order]
  BY DEF Init
<1>2. TypeOK
  BY <1>1 DEF Init, TypeOK
<1>3. Lists(<<>>, {})
  BY DEF Lists, IsInjective, ToSet
<1>4. IndexesAgree
  BY <1>1, <1>3 DEF Init, IndexesAgree
<1>5. TimelineOK
  BY <1>1 DEF TimelineOK
<1>6. QED
  BY <1>2, <1>4, <1>5 DEF IInv

\* A transition that moves one order to another status keeps the status index
\* exact.
LEMMA UpdateStatusLists ==
  ASSUME IInv,
         NEW id \in DOMAIN orders, NEW status \in Statuses,
         status # orders[id].status,
         UpdateStatus(id, status),
         DOMAIN orders' = DOMAIN orders,
         orders'[id].status = status,
         \A i \in DOMAIN orders \ {id} : orders'[i] = orders[i]
  PROVE  /\ ordersByStatus' \in [Statuses -> Seq(DOMAIN orders')]
         /\ \A t \in Statuses :
              Lists(ordersByStatus'[t], {i \in DOMAIN orders' : orders'[i].status = t})
<1> DEFINE under(t) == {i \in DOMAIN orders : orders[i].status = t}
           old == orders[id].status
<1>1. /\ ordersByStatus \in [Statuses -> Seq(DOMAIN orders)]
      /\ old \in Statuses
  BY DEF IInv, TypeOK, Order
<1>2. \A t \in Statuses : Lists(ordersByStatus[t], under(t))
  BY DEF IInv, IndexesAgree
<1>3. /\ RemoveFirst(ordersByStatus[old], id) \in Seq(DOMAIN orders)
      /\ Lists(RemoveFirst(ordersByStatus[old], id), under(old) \ {id})
  <2>1. id \in under(old) /\ ordersByStatus[old] \in Seq(DOMAIN orders)
    BY <1>1
  <2> HIDE DEF under, old
  <2>2. QED
    BY <2>1, <1>1, <1>2, RemoveLists
<1>4. /\ Append(ordersByStatus[status], id) \in Seq(DOMAIN orders)
      /\ Lists(Append(ordersByStatus[status], id), under(status) \cup {id})
  <2>1. id \notin under(status) /\ ordersByStatus[status] \in Seq(DOMAIN orders)
    BY <1>1
  <2> HIDE DEF under
  <2>2. QED
    BY <2>1, <1>2, AppendLists
<1>5. ordersByStatus' =
        [ordersByStatus EXCEPT ![old] = RemoveFirst(@, id), ![status] = Append(@, id)]
  BY DEF UpdateStatus
<1>6. ASSUME NEW t \in Statuses
      PROVE  ordersByStatus'[t] = IF t = status THEN Append(ordersByStatus[status], id)
                                  ELSE IF t = old THEN RemoveFirst(ordersByStatus[old], id)
                                  ELSE ordersByStatus[t]
  BY <1>1, <1>5
<1>7. ordersByStatus' \in [Statuses -> Seq(DOMAIN orders)]
  <2>1. DOMAIN ordersByStatus' = Statuses
    BY <1>1, <1>5
  <2>2. \A t \in Statuses : ordersByStatus'[t] \in Seq(DOMAIN orders)
    BY <1>1, <1>3, <1>4, <1>6
  <2>3. ordersByStatus' = [t \in Statuses |-> ordersByStatus'[t]]
    BY <1>1, <1>5
  <2>4. QED
    BY <2>2, <2>3
<1>8. ASSUME NEW t \in Statuses
      PROVE  Lists(ordersByStatus'[t], {i \in DOMAIN orders' : orders'[i].status = t})
  <2>1. {i \in DOMAIN orders' : orders'[i].status = t} =
          IF t = status THEN under(status) \cup {id}
          ELSE IF t = old THEN under(old) \ {id} ELSE under(t)
    OBVIOUS
  <2> HIDE DEF under, old
  <2>2. QED
    BY <2>1, <1>2, <1>3, <1>4, <1>6
<1>9. QED
  BY <1>7, <1>8

\* A step that changes no order's buyer, seller or holder and no list but the
\* status lists keeps the other three indexes exact.
LEMMA OtherIndexesKept ==
  ASSUME IInv, DOMAIN orders' = DOMAIN orders,
         \A i \in DOMAIN orders :
           orders'[i].buyer = orders[i].buyer /\ orders'[i].seller = orders[i].seller,
         UNCHANGED <<ordersByBuyer, ordersBySeller>>
  PROVE  /\ ordersByBuyer' \in [Buyers -> Seq(DOMAIN orders')]
         /\ ordersBySeller' \in [Sellers -> Seq(DOMAIN orders')]
         /\ \A b \in Buyers :
              Lists(ordersByBuyer'[b], {i \in DOMAIN orders' : orders'[i].buyer = b})
         /\ \A s \in Sellers :
              Lists(ordersBySeller'[s], {i \in DOMAIN orders' : orders'[i].seller = s})
<1>1. ASSUME NEW b \in Buyers
      PROVE  Lists(ordersByBuyer'[b], {i \in DOMAIN orders' : orders'[i].buyer = b})
  <2>1. {i \in DOMAIN orders' : orders'[i].buyer = b}
          = {i \in DOMAIN orders : orders[i].buyer = b}
    OBVIOUS
  <2>2. QED
    BY <2>1 DEF IInv, IndexesAgree
<1>2. ASSUME NEW s \in Sellers
      PROVE  Lists(ordersBySeller'[s], {i \in DOMAIN orders' : orders'[i].seller = s})
  <2>1. {i \in DOMAIN orders' : orders'[i].seller = s}
          = {i \in DOMAIN orders : orders[i].seller = s}
    OBVIOUS
  <2>2. QED
    BY <2>1 DEF IInv, IndexesAgree
<1>3. QED
  BY <1>1, <1>2 DEF IInv, TypeOK

\* The same for the shipper index, when no holder changes.
LEMMA ShipperIndexKept ==
  ASSUME IInv, DOMAIN orders' = DOMAIN orders,
         \A i \in DOMAIN orders : orders'[i].pickedBy = orders[i].pickedBy,
         UNCHANGED ordersByShipper
  PROVE  /\ ordersByShipper' \in [Shippers -> Seq(DOMAIN orders')]
         /\ \A s \in Shippers :
              Lists(ordersByShipper'[s], {i \in DOMAIN orders' : orders'[i].pickedBy = s})
<1>1. ASSUME NEW s \in Shippers
      PROVE  Lists(ordersByShipper'[s], {i \in DOMAIN orders' : orders'[i].pickedBy = s})
  <2>1. {i \in DOMAIN orders' : orders'[i].pickedBy = s}
          = {i \in DOMAIN orders : orders[i].pickedBy = s}
    OBVIOUS
  <2>2. QED
    BY <2>1 DEF IInv, IndexesAgree
<1>2. QED
  BY <1>1 DEF IInv, TypeOK

-----------------------------------------------------------------------------
(* Each method preserves the inductive invariant.                          *)

\* A new order is listed under its parties and its status, and its stamps start
\* with the present instant.
LEMMA CreateIInv ==
  ASSUME IInv, NEW id \in OrderIds \ DOMAIN orders, NEW buyer \in Buyers,
         NEW seller \in Sellers, NEW items \in ItemLists,
         Create(id, NewOrder(buyer, seller, items))
  PROVE  IInv'
<1> DEFINE o == NewOrder(buyer, seller, items)
           D == DOMAIN orders
           E == D \cup {id}
<1>1. /\ o.buyer = buyer /\ o.seller = seller /\ o.status = "checkout"
      /\ o.pickedBy = NoShipper /\ o.createdAt = now /\ o.confirmedAt = ZeroTime
      /\ o.pickedAt = ZeroTime /\ o.readyAt = ZeroTime /\ o.deliveredAt = ZeroTime
      /\ o \in Order
  BY DEF NewOrder, Order, Statuses, ZeroTime, IInv, TypeOK
<1>2. /\ orders' = [i \in E |-> IF i = id THEN o ELSE orders[i]]
      /\ ordersByBuyer' = [ordersByBuyer EXCEPT ![buyer] = Append(@, id)]
      /\ ordersBySeller' = [ordersBySeller EXCEPT ![seller] = Append(@, id)]
      /\ ordersByStatus' = [ordersByStatus EXCEPT !["checkout"] = Append(@, id)]
      /\ UNCHANGED <<ordersByShipper, now>>
  BY <1>1 DEF Create
<1> HIDE DEF o
<1>3. /\ DOMAIN orders' = E
      /\ orders'[id] = o
      /\ \A i \in D : orders'[i] = orders[i]
  BY <1>2
<1>4. orders' \in [E -> Order] /\ E \subseteq OrderIds /\ now' \in Nat
  BY <1>1, <1>2 DEF IInv, TypeOK
<1>a. /\ D \subseteq E /\ id \in E /\ id \notin D /\ E = D \cup {id}
      /\ DOMAIN orders = D
  OBVIOUS
<1> HIDE DEF D, E
<1>5. ASSUME NEW b \in Buyers
      PROVE  /\ ordersByBuyer'[b] \in Seq(E)
             /\ Lists(ordersByBuyer'[b], {i \in DOMAIN orders' : orders'[i].buyer = b})
  <2> DEFINE under == {i \in D : orders[i].buyer = b}
  <2>1. /\ ordersByBuyer[b] \in Seq(D)
        /\ Lists(ordersByBuyer[b], under)
        /\ id \notin under
    BY <1>a DEF IInv, TypeOK, IndexesAgree
  <2>2. ordersByBuyer[b] \in Seq(E)
    BY <1>a, <2>1, SeqMonotonic
  <2>3. {i \in DOMAIN orders' : orders'[i].buyer = b}
          = IF b = buyer THEN under \cup {id} ELSE under
    BY <1>a, <1>1, <1>3
  <2>4. ordersByBuyer'[b] = IF b = buyer THEN Append(ordersByBuyer[b], id) ELSE ordersByBuyer[b]
    BY <1>2, <2>1 DEF IInv, TypeOK
  <2> HIDE DEF under
  <2>5. /\ Append(ordersByBuyer[b], id) \in Seq(E)
        /\ Lists(Append(ordersByBuyer[b], id), under \cup {id})
    BY <1>a, <2>1, <2>2, AppendLists
  <2>6. QED
    BY <2>1, <2>2, <2>3, <2>4, <2>5
<1>6. ASSUME NEW s \in Sellers
      PROVE  /\ ordersBySeller'[s] \in Seq(E)
             /\ Lists(ordersBySeller'[s], {i \in DOMAIN orders' : orders'[i].seller = s})
  <2> DEFINE under == {i \in D : orders[i].seller = s}
  <2>1. /\ ordersBySeller[s] \in Seq(D)
        /\ Lists(ordersBySeller[s], under)
        /\ id \notin under
    BY <1>a DEF IInv, TypeOK, IndexesAgree
  <2>2. ordersBySeller[s] \in Seq(E)
    BY <1>a, <2>1, SeqMonotonic
  <2>3. {i \in DOMAIN orders' : orders'[i].seller = s}
          = IF s = seller THEN under \cup {id} ELSE under
    BY <1>a, <1>1, <1>3
  <2>4. ordersBySeller'[s] = IF s = seller THEN Append(ordersBySeller[s], id) ELSE ordersBySeller[s]
    BY <1>2, <2>1 DEF IInv, TypeOK
  <2> HIDE DEF under
  <2>5. /\ Append(ordersBySeller[s], id) \in Seq(E)
        /\ Lists(Append(ordersBySeller[s], id), under \cup {id})
    BY <1>a, <2>1, <2>2, AppendLists
  <2>6. QED
    BY <2>1, <2>2, <2>3, <2>4, <2>5
<1>7. ASSUME NEW t \in Statuses
      PROVE  /\ ordersByStatus'[t] \in Seq(E)
             /\ Lists(ordersByStatus'[t], {i \in DOMAIN orders' : orders'[i].status = t})
  <2> DEFINE under == {i \in D : orders[i].status = t}
  <2>1. /\ ordersByStatus[t] \in Seq(D)
        /\ Lists(ordersByStatus[t], under)
        /\ id \notin under
    BY <1>a DEF IInv, TypeOK, IndexesAgree
  <2>2. ordersByStatus[t] \in Seq(E)
    BY <1>a, <2>1, SeqMonotonic
  <2>3. {i \in DOMAIN orders' : orders'[i].status = t}
          = IF t = "checkout" THEN under \cup {id} ELSE under
    BY <1>a, <1>1, <1>3
  <2>4. ordersByStatus'[t] = IF t = "checkout" THEN Append(ordersByStatus[t], id) ELSE ordersByStatus[t]
    BY <1>2, <2>1 DEF IInv, TypeOK
  <2> HIDE DEF under
  <2>5. /\ Append(ordersByStatus[t], id) \in Seq(E)
        /\ Lists(Append(ordersByStatus[t], id), under \cup {id})
    BY <1>a, <2>1, <2>2, AppendLists
  <2>6. QED
    BY <2>1, <2>2, <2>3, <2>4, <2>5
<1>8. /\ ordersByShipper' \in [Shippers -> Seq(E)]
      /\ \A s \in Shippers :
           Lists(ordersByShipper'[s], {i \in DOMAIN orders' : orders'[i].pickedBy = s})
  <2>1. ASSUME NEW s \in Shippers
        PROVE  /\ ordersByShipper[s] \in Seq(E)
               /\ Lists(ordersByShipper'[s], {i \in DOMAIN orders' : orders'[i].pickedBy = s})
    <3>1. ordersByShipper[s] \in Seq(D)
      BY <1>a DEF IInv, TypeOK
    <3>2. ordersByShipper[s] \in Seq(E)
      BY <1>a, <3>1, SeqMonotonic
    <3>3. {i \in DOMAIN orders' : orders'[i].pickedBy = s} = {i \in D : orders[i].pickedBy = s}
      BY <1>a, <1>1, <1>3, NoShipperAssumption DEF NoShipper
    <3>4. QED
      BY <1>a, <3>2, <3>3, <1>2 DEF IInv, IndexesAgree
  <2>2. QED
    BY <2>1, <1>2 DEF IInv, TypeOK
<1>9. ASSUME NEW i \in DOMAIN orders' PROVE Timeline(orders'[i], now')
  <2>1. now' = now /\ now \in Nat /\ 1 <= now
    BY <1>2 DEF IInv, TypeOK
  <2>2. CASE i = id
    BY <2>1, <2>2, <1>1, <1>3 DEF Timeline
  <2>3. CASE i \in D
    BY <1>a, <2>1, <2>3, <1>3 DEF IInv, TimelineOK
  <2>4. QED
    BY <1>a, <2>2, <2>3, <1>3
<1>10. TypeOK'
  <2>1. /\ ordersByBuyer' \in [Buyers -> Seq(E)]
        /\ ordersBySeller' \in [Sellers -> Seq(E)]
        /\ ordersByStatus' \in [Statuses -> Seq(E)]
    BY <1>2, <1>5, <1>6, <1>7 DEF IInv, TypeOK
  <2>2. QED
    BY <2>1, <1>3, <1>4, <1>5, <1>6, <1>7, <1>8, <1>2 DEF IInv, TypeOK
<1>11. IndexesAgree'
  BY <1>5, <1>6, <1>7, <1>8 DEF IndexesAgree
<1>12. TimelineOK'
  BY <1>9 DEF TimelineOK
<1>13. QED
  BY <1>10, <1>11, <1>12 DEF IInv

\* Confirming moves the order between two status lists and stamps it.
LEMMA ConfirmIInv ==
  ASSUME IInv, NEW id \in OrderIds, NEW seller \in Sellers, Confirm(id, seller)
  PROVE  IInv'
<1>1. id \in DOMAIN orders /\ orders[id].status = "checkout" /\ orders[id] \in Order
  BY DEF Confirm, ConfirmResult, IInv, TypeOK
<1>2. /\ UpdateStatus(id, "confirmed")
      /\ orders' = [orders EXCEPT ![id].status = "confirmed", ![id].confirmedAt = now]
      /\ UNCHANGED <<ordersByBuyer, ordersBySeller, ordersByShipper, now>>
  BY DEF Confirm
<1>3. /\ DOMAIN orders' = DOMAIN orders
      /\ orders'[id] = [orders[id] EXCEPT !.status = "confirmed", !.confirmedAt = now]
      /\ \A i \in DOMAIN orders \ {id} : orders'[i] = orders[i]
  BY <1>1, <1>2 DEF IInv, TypeOK
<1>4. /\ orders'[id].status = "confirmed"
      /\ \A i \in DOMAIN orders : /\ orders'[i].buyer = orders[i].buyer
                                  /\ orders'[i].seller = orders[i].seller
                                  /\ orders'[i].pickedBy = orders[i].pickedBy
  BY <1>1, <1>3 DEF Order
<1>5. orders' \in [DOMAIN orders' -> Order]
  BY <1>1, <1>2, <1>3 DEF IInv, TypeOK, Order, Statuses
<1>6. /\ ordersByStatus' \in [Statuses -> Seq(DOMAIN orders')]
      /\ \A t \in Statuses :
           Lists(ordersByStatus'[t], {i \in DOMAIN orders' : orders'[i].status = t})
  BY <1>1, <1>2, <1>3, <1>4, UpdateStatusLists DEF Statuses
<1>7. TypeOK'
  BY <1>2, <1>3, <1>4, <1>5, <1>6, OtherIndexesKept, ShipperIndexKept DEF IInv, TypeOK
<1>8. IndexesAgree'
  BY <1>2, <1>3, <1>4, <1>6, OtherIndexesKept, ShipperIndexKept DEF IndexesAgree
<1>9. ASSUME NEW i \in DOMAIN orders' PROVE Timeline(orders'[i], now')
  <2>1. Timeline(orders[i], now) /\ now' = now /\ now \in Nat \ {0}
    BY <1>2, <1>3 DEF IInv, TypeOK, TimelineOK
  <2>2. CASE i = id
    BY <2>1, <2>2, <1>1, <1>3 DEF Timeline, Order
  <2>3. CASE i # id
    BY <2>1, <2>3, <1>3
  <2>4. QED
    BY <2>2, <2>3
<1>10. TimelineOK'
  BY <1>9 DEF TimelineOK
<1>11. QED
  BY <1>7, <1>8, <1>10 DEF IInv

\* Picking moves the order, lists it under its shipper and sets its readiness.
LEMMA PickIInv ==
  ASSUME IInv, NEW id \in OrderIds, NEW shipper \in Shippers, Pick(id, shipper)
  PROVE  IInv'
<1>1. id \in DOMAIN orders /\ orders[id].status = "confirmed" /\ orders[id] \in Order
  BY DEF Pick, PickResult, IInv, TypeOK
<1>2. PICK delay \in ReadyDelays :
        orders' = [orders EXCEPT ![id].status = "picked", ![id].pickedBy = shipper,
                                 ![id].pickedAt = now, ![id].readyAt = now + delay]
  BY DEF Pick
<1>3. /\ UpdateStatus(id, "picked")
      /\ ordersByShipper' = [ordersByShipper EXCEPT ![shipper] = Append(@, id)]
      /\ UNCHANGED <<ordersByBuyer, ordersBySeller, now>>
  BY DEF Pick
<1>4. /\ DOMAIN orders' = DOMAIN orders
      /\ orders'[id] = [orders[id] EXCEPT !.status = "picked", !.pickedBy = shipper,
                                          !.pickedAt = now, !.readyAt = now + delay]
      /\ \A i \in DOMAIN orders \ {id} : orders'[i] = orders[i]
  BY <1>1, <1>2 DEF IInv, TypeOK
<1>5. /\ orders'[id].status = "picked"
      /\ orders'[id].pickedBy = shipper
      /\ \A i \in DOMAIN orders : /\ orders'[i].buyer = orders[i].buyer
                                  /\ orders'[i].seller = orders[i].seller
  <2>1. "status" \in DOMAIN orders[id] /\ "pickedBy" \in DOMAIN orders[id]
    BY <1>1 DEF Order
  <2>2. orders'[id].status = "picked" /\ orders'[id].pickedBy = shipper
    BY <1>4, <2>1
  <2>3. orders'[id].buyer = orders[id].buyer /\ orders'[id].seller = orders[id].seller
    BY <1>4, <2>1
  <2>4. QED
    BY <1>4, <2>2, <2>3
<1>6. now + delay \in Nat /\ now \in Nat \ {0} /\ now <= now + delay
  BY <1>2, TimeAssumption DEF IInv, TypeOK
<1>7. orders' \in [DOMAIN orders' -> Order]
  <2>1. orders'[id] \in Order
    BY <1>1, <1>4, <1>6 DEF Order, Statuses
  <2>2. QED
    BY <2>1, <1>2, <1>4 DEF IInv, TypeOK
<1>8. /\ ordersByStatus' \in [Statuses -> Seq(DOMAIN orders')]
      /\ \A t \in Statuses :
           Lists(ordersByStatus'[t], {i \in DOMAIN orders' : orders'[i].status = t})
  BY <1>1, <1>3, <1>4, <1>5, UpdateStatusLists DEF Statuses
<1>9. ASSUME NEW s \in Shippers
      PROVE  /\ ordersByShipper'[s] \in Seq(DOMAIN orders)
             /\ Lists(ordersByShipper'[s], {i \in DOMAIN orders' : orders'[i].pickedBy = s})
  <2> DEFINE under == {i \in DOMAIN orders : orders[i].pickedBy = s}
  <2>1. orders[id].pickedBy = NoShipper
    BY <1>1 DEF IInv, TimelineOK, Timeline
  <2>2. /\ ordersByShipper[s] \in Seq(DOMAIN orders)
        /\ Lists(ordersByShipper[s], under)
        /\ id \notin under
    BY <2>1, NoShipperAssumption DEF IInv, TypeOK, IndexesAgree, NoShipper
  <2>3. {i \in DOMAIN orders' : orders'[i].pickedBy = s}
          = IF s = shipper THEN under \cup {id} ELSE under
    BY <1>1, <1>4, <1>5, <2>1, NoShipperAssumption DEF NoShipper
  <2>4. ordersByShipper'[s]
          = IF s = shipper THEN Append(ordersByShipper[s], id) ELSE ordersByShipper[s]
    BY <1>3 DEF IInv, TypeOK
  <2> HIDE DEF under
  <2>5. /\ Append(ordersByShipper[s], id) \in Seq(DOMAIN orders)
        /\ Lists(Append(ordersByShipper[s], id), under \cup {id})
    BY <1>1, <2>2, AppendLists
  <2>6. QED
    BY <2>2, <2>3, <2>4, <2>5
<1>10. TypeOK'
  <2>1. ordersByShipper' \in [Shippers -> Seq(DOMAIN orders')]
    BY <1>3, <1>4, <1>9 DEF IInv, TypeOK
  <2>2. QED
    BY <2>1, <1>3, <1>4, <1>5, <1>7, <1>8, OtherIndexesKept DEF IInv, TypeOK
<1>11. IndexesAgree'
  BY <1>3, <1>4, <1>5, <1>8, <1>9, OtherIndexesKept DEF IndexesAgree
<1>12. ASSUME NEW i \in DOMAIN orders' PROVE Timeline(orders'[i], now')
  <2>1. Timeline(orders[i], now) /\ now' = now
    BY <1>3, <1>4 DEF IInv, TimelineOK
  <2>2. CASE i = id
    <3>1. shipper # NoShipper
      BY NoShipperAssumption DEF NoShipper
    <3>2. QED
      BY <2>1, <2>2, <3>1, <1>1, <1>4, <1>6 DEF Timeline, Order
  <2>3. CASE i # id
    BY <2>1, <2>3, <1>4
  <2>4. QED
    BY <2>2, <2>3
<1>13. TimelineOK'
  BY <1>12 DEF TimelineOK
<1>14. QED
  BY <1>10, <1>11, <1>13 DEF IInv

\* Delivering moves the order and stamps it, not before it is ready.
LEMMA DeliverIInv ==
  ASSUME IInv, NEW id \in OrderIds, NEW shipper \in Shippers, Deliver(id, shipper)
  PROVE  IInv'
<1>1. /\ id \in DOMAIN orders /\ orders[id].status = "picked"
      /\ ~ (now < orders[id].readyAt) /\ orders[id] \in Order
  BY DEF Deliver, DeliverResult, IInv, TypeOK
<1>2. /\ UpdateStatus(id, "delivered")
      /\ orders' = [orders EXCEPT ![id].status = "delivered", ![id].deliveredAt = now]
      /\ UNCHANGED <<ordersByBuyer, ordersBySeller, ordersByShipper, now>>
  BY DEF Deliver
<1>3. /\ DOMAIN orders' = DOMAIN orders
      /\ orders'[id] = [orders[id] EXCEPT !.status = "delivered", !.deliveredAt = now]
      /\ \A i \in DOMAIN orders \ {id} : orders'[i] = orders[i]
  BY <1>1, <1>2 DEF IInv, TypeOK
<1>4. /\ orders'[id].status = "delivered"
      /\ \A i \in DOMAIN orders : /\ orders'[i].buyer = orders[i].buyer
                                  /\ orders'[i].seller = orders[i].seller
                                  /\ orders'[i].pickedBy = orders[i].pickedBy
  BY <1>1, <1>3 DEF Order
<1>5. orders' \in [DOMAIN orders' -> Order]
  BY <1>1, <1>2, <1>3 DEF IInv, TypeOK, Order, Statuses
<1>6. /\ ordersByStatus' \in [Statuses -> Seq(DOMAIN orders')]
      /\ \A t \in Statuses :
           Lists(ordersByStatus'[t], {i \in DOMAIN orders' : orders'[i].status = t})
  BY <1>1, <1>2, <1>3, <1>4, UpdateStatusLists DEF Statuses
<1>7. TypeOK'
  BY <1>2, <1>3, <1>4, <1>5, <1>6, OtherIndexesKept, ShipperIndexKept DEF IInv, TypeOK
<1>8. IndexesAgree'
  BY <1>2, <1>3, <1>4, <1>6, OtherIndexesKept, ShipperIndexKept DEF IndexesAgree
<1>9. ASSUME NEW i \in DOMAIN orders' PROVE Timeline(orders'[i], now')
  <2>1. Timeline(orders[i], now) /\ now' = now /\ now \in Nat \ {0}
    BY <1>2, <1>3 DEF IInv, TypeOK, TimelineOK
  <2>2. CASE i = id
    BY <2>1, <2>2, <1>1, <1>3 DEF Timeline, Order
  <2>3. CASE i # id
    BY <2>1, <2>3, <1>3
  <2>4. QED
    BY <2>2, <2>3
<1>10. TimelineOK'
  BY <1>9 DEF TimelineOK
<1>11. QED
  BY <1>7, <1>8, <1>10 DEF IInv

\* A later clock keeps every timeline.
LEMMA TickIInv ==
  ASSUME IInv, Tick
  PROVE  IInv'
<1>1. UNCHANGED <<orders, indexes>> /\ now' = now + 1 /\ now \in Nat \ {0}
  BY DEF Tick, IInv, TypeOK
<1>2. TypeOK' /\ IndexesAgree'
  BY <1>1 DEF IInv, TypeOK, IndexesAgree, indexes
<1>3. ASSUME NEW i \in DOMAIN orders PROVE Timeline(orders[i], now + 1)
  <2>1. Timeline(orders[i], now) /\ orders[i] \in Order
    BY DEF IInv, TypeOK, TimelineOK
  <2>2. QED
    BY <1>1, <2>1 DEF Timeline, Order
<1>4. TimelineOK'
  BY <1>1, <1>3 DEF TimelineOK
<1>5. QED
  BY <1>2, <1>4 DEF IInv

\* Every step of the store keeps the inductive invariant.
LEMMA NextIInv == IInv /\ [Next]_storeVars => IInv'
<1> SUFFICES ASSUME IInv, [Next]_storeVars PROVE IInv'
  OBVIOUS
<1>1. CASE UNCHANGED storeVars
  BY <1>1 DEF IInv, TypeOK, IndexesAgree, TimelineOK, storeVars, indexes
<1>2. CASE \E id \in OrderIds \ DOMAIN orders, b \in Buyers, s \in Sellers, l \in ItemLists :
             Create(id, NewOrder(b, s, l))
  BY <1>2, CreateIInv
<1>3. CASE \E id \in OrderIds, s \in Sellers : Confirm(id, s)
  BY <1>3, ConfirmIInv
<1>4. CASE \E id \in OrderIds, s \in Shippers : Pick(id, s)
  BY <1>4, PickIInv
<1>5. CASE \E id \in OrderIds, s \in Shippers : Deliver(id, s)
  BY <1>5, DeliverIInv
<1>6. CASE Tick
  BY <1>6, TickIInv
<1>7. QED
  BY <1>1, <1>2, <1>3, <1>4, <1>5, <1>6 DEF Next

\* The inductive invariant holds in every reachable state.
LEMMA Inductive == Spec => []IInv
<1>1. QED
  BY InitIInv, NextIInv, PTL DEF Spec

-----------------------------------------------------------------------------
(* The theorems.                                                           *)

\* Every reachable state of the store is well typed.
THEOREM TypeCorrect == Spec => []TypeOK
<1>1. IInv => TypeOK
  BY DEF IInv
<1>2. QED
  BY <1>1, Inductive, PTL

\* The update rule of the design holds for any number of orders and users:
\* after every method the primary map and the four indexes agree.
THEOREM IndexesAlwaysAgree == Spec => []IndexesAgree
<1>1. IInv => IndexesAgree
  BY DEF IInv
<1>2. QED
  BY <1>1, Inductive, PTL

\* No order is ever stamped out of order or delivered before it is ready.
THEOREM NeverEarly == Spec => []TimelineOK
<1>1. IInv => TimelineOK
  BY DEF IInv
<1>2. QED
  BY <1>1, Inductive, PTL

\* No step rewrites what an order already records, whoever retries what.
THEOREM NeverRewritten == Spec => WrittenOnce
<1>1. IInv /\ [Next]_storeVars => [WrittenOnceStep]_storeVars
  <2> SUFFICES ASSUME IInv, Next, NEW id \in DOMAIN orders
               PROVE  LET old == orders[id]
                          new == orders'[id]
                      IN  /\ id \in DOMAIN orders'
                          /\ new.buyer = old.buyer /\ new.seller = old.seller
                          /\ new.items = old.items /\ new.createdAt = old.createdAt
                          /\ old.confirmedAt # ZeroTime => new.confirmedAt = old.confirmedAt
                          /\ old.pickedBy # NoShipper =>
                               /\ new.pickedBy = old.pickedBy
                               /\ new.pickedAt = old.pickedAt /\ new.readyAt = old.readyAt
                          /\ old.deliveredAt # ZeroTime => new = old
    BY DEF WrittenOnceStep
  <2>1. /\ orders[id] \in Order
        /\ orders[id].status = "checkout" => orders[id].confirmedAt = ZeroTime
        /\ orders[id].status \in {"checkout", "confirmed"} => orders[id].pickedBy = NoShipper
        /\ orders[id].status # "delivered" => orders[id].deliveredAt = ZeroTime
    BY DEF IInv, TypeOK, TimelineOK, Timeline
  <2>2. ASSUME NEW i \in OrderIds \ DOMAIN orders, NEW o, Create(i, o)
        PROVE  id \in DOMAIN orders' /\ orders'[id] = orders[id]
    BY <2>2 DEF Create
  <2>3. ASSUME NEW i \in OrderIds, NEW s \in Sellers, Confirm(i, s)
        PROVE  /\ id \in DOMAIN orders'
               /\ i # id => orders'[id] = orders[id]
               /\ i = id => /\ orders[id].status = "checkout"
                            /\ orders'[id] = [orders[id] EXCEPT !.status = "confirmed",
                                                                !.confirmedAt = now]
    BY <2>3 DEF Confirm, ConfirmResult
  <2>4. ASSUME NEW i \in OrderIds, NEW s \in Shippers, Pick(i, s)
        PROVE  /\ id \in DOMAIN orders'
               /\ i # id => orders'[id] = orders[id]
               /\ i = id => /\ orders[id].status = "confirmed"
                            /\ \E d \in ReadyDelays :
                                 orders'[id] = [orders[id] EXCEPT !.status = "picked",
                                     !.pickedBy = s, !.pickedAt = now, !.readyAt = now + d]
    BY <2>4 DEF Pick, PickResult
  <2>5. ASSUME NEW i \in OrderIds, NEW s \in Shippers, Deliver(i, s)
        PROVE  /\ id \in DOMAIN orders'
               /\ i # id => orders'[id] = orders[id]
               /\ i = id => /\ orders[id].status = "picked"
                            /\ orders'[id] = [orders[id] EXCEPT !.status = "delivered",
                                                                !.deliveredAt = now]
    BY <2>5 DEF Deliver, DeliverResult
  <2>6. Tick => UNCHANGED orders
    BY DEF Tick
  <2>7. CASE \E i \in OrderIds \ DOMAIN orders, b \in Buyers, s \in Sellers, l \in ItemLists :
               Create(i, NewOrder(b, s, l))
    BY <2>2, <2>7
  <2>8. CASE \E i \in OrderIds, s \in Sellers : Confirm(i, s)
    BY <2>1, <2>3, <2>8 DEF Order
  <2>9. CASE \E i \in OrderIds, s \in Shippers : Pick(i, s)
    BY <2>1, <2>4, <2>9 DEF Order
  <2>10. CASE \E i \in OrderIds, s \in Shippers : Deliver(i, s)
    BY <2>1, <2>5, <2>10 DEF Order
  <2>11. QED
    BY <2>6, <2>7, <2>8, <2>9, <2>10 DEF Next
<1>2. QED
  BY <1>1, Inductive, PTL DEF Spec, WrittenOnce

-----------------------------------------------------------------------------
(* The store implements the abstract board.                                *)

\* With exact indexes, the lists the store serves are what the primary map
\* says: ids by status, and by holder and status.
ViewsExact ==
  /\ \A t \in Statuses : ByStatus(t) = {i \in DOMAIN orders : orders[i].status = t}
  /\ \A s \in Shippers :
       /\ ByShipper(s).active
            = {i \in DOMAIN orders : orders[i].pickedBy = s /\ orders[i].status = "picked"}
       /\ ByShipper(s).history
            = {i \in DOMAIN orders : orders[i].pickedBy = s /\ orders[i].status = "delivered"}

\* What the store serves from its indexes is what its orders say.
LEMMA Views == IInv => ViewsExact
<1> SUFFICES ASSUME IInv PROVE ViewsExact
  OBVIOUS
<1>1. ASSUME NEW t \in Statuses
      PROVE  ByStatus(t) = {i \in DOMAIN orders : orders[i].status = t}
  BY DEF IInv, IndexesAgree, Lists, ByStatus, ListedUnder
<1>2. ASSUME NEW s \in Shippers
      PROVE  /\ ByShipper(s).active = {i \in DOMAIN orders :
                  orders[i].pickedBy = s /\ orders[i].status = "picked"}
             /\ ByShipper(s).history = {i \in DOMAIN orders :
                  orders[i].pickedBy = s /\ orders[i].status = "delivered"}
  <2>1. ListedUnder(ordersByShipper[s]) = {i \in DOMAIN orders : orders[i].pickedBy = s}
    BY DEF IInv, IndexesAgree, Lists, ListedUnder
  <2>2. QED
    BY <2>1 DEF ByShipper
<1>3. QED
  BY <1>1, <1>2 DEF ViewsExact

\* An order is placed on the abstract board exactly if the store knows it.
LEMMA PlacedExact == IInv => Board!Placed = DOMAIN orders
<1> SUFFICES ASSUME IInv PROVE Board!Placed = DOMAIN orders
  OBVIOUS
<1>1. ViewsExact
  BY Views
<1> DEFINE carried == UNION {ByShipper(s).active : s \in Shippers}
           done == UNION {ByShipper(s).history : s \in Shippers}
<1>a. Board!Placed = ByStatus("checkout") \cup ByStatus("confirmed") \cup carried \cup done
  BY DEF Board!Placed
<1>2. ASSUME NEW i \in DOMAIN orders PROVE i \in Board!Placed
  <2>1. /\ orders[i].status \in Statuses
        /\ orders[i].status \in {"picked", "delivered"} => orders[i].pickedBy \in Shippers
    BY DEF IInv, TypeOK, Order, TimelineOK, Timeline
  <2>2. CASE orders[i].status \in {"checkout", "confirmed"}
    BY <1>1, <1>a, <2>2 DEF ViewsExact, Statuses
  <2>3. CASE orders[i].status = "picked"
    <3>1. i \in ByShipper(orders[i].pickedBy).active
      BY <1>1, <2>1, <2>3 DEF ViewsExact
    <3>2. QED
      BY <1>a, <2>1, <2>3, <3>1
  <2>4. CASE orders[i].status = "delivered"
    <3>1. i \in ByShipper(orders[i].pickedBy).history
      BY <1>1, <2>1, <2>4 DEF ViewsExact
    <3>2. QED
      BY <1>a, <2>1, <2>4, <3>1
  <2>5. QED
    BY <2>1, <2>2, <2>3, <2>4 DEF Statuses
<1>3. ASSUME NEW i \in Board!Placed PROVE i \in DOMAIN orders
  BY <1>1, <1>a, <1>3 DEF ViewsExact, Statuses
<1>4. QED
  BY <1>2, <1>3

\* The empty store is the empty board.
LEMMA InitBoard == Init => Board!Init
<1> SUFFICES ASSUME Init PROVE Board!Init
  OBVIOUS
<1>1. ViewsExact /\ DOMAIN orders = {}
  BY InitIInv, Views DEF Init
<1>2. QED
  BY <1>1 DEF ViewsExact, Statuses, Board!Init

\* Every step of the store is a step of the board or changes nothing on it.
LEMMA StepBoard == IInv /\ IInv' /\ [Next]_storeVars => [Board!Next]_Board!boardVars
<1> SUFFICES ASSUME IInv, IInv', [Next]_storeVars
             PROVE  [Board!Next]_Board!boardVars
  OBVIOUS
<1> DEFINE under(t) == {i \in DOMAIN orders : orders[i].status = t}
           held(s, t) == {i \in DOMAIN orders : orders[i].pickedBy = s /\ orders[i].status = t}
           carrying == [s \in Shippers |-> ByShipper(s).active]
           history == [s \in Shippers |-> ByShipper(s).history]
<1>1. /\ ByStatus("checkout") = under("checkout")
      /\ ByStatus("confirmed") = under("confirmed")
      /\ carrying = [s \in Shippers |-> held(s, "picked")]
      /\ history = [s \in Shippers |-> held(s, "delivered")]
  BY Views DEF ViewsExact, Statuses
<1>2. (IInv => ViewsExact)'
  BY Views, PTL
<1>3. /\ ByStatus("checkout")' = under("checkout")'
      /\ ByStatus("confirmed")' = under("confirmed")'
      /\ carrying' = [s \in Shippers |-> held(s, "picked")']
      /\ history' = [s \in Shippers |-> held(s, "delivered")']
  BY <1>2 DEF ViewsExact, Statuses
<1>4. \A i \in DOMAIN orders : orders[i] \in Order
  BY DEF IInv, TypeOK
<1>5. CASE UNCHANGED orders
  <2>1. /\ \A t : under(t)' = under(t)
        /\ \A h, t : held(h, t)' = held(h, t)
    BY <1>5
  <2> HIDE DEF under, held
  <2>2. UNCHANGED carrying /\ UNCHANGED history
    BY <1>1, <1>3, <2>1
  <2>3. UNCHANGED Board!boardVars
    BY <1>1, <1>3, <2>1, <2>2 DEF Board!boardVars
  <2>4. QED
    BY <2>3
<1>6. ASSUME NEW id \in OrderIds \ DOMAIN orders, NEW b \in Buyers, NEW s \in Sellers,
             NEW l \in ItemLists, Create(id, NewOrder(b, s, l))
      PROVE  Board!Place(id)
  <2>1. /\ DOMAIN orders' = DOMAIN orders \cup {id}
        /\ \A i \in DOMAIN orders : orders'[i] = orders[i]
        /\ orders'[id].status = "checkout"
    BY <1>6 DEF Create, NewOrder
  <2>2. under("checkout")' = under("checkout") \cup {id}
    BY <2>1
  <2>3. /\ under("confirmed")' = under("confirmed")
        /\ \A h \in Shippers : /\ held(h, "picked")' = held(h, "picked")
                               /\ held(h, "delivered")' = held(h, "delivered")
    BY <2>1
  <2> HIDE DEF under, held
  <2>4. QED
    BY <1>1, <1>3, <2>2, <2>3, PlacedExact DEF Board!Place
<1>7. ASSUME NEW id \in OrderIds, NEW s \in Sellers, Confirm(id, s)
      PROVE  Board!Confirm(id)
  <2>1. id \in DOMAIN orders /\ orders[id].status = "checkout"
    BY <1>7 DEF Confirm, ConfirmResult
  <2>2. /\ DOMAIN orders' = DOMAIN orders
        /\ \A i \in DOMAIN orders \ {id} : orders'[i] = orders[i]
        /\ orders'[id].status = "confirmed"
    BY <1>4, <1>7, <2>1 DEF Confirm, Order
  <2>3. /\ id \in under("checkout")
        /\ under("checkout")' = under("checkout") \ {id}
        /\ under("confirmed")' = under("confirmed") \cup {id}
    BY <2>1, <2>2
  <2>4. \A h \in Shippers : /\ held(h, "picked")' = held(h, "picked")
                            /\ held(h, "delivered")' = held(h, "delivered")
    BY <2>1, <2>2
  <2> HIDE DEF under, held
  <2>5. QED
    BY <1>1, <1>3, <2>3, <2>4 DEF Board!Confirm
<1>8. ASSUME NEW id \in OrderIds, NEW s \in Shippers, Pick(id, s)
      PROVE  Board!Pick(id, s)
  <2>1. id \in DOMAIN orders /\ orders[id].status = "confirmed"
    BY <1>8 DEF Pick, PickResult
  <2>2. /\ DOMAIN orders' = DOMAIN orders
        /\ \A i \in DOMAIN orders \ {id} : orders'[i] = orders[i]
        /\ orders'[id].status = "picked" /\ orders'[id].pickedBy = s
    <3>1. PICK delay \in ReadyDelays :
            orders' = [orders EXCEPT ![id].status = "picked", ![id].pickedBy = s,
                                     ![id].pickedAt = now, ![id].readyAt = now + delay]
      BY <1>8 DEF Pick
    <3>2. orders'[id] = [orders[id] EXCEPT !.status = "picked", !.pickedBy = s,
                                           !.pickedAt = now, !.readyAt = now + delay]
      BY <2>1, <3>1
    <3>3. "status" \in DOMAIN orders[id] /\ "pickedBy" \in DOMAIN orders[id]
      BY <1>4, <2>1 DEF Order
    <3>4. QED
      BY <2>1, <3>1, <3>2, <3>3
  <2>3. /\ id \in under("confirmed")
        /\ under("checkout")' = under("checkout")
        /\ under("confirmed")' = under("confirmed") \ {id}
    BY <2>1, <2>2
  <2>4. \A h \in Shippers :
          /\ held(h, "picked")' = IF h = s THEN held(s, "picked") \cup {id} ELSE held(h, "picked")
          /\ held(h, "delivered")' = held(h, "delivered")
    BY <2>1, <2>2
  <2> HIDE DEF under, held
  <2>5. /\ carrying' = [carrying EXCEPT ![s] = @ \cup {id}]
        /\ UNCHANGED history
    <3> HIDE DEF carrying, history
    <3>1. QED
      BY <1>1, <1>3, <2>4
  <2>6. QED
    BY <1>1, <1>3, <2>3, <2>5 DEF Board!Pick
<1>9. ASSUME NEW id \in OrderIds, NEW s \in Shippers, Deliver(id, s)
      PROVE  Board!Deliver(id, s)
  <2>1. id \in DOMAIN orders /\ orders[id].status = "picked" /\ orders[id].pickedBy = s
    BY <1>9 DEF Deliver, DeliverResult
  <2>2. /\ DOMAIN orders' = DOMAIN orders
        /\ \A i \in DOMAIN orders \ {id} : orders'[i] = orders[i]
        /\ orders'[id].status = "delivered" /\ orders'[id].pickedBy = s
    BY <1>4, <1>9, <2>1 DEF Deliver, Order
  <2>3. /\ under("checkout")' = under("checkout")
        /\ under("confirmed")' = under("confirmed")
        /\ id \in held(s, "picked")
    BY <2>1, <2>2
  <2>4. \A h \in Shippers :
          /\ held(h, "picked")' = IF h = s THEN held(s, "picked") \ {id} ELSE held(h, "picked")
          /\ held(h, "delivered")'
               = IF h = s THEN held(s, "delivered") \cup {id} ELSE held(h, "delivered")
    BY <2>1, <2>2
  <2> HIDE DEF under, held
  <2>5. /\ carrying' = [carrying EXCEPT ![s] = @ \ {id}]
        /\ history' = [history EXCEPT ![s] = @ \cup {id}]
        /\ id \in carrying[s]
    <3> HIDE DEF carrying, history
    <3>1. QED
      BY <1>1, <1>3, <2>3, <2>4
  <2>6. QED
    BY <1>1, <1>3, <2>3, <2>5 DEF Board!Deliver
<1>10. Tick => UNCHANGED orders
  BY DEF Tick
<1>11. UNCHANGED storeVars => UNCHANGED orders
  BY DEF storeVars
<1>12. QED
  BY <1>5, <1>6, <1>7, <1>8, <1>9, <1>10, <1>11 DEF Next, Board!Next

\* Whatever the number of orders and users, what buyers, sellers and shippers
\* read from the store is a behaviour of the board: an order is in one place
\* at a time and only one shipper ever carries it.
THEOREM StoreImplementsBoard == Spec => ImplementsBoard
<1>1. Spec => Board!Init /\ [][Board!Next]_Board!boardVars
  BY InitBoard, StepBoard, Inductive, PTL DEF Spec
<1>2. QED
  BY <1>1 DEF ImplementsBoard, Board!Spec

=============================================================================
