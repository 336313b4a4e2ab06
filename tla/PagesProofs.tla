---------------------------- MODULE PagesProofs ----------------------------
(***************************************************************************)
(* Proofs about the role pages with their server and users, for any number *)
(* of orders, products, loads and messages.  First the loads by            *)
(* themselves: in any order of answers the screen never goes back and a    *)
(* banner is the word of the latest load; and the three pages drive the    *)
(* loads as Refresh allows.  Then the pages: a list at rest is the         *)
(* server's, a cart becomes one order, what was added stays in the cart,   *)
(* and no delivery is reported too early.                                  *)
(*                                                                         *)
(* That a list at rest is current needs an account of why a part on the    *)
(* screen may differ from the server's: a message is under way, or the     *)
(* answer to a listing, or the latest load, or that load failed and a      *)
(* banner says so.                                                         *)
(***************************************************************************)
EXTENDS RolePages, TLAPS

\* Loads are numbered without a gap or a double; a version that was served is
\* one the server had, and what the latest load was served is not older than
\* what is on the screen: it was served after the loads before it were done.
RefreshInv ==
  /\ RefreshTypeOK
  /\ \A c \in calls : c.gen <= latest[c.list]
  /\ \A c, d \in calls : c.list = d.list /\ c.gen = d.gen => c = d
  /\ \A p \in Parts : shown[p] <= version[p]
  /\ \A c \in calls : c.at = "body" => Served(c)
  /\ \A c \in calls : IsLatest(c) =>
       \A p \in PartsOf[c.list] : c.read[p] = 0 \/ c.read[p] >= shown[p]
  /\ \A c \in calls, p \in Parts : c.read[p] <= version[p]

\* A page that is just mounted satisfies the invariant.
LEMMA InitInv ==
  ASSUME NEW ls \in SUBSET Lists, InitRefresh(ls)
  PROVE  RefreshInv
<1>1. calls \subseteq Call
  BY DEF InitRefresh, Started, Call
<1>2. RefreshTypeOK
  BY <1>1 DEF InitRefresh, RefreshTypeOK
<1>3. \A c \in calls : c.list \in ls /\ c.gen = 1 /\ c.at = "head" /\ c.read = [p \in Parts |-> 0]
  BY DEF InitRefresh, Started
<1>4. \A c, d \in calls : c.list = d.list => c = d
  BY DEF InitRefresh, Started
<1>5. \A c \in calls : PartsOf[c.list] \subseteq Parts
  BY <1>3, PartsAssumption
<1>6. \A c \in calls : c.gen <= latest[c.list]
  BY <1>3 DEF InitRefresh
<1>7. \A c \in calls, p \in Parts : c.read[p] = 0
  BY <1>3
<1>8. \A p \in Parts : shown[p] = 0 /\ version[p] = 1
  BY DEF InitRefresh
<1> QED
  BY <1>2, <1>3, <1>4, <1>5, <1>6, <1>7, <1>8 DEF RefreshInv

\* Starting loads keeps it: the new ones have served nothing, the old ones
\* of the same lists are not the latest any more.
LEMMA LoadInv ==
  ASSUME RefreshInv, NEW ls \in SUBSET Lists, Load(ls), UNCHANGED version
  PROVE  RefreshInv'
<1> DEFINE New == {Started(l, latest[l] + 1) : l \in ls}
<1>1. New \subseteq Call
  BY DEF Started, Call, RefreshInv, RefreshTypeOK
<1>2. RefreshTypeOK'
  BY <1>1 DEF Load, RefreshInv, RefreshTypeOK
<1>3. \A c \in New : /\ c.list \in ls /\ c.gen = latest[c.list] + 1 /\ c.at = "head"
                     /\ c.read = [p \in Parts |-> 0]
  BY DEF Started
<1>4. \A c, d \in New : c.list = d.list => c = d
  BY DEF Started
<1>5. calls' = calls \cup New
  BY DEF Load
<1>6. \A l \in Lists : /\ latest[l] \in Nat
                       /\ latest'[l] = IF l \in ls THEN latest[l] + 1 ELSE latest[l]
  BY DEF Load, RefreshInv, RefreshTypeOK
<1>7. \A c \in calls : /\ c.list \in Lists /\ c.gen \in Nat /\ c.gen <= latest[c.list]
                       /\ c.read \in [Parts -> Nat]
  BY DEF RefreshInv, RefreshTypeOK, Call
<1>8. \A c \in calls' : c.gen <= latest'[c.list]
  BY <1>3, <1>5, <1>6, <1>7
<1>9. \A c, d \in calls' : c.list = d.list /\ c.gen = d.gen => c = d
  <2> SUFFICES ASSUME NEW c \in calls', NEW d \in calls', c.list = d.list, c.gen = d.gen
               PROVE  c = d
    OBVIOUS
  <2>1. CASE c \in calls /\ d \in calls
    BY <2>1 DEF RefreshInv
  <2>2. CASE c \in New /\ d \in New
    BY <2>2, <1>4
  <2>3. CASE c \in calls /\ d \in New
    BY <2>3, <1>3, <1>6, <1>7
  <2>4. CASE c \in New /\ d \in calls
    BY <2>4, <1>3, <1>6, <1>7
  <2> QED
    BY <1>5, <2>1, <2>2, <2>3, <2>4
<1>10. \A c \in calls' : c.at = "body" => \A p \in PartsOf[c.list] : c.read[p] # 0
  BY <1>3, <1>5 DEF RefreshInv, Served
<1>11. \A c \in calls' : c.gen = latest'[c.list] =>
         \A p \in PartsOf[c.list] : c.read[p] = 0 \/ c.read[p] >= shown[p]
  <2> SUFFICES ASSUME NEW c \in calls', c.gen = latest'[c.list], NEW p \in PartsOf[c.list]
               PROVE  c.read[p] = 0 \/ c.read[p] >= shown[p]
    OBVIOUS
  <2>1. CASE c \in New
    BY <2>1, <1>3, PartsAssumption
  <2>2. CASE c \in calls
    <3>1. c.gen = latest[c.list]
      BY <2>2, <1>6, <1>7
    <3> QED
      BY <3>1, <2>2 DEF RefreshInv, IsLatest
  <2> QED
    BY <1>5, <2>1, <2>2
<1>12. \A c \in calls', p \in Parts : c.read[p] <= version[p]
  BY <1>3, <1>5 DEF RefreshInv, RefreshTypeOK
<1>13. \A p \in Parts : shown[p] <= version[p]
  BY DEF RefreshInv
<1>14. shown' = shown /\ version' = version
  BY DEF Load
<1> QED
  BY <1>2, <1>8, <1>9, <1>10, <1>11, <1>12, <1>13, <1>14 DEF RefreshInv, IsLatest, Served

\* A call that is served, goes on or ends is one of those in flight; the rest
\* of the lemmas are about what becomes of it.
LEMMA CallFacts ==
  ASSUME RefreshInv, NEW c \in calls
  PROVE  /\ c \in Call /\ c.list \in Lists /\ c.gen \in Nat /\ c.read \in [Parts -> Nat]
         /\ PartsOf[c.list] \subseteq Parts
BY PartsAssumption DEF RefreshInv, RefreshTypeOK, Call

\* The server serves one part: the version it has, which is no older than the screen.
LEMMA ServeInv ==
  ASSUME RefreshInv, NEW c \in calls, NEW p \in Parts, Serve(c, p), UNCHANGED version
  PROVE  RefreshInv'
<1> DEFINE d == [c EXCEPT !.read[p] = version[p]]
<1>1. /\ c \in Call /\ c.list \in Lists /\ c.read \in [Parts -> Nat] /\ c.at = "head"
      /\ version[p] \in Nat \ {0} /\ shown[p] <= version[p] /\ shown[p] \in Nat
  BY CallFacts DEF Serve, RefreshInv, RefreshTypeOK
<1>2. /\ d \in Call /\ d.list = c.list /\ d.gen = c.gen /\ d.at = "head"
      /\ d.read = [c.read EXCEPT ![p] = version[p]]
  BY <1>1 DEF Call
<1>3. calls' = (calls \ {c}) \cup {d}
  BY DEF Serve
<1>4. UNCHANGED <<latest, shown, refreshError>>
  BY DEF Serve
<1>5. RefreshTypeOK'
  BY <1>2, <1>3, <1>4 DEF RefreshInv, RefreshTypeOK
<1>6. \A x \in calls' : x.gen <= latest[x.list]
  BY <1>2, <1>3 DEF RefreshInv
<1>7. \A x, y \in calls' : x.list = y.list /\ x.gen = y.gen => x = y
  <2>1. \A x, y \in calls : x.list = y.list /\ x.gen = y.gen => x = y
    BY DEF RefreshInv
  <2> HIDE DEF d
  <2> QED
    BY <1>2, <1>3, <2>1
<1>8. \A x \in calls' : x.at = "body" => \A q \in PartsOf[x.list] : x.read[q] # 0
  BY <1>2, <1>3 DEF RefreshInv, Served
<1>9. \A x \in calls' : x.gen = latest[x.list] =>
        \A q \in PartsOf[x.list] : x.read[q] = 0 \/ x.read[q] >= shown[q]
  <2> SUFFICES ASSUME NEW x \in calls', x.gen = latest[x.list], NEW q \in PartsOf[x.list]
               PROVE  x.read[q] = 0 \/ x.read[q] >= shown[q]
    OBVIOUS
  <2>1. CASE x \in calls
    BY <2>1 DEF RefreshInv, IsLatest
  <2>2. CASE x = d
    <3>1. c.read[q] = 0 \/ c.read[q] >= shown[q]
      BY <1>2, <2>2 DEF RefreshInv, IsLatest
    <3>2. q \in Parts
      BY <1>2, <2>2, CallFacts
    <3> QED
      BY <1>1, <1>2, <2>2, <3>1, <3>2
  <2> QED
    BY <1>3, <2>1, <2>2
<1>10. \A x \in calls', q \in Parts : x.read[q] <= version[q]
  <2>1. \A x \in calls, q \in Parts : x.read[q] <= version[q]
    BY DEF RefreshInv
  <2>2. \A q \in Parts : d.read[q] = IF q = p THEN version[p] ELSE c.read[q]
    BY <1>1, <1>2
  <2> HIDE DEF d
  <2> QED
    BY <1>1, <1>3, <2>1, <2>2
<1>11. \A q \in Parts : shown[q] <= version[q]
  BY DEF RefreshInv
<1>12. latest' = latest /\ shown' = shown /\ version' = version
  BY <1>4
<1> HIDE DEF d
<1> QED
  BY <1>5, <1>6, <1>7, <1>8, <1>9, <1>10, <1>11, <1>12 DEF RefreshInv, IsLatest, Served

\* A load goes on to its bodies only when all of its parts were served.
LEMMA HeadsInv ==
  ASSUME RefreshInv, NEW c \in calls, HeadsArrive(c), UNCHANGED version
  PROVE  RefreshInv'
<1> DEFINE d == [c EXCEPT !.at = "body"]
<1>1. c \in Call /\ Served(c)
  BY CallFacts DEF HeadsArrive
<1>2. d \in Call /\ d.list = c.list /\ d.gen = c.gen /\ d.at = "body" /\ d.read = c.read
  BY <1>1 DEF Call
<1>3. \A x \in calls' : x \in calls \ {c} \/ x = d
  BY DEF HeadsArrive
<1>4. UNCHANGED <<latest, shown, refreshError>>
  BY DEF HeadsArrive
<1>5. RefreshTypeOK'
  BY <1>2, <1>3, <1>4 DEF RefreshInv, RefreshTypeOK
<1>6. \A x \in calls' : x.gen <= latest[x.list]
  BY <1>2, <1>3 DEF RefreshInv
<1>7. \A x, y \in calls' : x.list = y.list /\ x.gen = y.gen => x = y
  <2>1. \A x, y \in calls : x.list = y.list /\ x.gen = y.gen => x = y
    BY DEF RefreshInv
  <2> HIDE DEF d
  <2> QED
    BY <1>2, <1>3, <2>1
<1>8. \A x \in calls' : x.at = "body" => \A q \in PartsOf[x.list] : x.read[q] # 0
  BY <1>1, <1>2, <1>3 DEF RefreshInv, Served
<1>9. \A x \in calls' : x.gen = latest[x.list] =>
        \A q \in PartsOf[x.list] : x.read[q] = 0 \/ x.read[q] >= shown[q]
  BY <1>2, <1>3 DEF RefreshInv, IsLatest
<1>10. \A x \in calls', q \in Parts : x.read[q] <= version[q]
  BY <1>2, <1>3 DEF RefreshInv
<1>11. \A q \in Parts : shown[q] <= version[q]
  BY DEF RefreshInv
<1>12. latest' = latest /\ shown' = shown /\ version' = version
  BY <1>4
<1> HIDE DEF d
<1> QED
  BY <1>5, <1>6, <1>7, <1>8, <1>9, <1>10, <1>11, <1>12 DEF RefreshInv, IsLatest, Served

\* What is shown changes to what the latest load was served; that was the only
\* load of this number, and the other lists have parts of their own.
LEMMA BodiesInv ==
  ASSUME RefreshInv, NEW c \in calls, BodiesArrive(c), UNCHANGED version
  PROVE  /\ RefreshInv'
         /\ \A p \in Parts : shown'[p] >= shown[p]
<1>1. /\ c \in Call /\ c.list \in Lists /\ c.read \in [Parts -> Nat]
      /\ PartsOf[c.list] \subseteq Parts
      /\ \A p \in PartsOf[c.list] : c.read[p] # 0
  BY CallFacts DEF BodiesArrive, RefreshInv, Served
<1>2. calls' = calls \ {c} /\ latest' = latest
  BY DEF BodiesArrive
<1>3. CASE ~ IsLatest(c)
  <2>1. shown' = shown /\ refreshError' = refreshError
    BY <1>3 DEF BodiesArrive
  <2> QED
    BY <1>2, <2>1 DEF RefreshInv, RefreshTypeOK, IsLatest, Served
<1>4. CASE IsLatest(c)
  <2>1. shown' = [p \in Parts |-> IF p \in PartsOf[c.list] THEN c.read[p] ELSE shown[p]]
    BY <1>4 DEF BodiesArrive
  <2>2. refreshError' = [refreshError EXCEPT ![c.list] = FALSE]
    BY <1>4 DEF BodiesArrive
  <2>3. RefreshTypeOK'
    BY <1>1, <1>2, <2>1, <2>2 DEF RefreshInv, RefreshTypeOK
  <2>4. \A p \in Parts : shown'[p] >= shown[p] /\ shown'[p] <= version[p]
    BY <1>1, <1>4, <2>1 DEF RefreshInv, RefreshTypeOK
  <2>5. \A x \in calls' : IsLatest(x) =>
          \A q \in PartsOf[x.list] : x.read[q] = 0 \/ x.read[q] >= shown'[q]
    <3> SUFFICES ASSUME NEW x \in calls', IsLatest(x), NEW q \in PartsOf[x.list]
                 PROVE  x.read[q] = 0 \/ x.read[q] >= shown'[q]
      OBVIOUS
    <3>1. x \in calls /\ x # c
      BY <1>2
    <3>2. x.list # c.list
      BY <3>1, <1>4 DEF RefreshInv, IsLatest
    <3>3. q \in Parts /\ q \notin PartsOf[c.list]
      BY <3>1, <3>2, <1>1, CallFacts, PartsAssumption
    <3>4. shown'[q] = shown[q]
      BY <2>1, <3>3
    <3> QED
      BY <3>1, <3>4 DEF RefreshInv
  <2> QED
    BY <1>2, <2>3, <2>4, <2>5 DEF RefreshInv, IsLatest, Served
<1> QED
  BY <1>3, <1>4

\* A load that fails changes neither the screen nor the numbers.
LEMMA FailsInv ==
  ASSUME RefreshInv, NEW c \in calls, Fails(c), UNCHANGED version
  PROVE  RefreshInv'
<1>1. c.list \in Lists
  BY CallFacts
<1>2. calls' = calls \ {c} /\ latest' = latest /\ shown' = shown
  BY DEF Fails
<1>3. refreshError' \in [Lists -> BOOLEAN]
  BY <1>1 DEF Fails, RefreshInv, RefreshTypeOK
<1> QED
  BY <1>2, <1>3 DEF RefreshInv, RefreshTypeOK, IsLatest, Served

\* The server only moves on.
LEMMA ChangeInv ==
  ASSUME RefreshInv, NEW ps \in SUBSET Parts, Change(ps), UNCHANGED loadVars
  PROVE  RefreshInv'
<1>1. version' \in [Parts -> Nat \ {0}] /\ \A p \in Parts : version[p] <= version'[p]
  BY DEF Change, RefreshInv, RefreshTypeOK
<1>2. \A p \in Parts : version[p] \in Nat /\ version'[p] \in Nat /\ shown[p] \in Nat
  BY <1>1 DEF RefreshInv, RefreshTypeOK
<1>3. \A c \in calls, p \in Parts : c.read[p] \in Nat
  BY CallFacts
<1> QED
  BY <1>1, <1>2, <1>3 DEF RefreshInv, RefreshTypeOK, loadVars, IsLatest, Served

\* Every step of the loads keeps the invariant and the screen's order.
LEMMA StepInv ==
  ASSUME RefreshInv, [NextRefresh]_refreshVars
  PROVE  RefreshInv' /\ \A p \in Parts : shown'[p] >= shown[p]
<1>1. \A p \in Parts : shown[p] \in Nat
  BY DEF RefreshInv, RefreshTypeOK
<1>2. CASE \E ls \in SUBSET Lists : Load(ls) /\ UNCHANGED version
  BY <1>1, <1>2, LoadInv DEF Load
<1>3. CASE Answer /\ UNCHANGED version
  <2>1. PICK c \in calls : (\E p \in Parts : Serve(c, p)) \/ HeadsArrive(c) \/ BodiesArrive(c) \/ Fails(c)
    BY <1>3 DEF Answer
  <2>2. CASE \E p \in Parts : Serve(c, p)
    BY <1>1, <1>3, <2>2, ServeInv DEF Serve
  <2>3. CASE HeadsArrive(c)
    BY <1>1, <1>3, <2>3, HeadsInv DEF HeadsArrive
  <2>4. CASE BodiesArrive(c)
    BY <1>3, <2>4, BodiesInv
  <2>5. CASE Fails(c)
    BY <1>1, <1>3, <2>5, FailsInv DEF Fails
  <2> QED
    BY <2>1, <2>2, <2>3, <2>4, <2>5
<1>4. CASE \E ps \in SUBSET Parts : Change(ps) /\ UNCHANGED loadVars
  BY <1>1, <1>4, ChangeInv DEF loadVars
<1>5. CASE UNCHANGED refreshVars
  BY <1>1, <1>5 DEF RefreshInv, RefreshTypeOK, refreshVars, loadVars, IsLatest, Served
<1> QED
  BY <1>2, <1>3, <1>4, <1>5 DEF NextRefresh

\* A banner changes only by the end of the latest load of its list.
LEMMA StepBanner ==
  ASSUME RefreshInv, [NextRefresh]_refreshVars, NEW l \in Lists, refreshError'[l] # refreshError[l]
  PROVE  \E c \in calls \ calls' : c.list = l /\ IsLatest(c)
<1>1. Answer
  BY DEF NextRefresh, Load, refreshVars, loadVars
<1>2. PICK c \in calls : BodiesArrive(c) \/ Fails(c)
  BY <1>1 DEF Answer, Serve, HeadsArrive
<1>3. IsLatest(c) /\ c \notin calls'
  BY <1>2 DEF BodiesArrive, Fails
<1>4. c.list = l
  BY <1>2, <1>3, CallFacts DEF BodiesArrive, Fails, RefreshInv, RefreshTypeOK
<1> QED
  BY <1>3, <1>4

\* The invariant holds for the loads by themselves.
LEMMA InvariantRefresh == SpecRefresh => []RefreshInv
<1>1. (\E ls \in SUBSET Lists : InitRefresh(ls)) => RefreshInv
  BY InitInv
<1>2. RefreshInv /\ [NextRefresh]_refreshVars => RefreshInv'
  BY StepInv
<1> QED
  BY <1>1, <1>2, PTL DEF SpecRefresh

\* The screen never shows an older state of the server after a newer one,
\* however the loads of the lists are started, served, answered and lost
\* (loadProducts, loadOrders, loadLatestShipperSnapshot).
THEOREM RefreshNeverBack == SpecRefresh => NeverBack
<1>1. RefreshInv /\ [NextRefresh]_refreshVars => [\A p \in Parts : shown'[p] >= shown[p]]_refreshVars
  BY StepInv
<1> QED
  BY <1>1, InvariantRefresh, PTL DEF SpecRefresh, NeverBack

\* No overtaken load has a say in the banner.
THEOREM RefreshBannerHonest == SpecRefresh => BannerHonest
<1>1. RefreshInv /\ [NextRefresh]_refreshVars =>
        [\A l \in Lists : refreshError'[l] # refreshError[l] =>
           \E c \in calls \ calls' : c.list = l /\ IsLatest(c)]_refreshVars
  BY StepBanner
<1> QED
  BY <1>1, InvariantRefresh, PTL DEF SpecRefresh, BannerHonest

-----------------------------------------------------------------------------
(* The pages drive the loads as Refresh allows.                            *)

\* A commit of the server changes some parts.
LEMMA CommitChanges ==
  ASSUME NEW e, Commit(e)
  PROVE  \E ps \in SUBSET Parts : Change(ps)
<1>1. Change((About(e) \cap PartsHere) \cap Parts)
  BY DEF Commit, Change
<1> QED
  BY <1>1

\* The other participants change parts and leave the loads alone.
LEMMA OthersStep ==
  ASSUME Others
  PROVE  NextRefresh
<1>1. UNCHANGED loadVars
  BY DEF Others, pageVars
<1>2. \E e : Commit(e)
  BY DEF Others, ListProduct, Place, Confirm, Pick, Deliver
<1> QED
  BY <1>1, <1>2, CommitChanges DEF NextRefresh

\* So does the server when it does what the page asked for.
LEMMA ServesStep ==
  ASSUME Serves
  PROVE  [NextRefresh]_refreshVars
<1>1. UNCHANGED loadVars
  BY DEF Serves
<1>2. UNCHANGED version \/ \E e : Commit(e)
  BY DEF Serves, ServeBuyer, ServeSeller, ServeShipper, serverVars,
         ListProduct, Place, Confirm, Pick, Deliver
<1> QED
  BY <1>1, <1>2, CommitChanges DEF NextRefresh, refreshVars

\* What the effects load are lists.
LEMMA ReloadedLists ==
  ASSUME NEW e
  PROVE  /\ BuyerReloads(e) \subseteq Lists /\ SellerReloads(e) \subseteq Lists
         /\ ShipperReloads(e) \subseteq Lists
BY RolesAssumption DEF BuyerReloads, SellerReloads, ShipperReloads

\* A render loads the lists that the newest message is about, or none.
LEMMA RenderStep ==
  ASSUME role \in {"buyer", "seller", "shipper"}, NEW es, NEW e, Render(es, e)
  PROVE  [NextRefresh]_refreshVars
<1>1. UNCHANGED version
  BY DEF Render, serverVars
<1>2. Newest(es, e) \subseteq Lists
  BY ReloadedLists DEF Newest, Reloads
<1>3. Load(Newest(es, e)) \/ UNCHANGED loadVars
  BY DEF Render
<1> QED
  BY <1>1, <1>2, <1>3 DEF NextRefresh, refreshVars

\* A click sends a call and loads nothing.
LEMMA UserStep ==
  ASSUME User
  PROVE  UNCHANGED refreshVars
<1>1. UNCHANGED version
  BY DEF User, serverVars
<1>2. UNCHANGED loadVars
  BY DEF User, BuyerUser, AddToCart, RemoveItem, Checkout,
         AddProduct, ConfirmOrder, PickJob, DeliverJob
<1> QED
  BY <1>1, <1>2 DEF refreshVars

\* The end of a call loads some lists, or none.
LEMMA PostsLoad ==
  ASSUME PostsEnd
  PROVE  UNCHANGED loadVars \/ \E ls \in SUBSET Lists : Load(ls)
<1>1. CASE AddEnds
  BY <1>1 DEF AddEnds, PostEnds, AddAnswered, AddFails
<1>2. CASE OrderEnds
  BY <1>2, RolesAssumption DEF OrderEnds, CheckoutAnswered, CheckoutFails, LoadBuyerLists
<1>3. CASE GuardEnds
  BY <1>3 DEF GuardEnds, PostEnds, CheckoutEnds
<1>4. CASE ListingEnds
  BY <1>4, RolesAssumption DEF ListingEnds, PostEnds, AddProductAnswered, AddProductFails, LoadSellerProducts
<1>5. CASE ConfirmEnds
  BY <1>5, RolesAssumption DEF ConfirmEnds, PostEnds, ConfirmAnswered, ConfirmFails, LoadSellerOrders
<1>6. CASE PickingEnds
  BY <1>6, RolesAssumption DEF PickingEnds, PostEnds, PickEnds, LoadShipperState
<1>7. CASE DeliveringEnds
  BY <1>7, RolesAssumption DEF DeliveringEnds, PostEnds, DeliverEnds, LoadShipperState
<1> QED
  BY <1>1, <1>2, <1>3, <1>4, <1>5, <1>6, <1>7 DEF PostsEnd

\* So it is a step of the loads, or none of theirs.
LEMMA PostsStep ==
  ASSUME PostsEnd
  PROVE  [NextRefresh]_refreshVars
<1>1. UNCHANGED version
  BY DEF PostsEnd, AddEnds, OrderEnds, GuardEnds, ListingEnds, ConfirmEnds, PickingEnds,
         DeliveringEnds, PostEnds, serverVars
<1>2. UNCHANGED loadVars \/ \E ls \in SUBSET Lists : Load(ls)
  BY PostsLoad
<1> QED
  BY <1>1, <1>2 DEF NextRefresh, refreshVars

\* Every step of a page, its server and its user is one of the loads.
LEMMA PageStep ==
  ASSUME role \in {"buyer", "seller", "shipper"}, [Next]_vars
  PROVE  [NextRefresh]_refreshVars
<1>1. CASE Others
  BY <1>1, OthersStep
<1>2. CASE Serves
  BY <1>2, ServesStep
<1>3. CASE \E e \in wire : Lost(e)
  BY <1>3 DEF Lost, pageVars, serverVars, refreshVars
<1>4. CASE \E es \in SUBSET wire : \E e \in es : Render(es, e)
  BY <1>4, RenderStep
<1>5. CASE User
  BY <1>5, UserStep
<1>6. CASE PostsEnd
  BY <1>6, PostsStep
<1>7. CASE \E l \in Lists : AnswerOf(l)
  <2>1. Answer
    BY <1>7 DEF AnswerOf, Answer
  <2>2. UNCHANGED version
    BY <1>7 DEF AnswerOf, serverVars
  <2> QED
    BY <2>1, <2>2 DEF NextRefresh
<1>8. CASE Tick
  BY <1>8 DEF Tick, pageVars, serverVars, refreshVars
<1>9. CASE UNCHANGED vars
  BY <1>9 DEF vars, pageVars, serverVars, refreshVars
<1> QED
  BY <1>1, <1>2, <1>3, <1>4, <1>5, <1>6, <1>7, <1>8, <1>9 DEF Next

\* The pages, with their server, their user and the network, are an instance
\* of the loads by themselves: what holds of those holds of the pages.
THEOREM PagesDriveLoads == Spec => SpecRefresh
<1> DEFINE Role == role \in {"buyer", "seller", "shipper"}
<1>1. Init => Role /\ \E ls \in SUBSET Lists : InitRefresh(ls)
  BY RolesAssumption DEF Init, ListsOf
<1>2. Role /\ [Next]_vars => Role'
  <2> SUFFICES ASSUME [Next]_vars
               PROVE  UNCHANGED role
    OBVIOUS
  <2> QED
    BY DEF Next, vars, Others, Serves, Lost, Render, User, PostsEnd, AddEnds, OrderEnds, GuardEnds,
           ListingEnds, ConfirmEnds, PickingEnds, DeliveringEnds, PostEnds, AnswerOf, Tick
<1>3. Role /\ [Next]_vars => [NextRefresh]_refreshVars
  BY PageStep
<1> HIDE DEF Role
<1> QED
  BY <1>1, <1>2, <1>3, PTL DEF Spec, SpecRefresh

\* So no page ever shows an older state of the server after a newer one, with
\* any number of products, orders and loads in flight.
THEOREM PagesNeverBack == Spec => NeverBack
BY PagesDriveLoads, RefreshNeverBack

\* And on no page has an overtaken load a say in a banner.
THEOREM PagesBannerHonest == Spec => BannerHonest
BY PagesDriveLoads, RefreshBannerHonest

-----------------------------------------------------------------------------
(* A list at rest.                                                         *)

\* What will bring part p of list l up to date, or says that it may not be.
Pending(l, p) ==
  \/ shown[p] = version[p]
  \/ \E e \in wire : l \in Reloads(e)
  \/ l = "products" /\ addingProduct.phase = "done"
  \/ \E c \in calls : c.list = l /\ IsLatest(c) /\ c.read[p] \in {0, version[p]}
  \/ refreshError[l] /\ ~ \E c \in calls : c.list = l /\ IsLatest(c)

Owed ==
  \A l \in Lists : latest[l] > 0 /\ missed[l] = "no" =>
    \A p \in PartsOf[l] : Pending(l, p)

RoleOK == role \in {"buyer", "seller", "shipper"}
Post(x) == x = [arg |-> x.arg, phase |-> x.phase]
SInv == RefreshInv /\ RoleOK /\ Post(addingProduct) /\ Owed

-----------------------------------------------------------------------------
(* Why a list may differ from the server's.                                *)

\* The lists, their parts and the pages that have them.
LEMMA PartFacts ==
  ASSUME RoleOK, NEW l \in Lists, NEW p \in PartsOf[l]
  PROVE  /\ p \in Parts
         /\ l = "products" => p = "products"
         /\ l = "orders" => p = "orders"
         /\ l = "shipments" => p \in {"jobs", "deliveries"}
         /\ p \in PartsHere => (l = "shipments" <=> role = "shipper")
<1>1. /\ PartsOf[l] = IF l = "shipments" THEN {"jobs", "deliveries"} ELSE {l}
      /\ l \in {"products", "orders", "shipments"}
  BY RolesAssumption
<1>2. p \in Parts
  BY <1>1, RolesAssumption
<1>3. ASSUME p \in PartsHere
      PROVE  l = "shipments" <=> role = "shipper"
  <2>1. PICK m \in ListsOf(role) : p \in PartsOf[m]
    BY <1>3 DEF PartsHere
  <2>2. m \in Lists /\ (m = "shipments" <=> role = "shipper")
    BY <2>1, RolesAssumption DEF ListsOf, RoleOK
  <2>3. PartsOf[m] = IF m = "shipments" THEN {"jobs", "deliveries"} ELSE {m}
    BY <2>2, RolesAssumption
  <2>. QED  BY <1>1, <2>1, <2>2, <2>3, RolesAssumption
<1>. QED  BY <1>1, <1>2, <1>3

EventTypes == {"product.listed", "cart.checkout", "order.confirmed", "shipment.picked", "shipment.delivered"}

\* The type of an event.
LEMMA EventShape ==
  ASSUME NEW t, NEW o, NEW by
  PROVE  Event(t, o, by).type = t
  BY DEF Event

\* A change of a part on the page is told by a message that makes the page load
\* the part's list, but for what a seller lists.
LEMMA ChangesAreTold ==
  ASSUME RoleOK, NEW e, e.type \in EventTypes, NEW l \in Lists, NEW p \in PartsOf[l],
         p \in About(e) \cap PartsHere, ~ (role = "seller" /\ e.type = "product.listed")
  PROVE  Receives(e) /\ l \in Reloads(e)
<1>1. /\ l \in {"products", "orders", "shipments"}
      /\ l = "products" => p = "products"
      /\ l = "orders" => p = "orders"
      /\ l = "shipments" => p \in {"jobs", "deliveries"}
      /\ l = "shipments" <=> role = "shipper"
  BY PartFacts, RolesAssumption
<1>2. CASE e.type = "product.listed"
  BY <1>1, <1>2 DEF About, Receives, Reloads, BuyerReloads, SellerReloads, ShipperReloads, RoleOK, OrderEvents
<1>3. CASE e.type = "cart.checkout"
  BY <1>1, <1>3 DEF About, Receives, Reloads, BuyerReloads, SellerReloads, ShipperReloads, RoleOK, OrderEvents
<1>4. CASE e.type = "order.confirmed"
  BY <1>1, <1>4 DEF About, Receives, Reloads, BuyerReloads, SellerReloads, ShipperReloads, RoleOK, OrderEvents
<1>5. CASE e.type = "shipment.picked"
  BY <1>1, <1>5 DEF About, Receives, Reloads, BuyerReloads, SellerReloads, ShipperReloads, RoleOK, OrderEvents
<1>6. CASE e.type = "shipment.delivered"
  BY <1>1, <1>6 DEF About, Receives, Reloads, BuyerReloads, SellerReloads, ShipperReloads, RoleOK,
                    OrderEvents, Us
<1>. QED  BY <1>2, <1>3, <1>4, <1>5, <1>6 DEF EventTypes

\* What an event makes the page load depends on the page alone.
LEMMA ReloadsStay ==
  ASSUME role' = role, NEW e
  PROVE  Reloads(e)' = Reloads(e)
  BY DEF Reloads

\* A commit of the server leaves something pending for every part it changes.
LEMMA CommitOwed ==
  ASSUME SInv, NEW e, Commit(e), e.type \in EventTypes, UNCHANGED <<role, missed, loadVars>>,
         addingProduct.phase = "done" => addingProduct'.phase = "done",
         role = "seller" /\ e.type = "product.listed" => addingProduct'.phase = "done"
  PROVE  Owed'
<1>. SUFFICES ASSUME NEW l \in Lists, latest[l] > 0, missed[l] = "no", NEW p \in PartsOf[l]
              PROVE  Pending(l, p)'
  BY DEF Owed, loadVars
<1>1. Pending(l, p) /\ p \in Parts /\ wire \subseteq wire'
  BY PartFacts DEF SInv, Owed, Commit
<1>2. CASE p \notin About(e) \cap PartsHere
  <2>1. version'[p] = version[p]
    BY <1>1, <1>2 DEF Commit, Change
  <2>2. CASE \E x \in wire : l \in Reloads(x)
    BY <1>1, <2>2, ReloadsStay DEF Pending
  <2>. QED  BY <1>1, <2>1, <2>2 DEF Pending, loadVars, IsLatest
<1>3. CASE p \in About(e) \cap PartsHere /\ ~ (role = "seller" /\ e.type = "product.listed")
  <2>1. Receives(e) /\ l \in Reloads(e)
    BY <1>3, ChangesAreTold DEF SInv
  <2>2. e \in wire' /\ l \in Reloads(e)'
    BY <2>1, ReloadsStay DEF Commit
  <2>. QED  BY <2>2 DEF Pending
<1>4. CASE p \in About(e) \cap PartsHere /\ role = "seller" /\ e.type = "product.listed"
  <2>1. l = "products"
    <3>1. p = "products"
      BY <1>4 DEF About
    <3>. QED  BY <3>1, PartFacts, RolesAssumption DEF SInv
  <2>. QED  BY <1>4, <2>1 DEF Pending
<1>. QED  BY <1>2, <1>3, <1>4

\* A load of a list started now will read every part of it.
LEMMA LoadPending ==
  ASSUME SInv, NEW ls \in SUBSET Lists, Load(ls), NEW l \in ls, NEW p \in PartsOf[l]
  PROVE  Pending(l, p)'
<1>1. p \in Parts
  BY PartFacts DEF SInv
<1>2. Started(l, latest[l] + 1) \in calls' /\ latest'[l] = latest[l] + 1
  BY DEF Load
<1>3. /\ Started(l, latest[l] + 1).list = l /\ Started(l, latest[l] + 1).gen = latest[l] + 1
      /\ Started(l, latest[l] + 1).read[p] = 0
  BY <1>1 DEF Started
<1>. QED  BY <1>2, <1>3 DEF Pending, IsLatest

\* The loads of the other lists leave list l as it is.
LEMMA LoadOthers ==
  ASSUME SInv, NEW ls \in SUBSET Lists, Load(ls), NEW l \in Lists \ ls, NEW p \in PartsOf[l],
         UNCHANGED <<role, version>>, Pending(l, p),
         (\E e \in wire : l \in Reloads(e)) => (\E e \in wire' : l \in Reloads(e)),
         l = "products" /\ addingProduct.phase = "done" => addingProduct'.phase = "done"
  PROVE  Pending(l, p)' /\ latest'[l] = latest[l]
<1>1. latest'[l] = latest[l]
  BY DEF Load, SInv, RefreshInv, RefreshTypeOK
<1>2. \A c \in calls' : c.list = l => c \in calls
  BY DEF Load, Started
<1>3. calls \subseteq calls' /\ shown' = shown /\ refreshError' = refreshError
  BY DEF Load
<1>4. CASE \E e \in wire : l \in Reloads(e)
  <2>1. \E e \in wire' : l \in Reloads(e)'
    BY <1>4, ReloadsStay
  <2>. QED  BY <1>1, <2>1 DEF Pending
<1>5. \A c : c \in calls' /\ c.list = l /\ IsLatest(c)' <=> c \in calls /\ c.list = l /\ IsLatest(c)
  BY <1>1, <1>2, <1>3 DEF IsLatest
<1>6. CASE shown[p] = version[p]
  BY <1>1, <1>3, <1>6 DEF Pending
<1>7. CASE l = "products" /\ addingProduct.phase = "done"
  BY <1>1, <1>7 DEF Pending
<1>8. CASE \E c \in calls : c.list = l /\ IsLatest(c) /\ c.read[p] \in {0, version[p]}
  <2>1. PICK c \in calls : c.list = l /\ IsLatest(c) /\ c.read[p] \in {0, version[p]}
    BY <1>8
  <2>2. c \in calls' /\ c.list = l /\ IsLatest(c)' /\ c.read[p] \in {0, version'[p]}
    BY <1>5, <2>1
  <2>. QED  BY <1>1, <2>2 DEF Pending
<1>9. CASE refreshError[l] /\ ~ \E c \in calls : c.list = l /\ IsLatest(c)
  <2>1. refreshError'[l] /\ ~ \E c \in calls' : c.list = l /\ IsLatest(c)'
    BY <1>3, <1>5, <1>9
  <2>. QED  BY <1>1, <2>1 DEF Pending
<1>. QED  BY <1>4, <1>6, <1>7, <1>8, <1>9 DEF Pending

\* An answer shows what is the server's, or the banner, or is not the last.
LEMMA AnswerPending ==
  ASSUME SInv, RefreshInv', NEW c \in calls,
         (\E q \in Parts : Serve(c, q)) \/ HeadsArrive(c) \/ BodiesArrive(c) \/ Fails(c),
         UNCHANGED <<role, version, wire, addingProduct>>,
         NEW l \in Lists, NEW p \in PartsOf[l], Pending(l, p)
  PROVE  Pending(l, p)' /\ latest' = latest
<1>1. /\ p \in Parts /\ version[p] \in Nat \ {0}
      /\ c \in Call /\ c.list \in Lists /\ c.gen \in Nat /\ c.read \in [Parts -> Nat]
  BY PartFacts, CallFacts DEF SInv, RefreshInv, RefreshTypeOK
<1>2. latest' = latest
  BY DEF Serve, HeadsArrive, BodiesArrive, Fails
<1>3. CASE \E e \in wire : l \in Reloads(e)
  BY <1>2, <1>3, ReloadsStay DEF Pending
<1>4. CASE l = "products" /\ addingProduct.phase = "done"
  BY <1>2, <1>4 DEF Pending
<1>5. CASE ~ (c.list = l /\ IsLatest(c))
  <2>1. shown'[p] = shown[p]
    <3>1. CASE BodiesArrive(c) /\ IsLatest(c)
      <4>1. p \notin PartsOf[c.list]
        BY <1>1, <1>5, <3>1, PartsAssumption
      <4>. QED  BY <1>1, <3>1, <4>1 DEF BodiesArrive
    <3>. QED  BY <3>1 DEF Serve, HeadsArrive, BodiesArrive, Fails
  <2>2. refreshError'[l] = refreshError[l]
    BY <1>1, <1>5 DEF Serve, HeadsArrive, BodiesArrive, Fails, SInv, RefreshInv, RefreshTypeOK
  <2>3. \A d \in calls : d.list = l /\ IsLatest(d) => d \in calls'
    BY <1>5 DEF Serve, HeadsArrive, BodiesArrive, Fails
  <2>4. \A d \in calls' : d.list = l /\ IsLatest(d) => d \in calls
    <3>1. ASSUME NEW d \in calls', d \notin calls
          PROVE  d.list = c.list /\ d.gen = c.gen
      BY <1>1, <3>1 DEF Serve, HeadsArrive, BodiesArrive, Fails, Call
    <3>. QED  BY <1>5, <3>1 DEF IsLatest
  <2>. QED  BY <1>2, <1>3, <1>4, <2>1, <2>2, <2>3, <2>4 DEF Pending, IsLatest
<1>6. CASE c.list = l /\ IsLatest(c)
  <2>1. c.read[p] = 0 \/ c.read[p] >= shown[p]
    BY <1>6 DEF SInv, RefreshInv
  <2>2. c.read[p] <= version[p] /\ c.read[p] \in Nat /\ shown[p] \in Nat
    BY <1>1 DEF SInv, RefreshInv, RefreshTypeOK
  <2>3. \A d \in calls : d.list = l /\ IsLatest(d) => d = c
    BY <1>6 DEF SInv, RefreshInv, IsLatest
  <2>4. shown[p] = version[p] \/ c.read[p] \in {0, version[p]} \/ (\E e \in wire : l \in Reloads(e))
          \/ (l = "products" /\ addingProduct.phase = "done")
    BY <1>6, <2>3 DEF Pending
  <2>5. c.read[p] \in {0, version[p]} \/ (\E e \in wire : l \in Reloads(e))
          \/ (l = "products" /\ addingProduct.phase = "done")
    BY <1>1, <2>1, <2>2, <2>4
  <2>6. CASE \E q \in Parts : Serve(c, q)
    <3>1. PICK q \in Parts : Serve(c, q)
      BY <2>6
    <3>2. PICK d : d = [c EXCEPT !.read[q] = version[q]]
      OBVIOUS
    <3>3. /\ d \in calls' /\ d.list = c.list /\ d.gen = c.gen
          /\ d.read[p] = IF p = q THEN version[p] ELSE c.read[p]
      BY <1>1, <3>1, <3>2 DEF Serve, Call
    <3>. QED  BY <1>2, <1>3, <1>4, <1>6, <2>5, <3>3 DEF Pending, IsLatest
  <2>7. CASE HeadsArrive(c)
    <3>1. PICK d : d = [c EXCEPT !.at = "body"]
      OBVIOUS
    <3>2. d \in calls' /\ d.list = c.list /\ d.gen = c.gen /\ d.read = c.read
      BY <1>1, <1>6, <2>7, <3>1 DEF HeadsArrive, Call
    <3>. QED  BY <1>2, <1>3, <1>4, <1>6, <2>5, <3>2 DEF Pending, IsLatest
  <2>8. CASE BodiesArrive(c)
    <3>1. c.read[p] # 0
      BY <1>6, <2>8 DEF BodiesArrive, SInv, RefreshInv, Served
    <3>2. shown'[p] = c.read[p]
      BY <1>1, <1>6, <2>8 DEF BodiesArrive
    <3>. QED  BY <1>2, <1>3, <1>4, <2>5, <3>1, <3>2 DEF Pending
  <2>9. CASE Fails(c)
    <3>1. refreshError'[l] /\ calls' = calls \ {c}
      BY <1>1, <1>6, <2>9 DEF Fails, SInv, RefreshInv, RefreshTypeOK
    <3>. QED  BY <1>2, <2>3, <3>1 DEF Pending, IsLatest
  <2>. QED  BY <2>6, <2>7, <2>8, <2>9, <1>2
<1>. QED  BY <1>2, <1>5, <1>6

\* A step that loads some lists and notes what is missed of others.
LEMMA NotedOwed ==
  ASSUME SInv, UNCHANGED <<role, version>>, NEW es, NEW why, why \in {"lost", "skipped"}, Note(es, why),
         wire' \subseteq wire, \A e \in wire \ wire' : Reloads(e) \subseteq es,
         UNCHANGED loadVars \/ \E ls \in SUBSET Lists : Load(ls),
         addingProduct.phase = "done" /\ addingProduct'.phase # "done" =>
           "products" \in es \/ Load({"products"})
  PROVE  Owed'
<1>. SUFFICES ASSUME NEW l \in Lists, latest'[l] > 0, missed'[l] = "no", NEW p \in PartsOf[l]
              PROVE  Pending(l, p)'
  BY DEF Owed
<1>0. latest \in [Lists -> Nat] /\ (latest'[l] # latest[l] => latest'[l] = latest[l] + 1)
  BY DEF SInv, RefreshInv, RefreshTypeOK, Load, loadVars
<1>1. ASSUME NEW ls \in SUBSET Lists, Load(ls), l \in ls
      PROVE  Pending(l, p)'
  BY <1>1, LoadPending
<1>2. ASSUME latest'[l] = latest[l]
      PROVE  l \notin es /\ missed[l] = "no"
  BY <1>2 DEF Note
<1>3. CASE UNCHANGED loadVars
  <2>1. Pending(l, p) /\ l \notin es
    BY <1>2, <1>3 DEF SInv, Owed, loadVars
  <2>2. addingProduct.phase = "done" /\ l = "products" => addingProduct'.phase = "done" \/ Load({"products"})
    BY <2>1
  <2>3. ~ Load({"products"}) \/ l # "products"
    <3>1. ASSUME Load({"products"}), l = "products"
          PROVE  FALSE
      <4>1. latest'[l] = latest[l] + 1
        BY <3>1 DEF Load
      <4>. QED  BY <1>0, <1>3, <4>1 DEF loadVars
    <3>. QED  BY <3>1
  <2>4. CASE \E e \in wire : l \in Reloads(e)
    <3>1. PICK e \in wire : l \in Reloads(e)
      BY <2>4
    <3>2. e \in wire' /\ l \in Reloads(e)'
      BY <2>1, <3>1, ReloadsStay
    <3>. QED  BY <3>2 DEF Pending
  <2>. QED  BY <1>3, <2>1, <2>2, <2>3, <2>4 DEF Pending, loadVars, IsLatest
<1>4. ASSUME NEW ls \in SUBSET Lists, Load(ls), l \notin ls
      PROVE  Pending(l, p)'
  <2>1. latest'[l] = latest[l]
    BY <1>4 DEF Load, SInv, RefreshInv, RefreshTypeOK
  <2>2. l \notin es /\ missed[l] = "no" /\ Pending(l, p)
    BY <1>2, <2>1 DEF SInv, Owed
  <2>3. (\E e \in wire : l \in Reloads(e)) => (\E e \in wire' : l \in Reloads(e))
    BY <2>2
  <2>4. l = "products" => ~ Load({"products"})
    <3>1. ASSUME Load({"products"}), l = "products"
          PROVE  FALSE
      <4>1. latest'[l] = latest[l] + 1
        BY <3>1 DEF Load
      <4>. QED  BY <1>0, <2>1, <4>1
    <3>. QED  BY <3>1
  <2>. QED  BY <1>4, <2>2, <2>3, <2>4, LoadOthers
<1>. QED  BY <1>1, <1>3, <1>4

\* What becomes of a POST of the seller's listing.
LEMMA ListingPost ==
  ASSUME Post(addingProduct), [Next]_vars
  PROVE  Post(addingProduct)'
<1>1. \/ addingProduct' \in {addingProduct, NoPost, Sent("product")}
      \/ addingProduct' = [addingProduct EXCEPT !.phase = "done"]
  BY DEF Next, vars, pageVars, sellerVars, Others, Serves, ServeBuyer, ServeSeller, ServeShipper,
         Lost, Render, User, AddProduct, ConfirmOrder,
         PostsEnd, AddEnds, OrderEnds, GuardEnds, ListingEnds, ConfirmEnds, PickingEnds, DeliveringEnds,
         PostEnds, AddProductAnswered, AddProductFails, ConfirmAnswered, ConfirmFails, AnswerOf, Tick
<1>. QED  BY <1>1 DEF Post, NoPost, Sent

\* Every step keeps the account.
LEMMA NextSInv == SInv /\ [Next]_vars => SInv'
<1>. SUFFICES ASSUME SInv, [Next]_vars PROVE SInv'
  OBVIOUS
<1>a. RefreshInv' /\ Post(addingProduct)'
  BY PageStep, StepInv, ListingPost DEF SInv, RoleOK
<1>b. UNCHANGED role
  BY DEF Next, vars, Others, Serves, Lost, Render, User, PostsEnd, AddEnds, OrderEnds, GuardEnds,
         ListingEnds, ConfirmEnds, PickingEnds, DeliveringEnds, PostEnds, AnswerOf, Tick
<1>. USE DEF pageVars, feedVars, serverVars, buyerVars, sellerVars, shipperVars
<1>1. CASE Others
  <2>1. PICK e : Commit(e) /\ e.type \in EventTypes /\ (e.type = "product.listed" => role = "buyer")
    <3>1. \/ role = "buyer" /\ \E o : Commit(Event("product.listed", o, "seller"))
          \/ \E o : Commit(Event("cart.checkout", o, "buyer")) \/ Commit(Event("order.confirmed", o, "seller"))
          \/ \E o : \/ Commit(Event("shipment.picked", o, "other"))
                    \/ Commit(Event("shipment.delivered", o, "other"))
      BY <1>1 DEF Others, ListProduct, Place, Confirm, Pick, Deliver
    <3>. QED  BY <3>1, EventShape DEF EventTypes
  <2>2. UNCHANGED <<role, missed, loadVars, addingProduct>>
    BY <1>1 DEF Others
  <2>. QED  BY <1>a, <1>b, <2>1, <2>2, CommitOwed DEF SInv, RoleOK
<1>2. CASE Serves
  <2>1. UNCHANGED <<role, missed, loadVars>>
    BY <1>2 DEF Serves
  <2>2. \/ UNCHANGED <<version, wire, addingProduct>>
        \/ \E e : /\ Commit(e) /\ e.type \in EventTypes
                  /\ addingProduct.phase = "done" => addingProduct'.phase = "done"
                  /\ e.type = "product.listed" => addingProduct'.phase = "done"
    <3>1. CASE ServeBuyer /\ UNCHANGED <<sellerVars, shipperVars>>
      <4>1. UNCHANGED <<version, wire>> \/ \E o : Commit(Event("cart.checkout", o, "buyer"))
        BY <3>1 DEF ServeBuyer, Place
      <4>. QED  BY <3>1, <4>1, EventShape DEF EventTypes
    <3>2. CASE ServeSeller
      <4>1. \/ UNCHANGED addingProduct /\ \E o : Commit(Event("order.confirmed", o, "seller"))
            \/ addingProduct' = [addingProduct EXCEPT !.phase = "done"] /\ addingProduct.phase = "sent"
                 /\ \E o : Commit(Event("product.listed", o, "seller"))
        BY <3>2 DEF ServeSeller, ListProduct, Confirm
      <4>2. addingProduct' = [addingProduct EXCEPT !.phase = "done"] /\ addingProduct.phase = "sent"
              => addingProduct'.phase = "done"
        BY DEF SInv, Post
      <4>. QED  BY <4>1, <4>2, EventShape DEF EventTypes
    <3>3. CASE ServeShipper /\ UNCHANGED <<buyerVars, sellerVars>>
      <4>1. \E o : Commit(Event("shipment.picked", o, Us)) \/ Commit(Event("shipment.delivered", o, Us))
        BY <3>3 DEF ServeShipper, Pick, Deliver
      <4>. QED  BY <3>3, <4>1, EventShape DEF EventTypes
    <3>. QED  BY <1>2, <3>1, <3>2, <3>3 DEF Serves
  <2>3. CASE UNCHANGED <<version, wire, addingProduct>>
    <3>1. \A e : Reloads(e)' = Reloads(e)
      BY <1>b, ReloadsStay
    <3>. QED  BY <1>a, <1>b, <2>1, <2>3, <3>1 DEF SInv, RoleOK, Owed, Pending, loadVars, IsLatest
  <2>. QED  BY <1>a, <1>b, <2>1, <2>2, <2>3, CommitOwed DEF SInv, RoleOK
<1>3. ASSUME NEW e \in wire, Lost(e)
      PROVE  SInv'
  BY <1>3, <1>a, <1>b, NotedOwed DEF Lost, SInv, RoleOK
<1>4. ASSUME NEW es \in SUBSET wire, NEW e \in es, Render(es, e)
      PROVE  SInv'
  <2>1. Newest(es, e) \subseteq Lists
    BY ReloadedLists DEF Newest, Reloads, SInv, RoleOK
  <2>2. /\ UNCHANGED <<version, addingProduct>> /\ wire' \subseteq wire /\ wire \ wire' \subseteq es
        /\ UNCHANGED loadVars \/ \E ls \in SUBSET Lists : Load(ls)
        /\ Note(UNION {Reloads(x) : x \in es}, "skipped")
    BY <1>4, <2>1 DEF Render
  <2>. QED  BY <1>a, <1>b, <2>2, NotedOwed DEF SInv, RoleOK
<1>5. CASE User
  <2>1. UNCHANGED refreshVars /\ UNCHANGED <<wire, missed>>
    BY <1>5, UserStep DEF User
  <2>2. addingProduct.phase # "done" \/ addingProduct' = addingProduct
    BY <1>5 DEF User, AddProduct, ConfirmOrder, Idle, NoPost
  <2>3. \A e : Reloads(e)' = Reloads(e)
    BY <1>b, ReloadsStay
  <2>. QED  BY <1>a, <1>b, <2>1, <2>2, <2>3 DEF SInv, RoleOK, Owed, Pending, refreshVars, loadVars, IsLatest
<1>7. ASSUME NEW l \in Lists, AnswerOf(l)
      PROVE  SInv'
  <2>1. PICK c \in calls : (\E q \in Parts : Serve(c, q)) \/ HeadsArrive(c) \/ BodiesArrive(c) \/ Fails(c)
    BY <1>7 DEF AnswerOf
  <2>2. UNCHANGED <<role, version, wire, missed, addingProduct>>
    BY <1>7 DEF AnswerOf
  <2>3. latest' = latest
    BY <2>1 DEF Serve, HeadsArrive, BodiesArrive, Fails
  <2>4. ASSUME NEW m \in Lists, latest'[m] > 0, missed'[m] = "no", NEW p \in PartsOf[m]
        PROVE  Pending(m, p)'
    <3>1. Pending(m, p)
      BY <2>2, <2>3, <2>4 DEF SInv, Owed
    <3>. QED  BY <1>a, <2>1, <2>2, <3>1, AnswerPending
  <2>. QED  BY <1>a, <1>b, <2>4 DEF SInv, RoleOK, Owed
<1>8. CASE Tick \/ UNCHANGED vars
  <2>1. UNCHANGED <<refreshVars, wire, missed, addingProduct>>
    BY <1>8 DEF Tick, vars, refreshVars
  <2>2. \A e : Reloads(e)' = Reloads(e)
    BY <1>b, ReloadsStay
  <2>. QED  BY <1>a, <1>b, <2>1, <2>2 DEF SInv, RoleOK, Owed, Pending, refreshVars, loadVars, IsLatest
<1>6. CASE PostsEnd
  <2>1. CASE ListingEnds
    <3>1. UNCHANGED <<version, wire>> /\ Note(IF addingProduct.phase = "done" THEN {"products"} ELSE {}, "lost")
      BY <2>1 DEF ListingEnds, PostEnds
    <3>2. Load({"products"}) \/ UNCHANGED loadVars
      BY <2>1 DEF ListingEnds, PostEnds, AddProductAnswered, LoadSellerProducts, AddProductFails
    <3>3. {"products"} \in SUBSET Lists
      BY RolesAssumption
    <3>. QED  BY <1>a, <1>b, <3>1, <3>2, <3>3, NotedOwed DEF SInv, RoleOK
  <2>2. CASE ~ ListingEnds
    <3>1. /\ UNCHANGED <<version, wire>> /\ Note({}, "lost")
          /\ addingProduct.phase = "done" => addingProduct'.phase = "done"
      BY <1>6, <2>2 DEF PostsEnd, AddEnds, OrderEnds, GuardEnds, ConfirmEnds, PickingEnds, DeliveringEnds,
            PostEnds, ConfirmAnswered, ConfirmFails
    <3>2. UNCHANGED loadVars \/ \E ls \in SUBSET Lists : Load(ls)
      BY <1>6, PostsLoad
    <3>. QED  BY <1>a, <1>b, <3>1, <3>2, NotedOwed DEF SInv, RoleOK
  <2>. QED  BY <2>1, <2>2
<1>. QED  BY <1>1, <1>2, <1>3, <1>4, <1>5, <1>6, <1>7, <1>8 DEF Next

\* A page just mounted loads all it shows.
LEMMA InitSInv == Init => SInv
<1>. SUFFICES ASSUME Init PROVE SInv
  OBVIOUS
<1>1. RoleOK /\ ListsOf(role) \subseteq Lists /\ InitRefresh(ListsOf(role))
  BY RolesAssumption DEF Init, RoleOK, ListsOf
<1>2. RefreshInv
  BY <1>1, InitInv
<1>3. Post(addingProduct)
  BY DEF Init, InitSeller, Post, NoPost
<1>4. ASSUME NEW l \in Lists, latest[l] > 0, NEW p \in PartsOf[l]
      PROVE  Pending(l, p)
  <2>1. l \in ListsOf(role) /\ p \in Parts /\ latest[l] = 1
    BY <1>1, <1>4, PartFacts DEF InitRefresh
  <2>2. Started(l, 1) \in calls
    BY <1>1, <2>1 DEF InitRefresh
  <2>3. Started(l, 1).list = l /\ Started(l, 1).gen = 1 /\ Started(l, 1).read[p] = 0
    BY <2>1 DEF Started
  <2>. QED  BY <2>1, <2>2, <2>3 DEF Pending, IsLatest
<1>. QED  BY <1>1, <1>2, <1>3, <1>4 DEF SInv, Owed

\* Whatever order messages and answers come in, and whatever is lost: a list
\* with nothing under way, no banner and no message missed is the server's
\* (the effects of the three pages and loadLatestShipperSnapshot).
THEOREM SettledAlwaysCurrent == Spec => []SettledCurrent
<1>1. SInv => SettledCurrent
  <2>. SUFFICES ASSUME SInv, NEW l \in Lists, Loaded(l), missed[l] = "no", NEW p \in PartsOf[l]
                PROVE  shown[p] = version[p]
    BY DEF SettledCurrent, Current
  <2>. QED  BY DEF SInv, Owed, Pending, Loaded
<1>. QED  BY <1>1, InitSInv, NextSInv, PTL DEF Spec

-----------------------------------------------------------------------------
(* The buyer's cart: one checkout at a time, of the cart as it is, but for *)
(* what is added while it is under way.                                    *)

CheckoutPost == [cart : {cartId}, items : [Products -> Nat], phase : {"sent", "done"}, order : Orders \cup {0}]

BInv ==
  /\ cart \in [Products -> Nat] /\ cartId \in Nat
  /\ Post(addingToCart)
  /\ addingToCart.phase = "done" \/ addingToCart.phase = "sent" => addingToCart.arg \in Products
  /\ checkouts \subseteq CheckoutPost
  /\ \A j, k \in checkouts : j = k
  /\ checkingOut <=> checkouts # {} \/ waits # {}
  /\ checkouts = {} \/ waits = {}
  /\ late \in [Products -> Nat]
  /\ \A k \in checkouts, p \in Products : OrderedOrLate(k, p)
  /\ placed \subseteq [cart : Nat, order : Orders]
  /\ \A x \in placed :
       x.cart < cartId \/ \E k \in checkouts : k.phase = "done" /\ k.cart = x.cart /\ k.order = x.order
  /\ OneOrderPerCart

\* No cart was sent and none is being sent.
LEMMA InitBInv == Init => BInv
  BY DEF Init, InitBuyer, BInv, Post, NoPost, Empty, OneOrderPerCart

\* The server's answers to the buyer.
LEMMA ServeBuyerBInv ==
  ASSUME BInv, ServeBuyer
  PROVE  BInv'
<1>1. CASE /\ addingToCart.phase = "sent"
           /\ addingToCart' = [addingToCart EXCEPT !.phase = "done"]
           /\ UNCHANGED <<serverVars, placed, wire, cart, cartId, checkingOut, checkouts, waits, late>>
  <2>1. Post(addingToCart)' /\ addingToCart'.arg = addingToCart.arg
    BY <1>1 DEF BInv, Post
  <2>. QED  BY <1>1, <2>1 DEF BInv, OrderedOrLate, CheckoutPost, OneOrderPerCart
<1>2. ASSUME NEW k \in checkouts, NEW o \in Orders, k.phase = "sent",
             checkouts' = (checkouts \ {k}) \cup {[k EXCEPT !.phase = "done", !.order = o]},
             placed' = placed \cup {[cart |-> k.cart, order |-> o]},
             UNCHANGED <<cart, cartId, addingToCart, checkingOut, waits, late>>
      PROVE  BInv'
  <2>1. PICK d : d = [k EXCEPT !.phase = "done", !.order = o]
    OBVIOUS
  <2>2. k \in CheckoutPost /\ k.cart = cartId
    BY DEF BInv, CheckoutPost
  <2>3. /\ d = [cart |-> k.cart, items |-> k.items, phase |-> "done", order |-> o]
        /\ d.cart = k.cart /\ d.items = k.items /\ d.phase = "done" /\ d.order = o
    BY <2>1, <2>2 DEF CheckoutPost
  <2>4. checkouts' = {d} /\ checkouts = {k}
    BY <1>2, <2>1 DEF BInv
  <2>5. d \in CheckoutPost'
    BY <1>2, <2>2, <2>3 DEF CheckoutPost
  <2>6. \A x \in placed : x.cart < cartId
    BY <1>2, <2>4 DEF BInv
  <2>7. cartId \in Nat /\ placed \subseteq [cart : Nat, order : Orders]
    BY DEF BInv
  <2>8. PICK y : y = [cart |-> k.cart, order |-> o]
    OBVIOUS
  <2>9. y.cart = cartId /\ y.order = o /\ y \in [cart : Nat, order : Orders] /\ placed' = placed \cup {y}
    BY <1>2, <2>2, <2>7, <2>8
  <2>10. OneOrderPerCart'
    BY <2>6, <2>7, <2>9 DEF BInv, OneOrderPerCart
  <2>11. \A x \in placed' :
           x.cart < cartId' \/ \E j \in checkouts' : j.phase = "done" /\ j.cart = x.cart /\ j.order = x.order
    BY <1>2, <2>2, <2>3, <2>4, <2>6, <2>9
  <2>12. \A j \in checkouts', p \in Products : OrderedOrLate(j, p)'
    BY <1>2, <2>3, <2>4 DEF BInv, OrderedOrLate
  <2>13. /\ checkouts' \subseteq CheckoutPost' /\ \A i, j \in checkouts' : i = j
         /\ placed' \subseteq [cart : Nat, order : Orders]
    BY <2>4, <2>5, <2>7, <2>9
  <2>. QED  BY <1>2, <2>10, <2>11, <2>12, <2>13 DEF BInv
<1>. QED  BY <1>1, <1>2 DEF ServeBuyer

\* What the buyer does.
LEMMA BuyerUserBInv ==
  ASSUME BInv, BuyerUser, UNCHANGED placed
  PROVE  BInv'
<1>1. ASSUME NEW p \in Products, AddToCart(p)
      PROVE  BInv'
  BY <1>1 DEF AddToCart, BInv, OrderedOrLate, CheckoutPost, OneOrderPerCart, Sent, Post
<1>2. ASSUME NEW p \in Products, RemoveItem(p)
      PROVE  BInv'
  <2>1. /\ cart' \in [Products -> Nat] /\ late' \in [Products -> Nat]
        /\ \A q \in Products : IF q = p THEN cart'[q] = 0 /\ late'[q] = 0
                               ELSE cart'[q] = cart[q] /\ late'[q] = late[q]
    BY <1>2 DEF RemoveItem, BInv
  <2>2. \A k \in checkouts, q \in Products : OrderedOrLate(k, q)'
    BY <1>2, <2>1 DEF RemoveItem, BInv, OrderedOrLate
  <2>. QED  BY <1>2, <2>1, <2>2 DEF RemoveItem, BInv, CheckoutPost, OneOrderPerCart
<1>3. CASE Checkout
  <2>1. checkouts = {} /\ waits = {}
    BY <1>3 DEF Checkout, MayCheckout, BInv
  <2>2. PICK d : d = [cart |-> cartId, items |-> cart, phase |-> "sent", order |-> 0]
    OBVIOUS
  <2>3. checkouts' = {d} /\ d \in CheckoutPost' /\ d.items = cart
    BY <1>3, <2>1, <2>2 DEF Checkout, OrderOf, CheckoutPost, BInv
  <2>4. \A x \in placed : x.cart < cartId
    BY <2>1 DEF BInv
  <2>5. late' \in [Products -> Nat] /\ \A k \in checkouts', p \in Products : OrderedOrLate(k, p)'
    BY <1>3, <2>3 DEF Checkout, BInv, Empty, OrderedOrLate
  <2>. QED  BY <1>3, <2>1, <2>3, <2>4, <2>5 DEF Checkout, BInv, OneOrderPerCart
<1>. QED  BY <1>1, <1>2, <1>3 DEF BuyerUser

\* The end of the buyer's calls.
LEMMA BuyerPostsBInv ==
  ASSUME BInv, AddEnds \/ OrderEnds \/ GuardEnds
  PROVE  BInv'
<1>1. CASE AddEnds
  <2>1. CASE AddAnswered
    <3>1. addingToCart.arg \in Products
      BY <2>1 DEF AddAnswered, BInv
    <3>2. cart' \in [Products -> Nat] /\ late' \in [Products -> Nat]
      BY <2>1, <3>1 DEF AddAnswered, BInv
    <3>3. ASSUME NEW k \in checkouts, NEW q \in Products
          PROVE  OrderedOrLate(k, q)'
      <4>1. /\ late' = [late EXCEPT ![addingToCart.arg] = @ + 1]
            /\ cart' = [cart EXCEPT ![addingToCart.arg] = @ + 1]
        BY <2>1 DEF AddAnswered
      <4>2. cart[q] \in Nat /\ late[q] \in Nat /\ k.items[q] \in Nat /\ OrderedOrLate(k, q)
        BY DEF BInv, CheckoutPost
      <4>3. CASE q = addingToCart.arg
        <5>1. cart'[q] = cart[q] + 1 /\ late'[q] = late[q] + 1
          BY <3>1, <4>1, <4>3 DEF BInv
        <5>. QED  BY <4>2, <5>1 DEF OrderedOrLate
      <4>4. CASE q # addingToCart.arg
        <5>1. cart'[q] = cart[q] /\ late'[q] = late[q]
          BY <4>1, <4>4 DEF BInv
        <5>. QED  BY <4>2, <5>1 DEF OrderedOrLate
      <4>. QED  BY <4>3, <4>4
    <3>. QED  BY <1>1, <2>1, <3>2, <3>3
              DEF AddEnds, PostEnds, AddAnswered, BInv, CheckoutPost, OneOrderPerCart, Post, NoPost
  <2>2. CASE AddFails
    BY <1>1, <2>2 DEF AddEnds, PostEnds, AddFails, BInv, OrderedOrLate, CheckoutPost, OneOrderPerCart, Post,
                      NoPost
  <2>. QED  BY <1>1, <2>1, <2>2 DEF AddEnds, PostEnds
<1>2. CASE OrderEnds
  <2>1. PICK k \in checkouts :
          \/ CheckoutAnswered(k) /\ UNCHANGED placed
          \/ CheckoutFails(k) /\ placed' = placed \ {[cart |-> k.cart, order |-> k.order]}
    BY <1>2 DEF OrderEnds
  <2>2. checkouts' = {} /\ checkouts = {k} /\ k.cart = cartId
    BY <2>1 DEF CheckoutAnswered, CheckoutFails, BInv, CheckoutPost
  <2>3. CASE CheckoutAnswered(k) /\ UNCHANGED placed
    <3>1. \A x \in placed : x.cart < cartId'
      BY <2>2, <2>3 DEF CheckoutAnswered, BInv
    <3>2. waits' # {}
      BY <2>3 DEF CheckoutAnswered
    <3>3. checkingOut' /\ late' = Empty /\ cart' = Empty /\ cartId' = cartId + 1 /\ UNCHANGED addingToCart
      BY <2>2, <2>3 DEF CheckoutAnswered, BInv
    <3>. QED  BY <2>2, <2>3, <3>1, <3>2, <3>3 DEF BInv, Empty, OneOrderPerCart
  <2>4. CASE CheckoutFails(k) /\ placed' = placed \ {[cart |-> k.cart, order |-> k.order]}
    <3>1. \A x \in placed' : x.cart < cartId
      BY <2>2, <2>4 DEF BInv
    <3>. QED  BY <2>2, <2>4, <3>1 DEF CheckoutFails, Empty, BInv, OneOrderPerCart
  <2>. QED  BY <2>1, <2>3, <2>4
<1>3. CASE GuardEnds
  BY <1>3 DEF GuardEnds, PostEnds, CheckoutEnds, BInv, OrderedOrLate, CheckoutPost, OneOrderPerCart
<1>. QED  BY <1>1, <1>2, <1>3

\* Every step keeps a cart with its one order.
LEMMA NextBInv == BInv /\ [Next]_vars => BInv'
<1>. SUFFICES ASSUME BInv, [Next]_vars PROVE BInv'
  OBVIOUS
<1>. USE DEF pageVars
<1>1. CASE UNCHANGED <<buyerVars, placed>>
  BY <1>1 DEF buyerVars, BInv, OrderedOrLate, CheckoutPost, OneOrderPerCart, Post
<1>2. CASE ServeBuyer
  BY <1>2, ServeBuyerBInv
<1>3. CASE BuyerUser /\ UNCHANGED placed
  BY <1>3, BuyerUserBInv
<1>4. CASE AddEnds \/ OrderEnds \/ GuardEnds
  BY <1>4, BuyerPostsBInv
<1>5. \/ UNCHANGED <<buyerVars, placed>> \/ ServeBuyer
      \/ (BuyerUser /\ UNCHANGED placed)
      \/ AddEnds \/ OrderEnds \/ GuardEnds
  <2>1. Others => UNCHANGED <<buyerVars, placed>>
    BY DEF Others
  <2>2. Serves => ServeBuyer \/ UNCHANGED <<buyerVars, placed>>
    BY DEF Serves, ServeSeller, ServeShipper
  <2>3. (\E e \in wire : Lost(e)) \/ (\E es \in SUBSET wire : \E e \in es : Render(es, e))
          => UNCHANGED <<buyerVars, placed>>
    BY DEF Lost, Render
  <2>4. User => (BuyerUser /\ UNCHANGED placed) \/ UNCHANGED <<buyerVars, placed>>
    BY DEF User
  <2>5. ListingEnds \/ ConfirmEnds \/ PickingEnds \/ DeliveringEnds => UNCHANGED <<buyerVars, placed>>
    BY DEF ListingEnds, ConfirmEnds, PickingEnds, DeliveringEnds, PostEnds
  <2>6. (\E l \in Lists : AnswerOf(l)) \/ Tick \/ UNCHANGED vars => UNCHANGED <<buyerVars, placed>>
    BY DEF AnswerOf, Tick, vars
  <2>. QED  BY <2>1, <2>2, <2>3, <2>4, <2>5, <2>6 DEF Next, PostsEnd
<1>. QED  BY <1>1, <1>2, <1>3, <1>4, <1>5

\* However often the buyer clicks and whatever answer is lost, no cart becomes
\* two orders but by a retry after a lost answer (handleCheckout).
THEOREM AlwaysOneOrderPerCart == Spec => []OneOrderPerCart
<1>1. BInv => OneOrderPerCart
  BY DEF BInv
<1>. QED  BY <1>1, InitBInv, NextBInv, PTL DEF Spec

\* Place order stays disabled exactly as long as its checkout is on its way or
\* the loads after it are awaited: no path through handleCheckout gives the
\* guard back early or keeps it.
GuardHeld ==
  /\ checkingOut <=> checkouts # {} \/ waits # {}
  /\ checkouts = {} \/ waits = {}
  /\ \A w \in waits : w.gen <= latest[w.list]

\* Loads are counted up, and a checkout waits for the ones it just started.
LEMMA NextWaits ==
  ASSUME RefreshInv, RoleOK, [Next]_vars, waits \subseteq [list : Lists, gen : Nat],
         \A w \in waits : w.gen <= latest[w.list]
  PROVE  /\ waits' \subseteq [list : Lists, gen : Nat]
         /\ \A w \in waits' : w.gen <= latest'[w.list]
<1>1. [NextRefresh]_refreshVars
  BY PageStep DEF RoleOK
<1>2. RefreshInv' /\ latest' \in [Lists -> Nat]
  BY <1>1, StepInv DEF RefreshInv, RefreshTypeOK
<1>3. \A l \in Lists : latest'[l] >= latest[l]
  <2>1. ASSUME NEW ls \in SUBSET Lists, Load(ls)
        PROVE  \A l \in Lists : latest'[l] >= latest[l]
    BY <2>1 DEF Load, RefreshInv, RefreshTypeOK
  <2>2. \A l \in Lists : latest[l] >= latest[l]
    BY DEF RefreshInv, RefreshTypeOK
  <2>3. latest' = latest \/ \E ls \in SUBSET Lists : Load(ls)
    BY <1>1 DEF NextRefresh, refreshVars, Answer, Serve, HeadsArrive, BodiesArrive, Fails, loadVars
  <2>. QED  BY <2>1, <2>2, <2>3
<1>4. waits' \subseteq waits \/ \E k \in checkouts : CheckoutAnswered(k)
  BY DEF Next, vars, pageVars, buyerVars, Others, Serves, ServeBuyer, ServeSeller, ServeShipper, Lost, Render,
         User, BuyerUser, AddToCart, RemoveItem, Checkout, PostsEnd, AddEnds, AddAnswered, AddFails, OrderEnds,
         CheckoutFails, GuardEnds, CheckoutEnds, ListingEnds, ConfirmEnds, PickingEnds, DeliveringEnds,
         PostEnds, AnswerOf, Tick
<1>5. CASE waits' \subseteq waits
  <2>. SUFFICES ASSUME NEW w \in waits'
                PROVE  w \in [list : Lists, gen : Nat] /\ w.gen <= latest'[w.list]
    OBVIOUS
  <2>1. w \in [list : Lists, gen : Nat] /\ w.gen <= latest[w.list]
    BY <1>5
  <2>2. w.list \in Lists /\ w.gen \in Nat /\ latest[w.list] \in Nat /\ latest'[w.list] \in Nat
    BY <1>2, <2>1 DEF RefreshInv, RefreshTypeOK
  <2>. QED  BY <1>3, <2>1, <2>2
<1>6. ASSUME NEW k \in checkouts, CheckoutAnswered(k)
      PROVE  /\ waits' \subseteq [list : Lists, gen : Nat]
             /\ \A w \in waits' : w.gen <= latest'[w.list]
  <2>. SUFFICES ASSUME NEW l \in {"orders", "products"}, NEW w \in waits', w = [list |-> l, gen |-> latest'[l]]
                PROVE  w \in [list : Lists, gen : Nat] /\ w.gen <= latest'[w.list]
    BY <1>6 DEF CheckoutAnswered
  <2>1. l \in Lists /\ latest'[l] \in Nat
    BY <1>2, RolesAssumption
  <2>. QED  BY <2>1
<1>. QED  BY <1>4, <1>5, <1>6

\* The guard of the checkout is held for as long as there is something to wait
\* for, and the loads awaited are ones that were started (handleCheckout).
THEOREM AlwaysGuardHeld == Spec => []GuardHeld
<1>. DEFINE WInv == /\ waits \subseteq [list : Lists, gen : Nat]
                    /\ \A w \in waits : w.gen <= latest[w.list]
<1>1. Init => BInv /\ RefreshInv /\ RoleOK /\ WInv
  <2>1. Init => BInv
    BY InitBInv
  <2>2. Init => RefreshInv /\ RoleOK
    BY InitSInv DEF SInv
  <2>. QED  BY <2>1, <2>2 DEF Init, InitBuyer
<1>2. BInv /\ RefreshInv /\ RoleOK /\ WInv /\ [Next]_vars
        => BInv' /\ RefreshInv' /\ RoleOK' /\ WInv'
  <2>. SUFFICES ASSUME BInv, RefreshInv, RoleOK, WInv, [Next]_vars
                PROVE  BInv' /\ RefreshInv' /\ RoleOK' /\ WInv'
    OBVIOUS
  <2>1. BInv'
    BY NextBInv
  <2>2. [NextRefresh]_refreshVars /\ UNCHANGED role
    BY PageStep DEF RoleOK, Next, vars, Others, Serves, Lost, Render, User, PostsEnd, AddEnds, OrderEnds,
                    GuardEnds, ListingEnds, ConfirmEnds, PickingEnds, DeliveringEnds, PostEnds, AnswerOf, Tick
  <2>3. RefreshInv' /\ RoleOK'
    BY <2>2, StepInv DEF RoleOK
  <2>4. WInv'
    BY NextWaits
  <2>. QED  BY <2>1, <2>3, <2>4
<1>3. BInv /\ WInv => GuardHeld
  BY DEF BInv, GuardHeld
<1>. QED  BY <1>1, <1>2, <1>3, PTL DEF Spec

\* One step takes nothing from the cart but what is removed, ordered, or came
\* while the order was placed.
LEMMA StepCartKept ==
  ASSUME BInv, [Next]_vars, NEW p \in Products, cart'[p] < cart[p]
  PROVE  \/ cart' = [cart EXCEPT ![p] = 0] /\ UNCHANGED <<checkouts, cartId>>
         \/ \E k \in checkouts : k.phase = "done" /\ OrderedOrLate(k, p)
<1>0. cart[p] \in Nat /\ (\A k \in checkouts : k.items[p] \in Nat)
  BY DEF BInv, CheckoutPost
<1>. USE DEF pageVars
<1>1. cart' # cart
  BY <1>0
<1>2. \/ \E q \in Products : RemoveItem(q)
      \/ AddAnswered
      \/ \E k \in checkouts : CheckoutAnswered(k)
  <2>1. ~ (Others \/ (\E e \in wire : Lost(e)) \/ (\E es \in SUBSET wire : \E e \in es : Render(es, e))
           \/ (\E l \in Lists : AnswerOf(l)) \/ Tick \/ UNCHANGED vars)
    BY <1>1 DEF Others, Lost, Render, AnswerOf, Tick, vars, buyerVars
  <2>2. ~ Serves
    BY <1>1 DEF Serves, ServeBuyer, ServeSeller, ServeShipper, buyerVars
  <2>3. User => \E q \in Products : RemoveItem(q)
    BY <1>1 DEF User, BuyerUser, AddToCart, Checkout, buyerVars
  <2>4. PostsEnd => AddAnswered \/ \E k \in checkouts : CheckoutAnswered(k)
    <3>1. AddEnds => AddAnswered
      BY <1>1 DEF AddEnds, PostEnds, AddFails
    <3>2. OrderEnds => \E k \in checkouts : CheckoutAnswered(k)
      BY <1>1 DEF OrderEnds, CheckoutFails
    <3>3. ~ GuardEnds
      BY <1>1 DEF GuardEnds, PostEnds, CheckoutEnds
    <3>4. ~ (ListingEnds \/ ConfirmEnds \/ PickingEnds \/ DeliveringEnds)
      BY <1>1 DEF ListingEnds, ConfirmEnds, PickingEnds, DeliveringEnds, PostEnds, buyerVars
    <3>. QED  BY <3>1, <3>2, <3>3, <3>4 DEF PostsEnd
  <2>. QED  BY <2>1, <2>2, <2>3, <2>4 DEF Next
<1>3. ASSUME NEW q \in Products, RemoveItem(q)
      PROVE  cart' = [cart EXCEPT ![p] = 0] /\ UNCHANGED <<checkouts, cartId>>
  <2>1. q # p => cart'[p] = cart[p]
    BY <1>3 DEF RemoveItem, BInv
  <2>2. q = p
    BY <1>0, <2>1
  <2>. QED  BY <1>3, <2>2 DEF RemoveItem
<1>4. ~ AddAnswered
  <2>. SUFFICES ASSUME AddAnswered PROVE FALSE
    OBVIOUS
  <2>1. addingToCart.arg \in Products /\ cart' = [cart EXCEPT ![addingToCart.arg] = @ + 1]
    BY DEF AddAnswered, BInv
  <2>2. cart'[p] \in {cart[p], cart[p] + 1}
    BY <2>1 DEF BInv
  <2>. QED  BY <1>0, <2>2
<1>5. ASSUME NEW k \in checkouts, CheckoutAnswered(k)
      PROVE  k.phase = "done" /\ OrderedOrLate(k, p)
  BY <1>5 DEF CheckoutAnswered, BInv
<1>. QED  BY <1>2, <1>3, <1>4, <1>5

\* What the server was told of leaves the cart by the buyer's hand or with the
\* order that holds it, but for the units that came while that order was placed
\* (handleCheckout, handleAddToCart, CartSheet).
THEOREM CartAlwaysKept == Spec => CartKept
<1>1. BInv /\ [Next]_vars =>
        [\A p \in Products : cart'[p] < cart[p] =>
           \/ cart' = [cart EXCEPT ![p] = 0] /\ UNCHANGED <<checkouts, cartId>>
           \/ \E k \in checkouts : k.phase = "done" /\ OrderedOrLate(k, p)]_buyerVars
  BY StepCartKept
<1>. QED  BY <1>1, InitBInv, NextBInv, PTL DEF Spec, CartKept

-----------------------------------------------------------------------------
(* Deliveries: an order picked has left the lists it came from, so its     *)
(* time does not change any more.                                          *)

ServerOK ==
  /\ now \in Nat \ {0} /\ role \in PageRoles
  /\ readyAt \in [Orders -> Nat]
  /\ awaiting \subseteq Orders /\ board \subseteq Orders /\ awaiting \cap board = {}
  /\ carrying \in [Shippers -> SUBSET Orders] /\ history \in [Shippers -> SUBSET Orders]
  /\ \A o \in Orders : readyAt[o] # 0 => o \notin awaiting \cup board /\ o \in Server!Placed

PastOK ==
  /\ past \in [Parts -> Seq(SUBSET Orders)]
  /\ \A p \in Parts : Len(past[p]) = version[p]

DeliveringOK ==
  /\ Post(delivering)
  /\ delivering.phase = "sent" =>
       delivering.arg \in Orders /\ readyAt[delivering.arg] # 0 /\ readyAt[delivering.arg] <= now

DInv == ServerOK /\ PastOK /\ DeliveringOK

\* The server has no order and nothing is being delivered.
LEMMA InitDInv == Init => DInv
<1>. SUFFICES ASSUME Init PROVE DInv
  OBVIOUS
<1>1. InitRefresh(ListsOf(role))
  BY DEF Init
<1>2. ServerOK
  BY DEF Init, ServerOK, Server!Init
<1>3. PastOK
  BY <1>1 DEF Init, PastOK, InitRefresh
<1>4. DeliveringOK
  BY DEF Init, InitShipper, DeliveringOK, Post, NoPost
<1>. QED  BY <1>2, <1>3, <1>4 DEF DInv

\* Rounding up, no second is left only when the time has come.
LEMMA ReadyMeansDue ==
  ASSUME NEW r \in Nat, NEW t \in Nat, DeliveryReadiness(r, t) = "ready"
  PROVE  r # 0 /\ r <= t
<1>1. r # 0 /\ ~ (SecondsUntilReady(r, t) > 0)
  BY DEF DeliveryReadiness
<1>2. ASSUME r > t
      PROVE  FALSE
  <2>1. Second \in Nat \ {0} /\ r - t + Second - 1 \in Nat /\ r - t + Second - 1 >= Second
    BY <1>2, SecondAssumption
  <2>2. (r - t + Second - 1) \div Second > 0
    BY <2>1
  <2>. QED  BY <1>1, <1>2, <2>2 DEF SecondsUntilReady
<1>. QED  BY <1>1, <1>2

\* The readiness of orders already picked.
TimesStay == \A q \in Orders : readyAt[q] # 0 => readyAt'[q] = readyAt[q]

\* A placed order has no readiness time yet.
LEMMA PlaceOK ==
  ASSUME ServerOK, NEW o \in Orders, Place(o), UNCHANGED <<now, role>>
  PROVE  ServerOK' /\ TimesStay
  BY DEF ServerOK, Place, Server!Place, Server!Placed, TimesStay

\* Nor has a confirmed one.
LEMMA ConfirmOK ==
  ASSUME ServerOK, NEW o \in Orders, Confirm(o), UNCHANGED <<now, role>>
  PROVE  ServerOK' /\ TimesStay
  BY DEF ServerOK, Confirm, Server!Confirm, Server!Placed, TimesStay

\* A picked order leaves the board for good with its time drawn.
LEMMA PickOK ==
  ASSUME ServerOK, NEW o \in Orders, NEW s \in Shippers, Pick(o, s), UNCHANGED <<now, role>>
  PROVE  ServerOK' /\ TimesStay
<1>1. /\ o \in board /\ o \notin awaiting /\ readyAt[o] = 0
      /\ board' = board \ {o} /\ awaiting' = awaiting /\ history' = history
      /\ carrying' = [carrying EXCEPT ![s] = @ \cup {o}]
      /\ readyAt' = [readyAt EXCEPT ![o] = now + ReadyDelay]
  BY DEF Pick, Server!Pick, ServerOK
<1>2. readyAt' \in [Orders -> Nat] /\ carrying' \in [Shippers -> SUBSET Orders]
  BY <1>1, RolesAssumption DEF ServerOK
<1>3. \A q \in Orders : q # o => readyAt'[q] = readyAt[q]
  BY <1>1 DEF ServerOK
<1>4. TimesStay
  BY <1>1, <1>3 DEF TimesStay
<1>5. o \in carrying'[s] /\ \A t \in Shippers : carrying[t] \subseteq carrying'[t]
  BY <1>1 DEF ServerOK
<1>6. Server!Placed \subseteq Server!Placed'
  BY <1>1, <1>5 DEF Server!Placed
<1>7. o \in Server!Placed'
  BY <1>5 DEF Server!Placed
<1>8. \A q \in Orders : readyAt'[q] # 0 => q \notin awaiting' \cup board' /\ q \in Server!Placed'
  BY <1>1, <1>3, <1>6, <1>7 DEF ServerOK
<1>. QED  BY <1>1, <1>2, <1>4, <1>8 DEF ServerOK

\* A delivery keeps the order's time.
LEMMA DeliverOK ==
  ASSUME ServerOK, NEW o \in Orders, NEW s \in Shippers, Deliver(o, s), UNCHANGED <<now, role>>
  PROVE  ServerOK' /\ TimesStay
<1>1. /\ o \in carrying[s] /\ awaiting' = awaiting /\ board' = board /\ readyAt' = readyAt
      /\ carrying' = [carrying EXCEPT ![s] = @ \ {o}]
      /\ history' = [history EXCEPT ![s] = @ \cup {o}]
  BY DEF Deliver, Server!Deliver
<1>2. carrying' \in [Shippers -> SUBSET Orders] /\ history' \in [Shippers -> SUBSET Orders]
  BY <1>1 DEF ServerOK
<1>3. \A t \in Shippers : carrying[t] \cup history[t] \subseteq carrying'[t] \cup history'[t]
  BY <1>1 DEF ServerOK
<1>4. Server!Placed \subseteq Server!Placed'
  <2>. SUFFICES ASSUME NEW q \in Server!Placed PROVE q \in Server!Placed'
    OBVIOUS
  <2>1. CASE q \in awaiting \cup board
    BY <1>1, <2>1 DEF Server!Placed
  <2>2. ASSUME NEW t \in Shippers, q \in carrying[t] \cup history[t]
        PROVE  q \in Server!Placed'
    <3>1. q \in carrying'[t] \/ q \in history'[t]
      BY <1>3, <2>2
    <3>. QED  BY <3>1 DEF Server!Placed
  <2>. QED  BY <2>1, <2>2 DEF Server!Placed
<1>. QED  BY <1>1, <1>2, <1>4 DEF ServerOK, TimesStay

\* A commit records what is in the parts it changes.
LEMMA CommitPast ==
  ASSUME PastOK, RefreshInv, ServerOK', NEW e, Commit(e)
  PROVE  PastOK'
<1>. SUFFICES ASSUME NEW p \in Parts
              PROVE  past'[p] \in Seq(SUBSET Orders) /\ Len(past'[p]) = version'[p]
  BY DEF PastOK, Commit
<1>1. Content(p)' \in SUBSET Orders
  <2>1. awaiting' \in SUBSET Orders /\ board' \in SUBSET Orders /\ carrying'[Us] \in SUBSET Orders
    BY DEF ServerOK, Us, Shippers
  <2>2. CASE p = "orders"
    BY <2>1, <2>2 DEF Content
  <2>3. CASE p = "jobs"
    BY <2>1, <2>3 DEF Content
  <2>4. CASE p = "deliveries"
    BY <2>1, <2>4 DEF Content
  <2>5. CASE p = "products"
    <3>1. Content(p)' = {}
      BY <2>5 DEF Content
    <3>. QED  BY <3>1
  <2>. QED  BY <2>2, <2>3, <2>4, <2>5, RolesAssumption
<1>2. past[p] \in Seq(SUBSET Orders) /\ Len(past[p]) = version[p] /\ version[p] \in Nat
  BY DEF PastOK, RefreshInv, RefreshTypeOK
<1>3. CASE p \in About(e) \cap PartsHere
  <2>1. past'[p] = Append(past[p], Content(p)') /\ version'[p] = version[p] + 1
    BY <1>3 DEF Commit, Change
  <2>. QED  BY <1>1, <1>2, <2>1
<1>4. CASE p \notin About(e) \cap PartsHere
  BY <1>2, <1>4 DEF Commit, Change
<1>. QED  BY <1>3, <1>4

\* The server moves an order, or lists a product, or does nothing.
LEMMA ServerStep ==
  ASSUME ServerOK, PastOK, RefreshInv, Others \/ Serves
  PROVE  ServerOK' /\ PastOK' /\ TimesStay
<1>1. UNCHANGED <<now, role>>
  BY DEF Others, Serves
<1>2. \/ \E o \in Orders : Place(o) \/ Confirm(o) \/ \E s \in Shippers : Pick(o, s) \/ Deliver(o, s)
      \/ ListProduct
      \/ UNCHANGED serverVars
  <2>1. CASE Others
    <3>1. Moved[role] \subseteq Orders
      BY RolesAssumption DEF ServerOK
    <3>2. "other" \in Shippers
      BY DEF Shippers
    <3>. QED  BY <2>1, <3>1, <3>2 DEF Others
  <2>2. CASE Serves
    <3>1. CASE ServeBuyer
      BY <3>1 DEF ServeBuyer
    <3>2. CASE ServeSeller
      <4>1. Confirm(confirming.arg) => confirming.arg \in Orders
        BY DEF Confirm, Server!Confirm, ServerOK
      <4>. QED  BY <3>2, <4>1 DEF ServeSeller
    <3>3. CASE ServeShipper
      <4>1. Us \in Shippers
        BY DEF Shippers
      <4>2. Pick(picking.arg, Us) => picking.arg \in Orders
        BY DEF Pick, Server!Pick, ServerOK
      <4>3. Deliver(delivering.arg, Us) => delivering.arg \in Orders
        BY <4>1 DEF Deliver, Server!Deliver, ServerOK
      <4>. QED  BY <3>3, <4>1, <4>2, <4>3 DEF ServeShipper
    <3>. QED  BY <2>2, <3>1, <3>2, <3>3 DEF Serves
  <2>. QED  BY <2>1, <2>2
<1>3. CASE UNCHANGED serverVars
  BY <1>1, <1>3 DEF serverVars, ServerOK, PastOK, TimesStay, Server!Placed
<1>4. CASE ListProduct
  <2>1. ServerOK' /\ TimesStay
    BY <1>1, <1>4 DEF ListProduct, ServerOK, TimesStay, Server!Placed
  <2>. QED  BY <1>4, <2>1, CommitPast DEF ListProduct
<1>5. ASSUME NEW o \in Orders, Place(o) \/ Confirm(o) \/ \E s \in Shippers : Pick(o, s) \/ Deliver(o, s)
      PROVE  ServerOK' /\ PastOK' /\ TimesStay
  <2>1. ServerOK' /\ TimesStay
    BY <1>1, <1>5, PlaceOK, ConfirmOK, PickOK, DeliverOK
  <2>2. \E e : Commit(e)
    BY <1>5 DEF Place, Confirm, Pick, Deliver
  <2>. QED  BY <2>1, <2>2, CommitPast
<1>. QED  BY <1>2, <1>3, <1>4, <1>5

\* What the page shows of its deliveries was true once.
LEMMA OnScreenOrders ==
  ASSUME PastOK, RefreshInv, NEW p \in Parts
  PROVE  OnScreen(p) \subseteq Orders
<1>1. shown[p] \in Nat /\ shown[p] <= version[p] /\ version[p] = Len(past[p]) /\ past[p] \in Seq(SUBSET Orders)
  BY DEF PastOK, RefreshInv, RefreshTypeOK
<1>2. CASE shown[p] # 0
  <2>1. past[p][shown[p]] \in SUBSET Orders
    BY <1>1, <1>2
  <2>. QED  BY <1>2, <2>1 DEF OnScreen
<1>. QED  BY <1>2 DEF OnScreen

\* The POST of a delivery holds an order whose time had come when it was sent.
LEMMA DeliveringStep ==
  ASSUME DInv, RefreshInv, [Next]_vars, TimesStay, now' \in Nat, now' >= now
  PROVE  DeliveringOK'
<1>. USE DEF pageVars
<1>1. \/ UNCHANGED delivering
      \/ delivering' = [delivering EXCEPT !.phase = "done"] \/ delivering' = NoPost
      \/ \E o \in OnScreen("deliveries") : DeliverJob(o, readyAt[o], now)
  <2>1. Others \/ (\E e \in wire : Lost(e)) \/ (\E es \in SUBSET wire : \E e \in es : Render(es, e))
           \/ (\E l \in Lists : AnswerOf(l)) \/ Tick \/ UNCHANGED vars => UNCHANGED delivering
    BY DEF Others, Lost, Render, AnswerOf, Tick, vars, shipperVars
  <2>2. Serves => UNCHANGED delivering \/ delivering' = [delivering EXCEPT !.phase = "done"]
    BY DEF Serves, ServeShipper, shipperVars
  <2>3. User => UNCHANGED delivering \/ \E o \in OnScreen("deliveries") : DeliverJob(o, readyAt[o], now)
    BY DEF User, PickJob, shipperVars
  <2>4. PostsEnd => UNCHANGED delivering \/ delivering' = NoPost
    BY DEF PostsEnd, AddEnds, OrderEnds, GuardEnds, ListingEnds, ConfirmEnds, PickingEnds, DeliveringEnds,
           PostEnds, PickEnds, DeliverEnds, shipperVars
  <2>. QED  BY <2>1, <2>2, <2>3, <2>4 DEF Next
<1>2. now \in Nat /\ readyAt \in [Orders -> Nat]
  BY DEF DInv, ServerOK
<1>3. CASE UNCHANGED delivering
  <2>1. ASSUME delivering.phase = "sent"
        PROVE  /\ delivering.arg \in Orders /\ readyAt'[delivering.arg] = readyAt[delivering.arg]
               /\ readyAt[delivering.arg] # 0 /\ readyAt[delivering.arg] <= now
               /\ readyAt[delivering.arg] \in Nat
    BY <1>2, <2>1 DEF TimesStay, DInv, DeliveringOK
  <2>. QED  BY <1>2, <1>3, <2>1 DEF DInv, DeliveringOK, Post
<1>4. CASE delivering' = [delivering EXCEPT !.phase = "done"] \/ delivering' = NoPost
  BY <1>4 DEF DInv, DeliveringOK, Post, NoPost
<1>5. ASSUME NEW o \in OnScreen("deliveries"), DeliverJob(o, readyAt[o], now)
      PROVE  DeliveringOK'
  <2>1. o \in Orders
    BY OnScreenOrders, RolesAssumption DEF DInv
  <2>2. readyAt[o] \in Nat /\ readyAt[o] # 0 /\ readyAt[o] <= now
    BY <1>2, <1>5, <2>1, ReadyMeansDue DEF DeliverJob
  <2>3. delivering' = [arg |-> o, phase |-> "sent"]
    BY <1>5 DEF DeliverJob, Sent
  <2>4. readyAt'[o] = readyAt[o]
    BY <2>1, <2>2 DEF TimesStay
  <2>. QED  BY <1>2, <2>1, <2>2, <2>3, <2>4 DEF DeliveringOK, Post
<1>. QED  BY <1>1, <1>3, <1>4, <1>5

\* Every step keeps the times drawn, and what is asked to be delivered is due.
LEMMA NextDInv == DInv /\ RefreshInv /\ [Next]_vars => DInv'
<1>. SUFFICES ASSUME DInv, RefreshInv, [Next]_vars PROVE DInv'
  OBVIOUS
<1>1. ServerOK' /\ PastOK' /\ TimesStay /\ now' \in Nat /\ now' >= now
  <2>1. CASE Others \/ Serves
    <3>1. ServerOK' /\ PastOK' /\ TimesStay
      BY <2>1, ServerStep DEF DInv
    <3>. QED  BY <2>1, <3>1 DEF Others, Serves, DInv, ServerOK
  <2>2. CASE ~ (Others \/ Serves)
    <3>1. UNCHANGED <<role, serverVars>>
      BY <2>2 DEF Next, vars, Lost, Render, User, PostsEnd, AddEnds, OrderEnds, GuardEnds, ListingEnds,
            ConfirmEnds, PickingEnds, DeliveringEnds, PostEnds, AnswerOf, Tick
    <3>2. UNCHANGED now \/ now' = now + 1
      BY <2>2 DEF Next, vars, Lost, Render, User, PostsEnd, AddEnds, OrderEnds, GuardEnds, ListingEnds,
            ConfirmEnds, PickingEnds, DeliveringEnds, PostEnds, AnswerOf, Tick
    <3>. QED  BY <3>1, <3>2 DEF serverVars, DInv, ServerOK, PastOK, TimesStay, Server!Placed
  <2>. QED  BY <2>1, <2>2
<1>. QED  BY <1>1, DeliveringStep DEF DInv

\* What a shipper's page offers to deliver, a server with the same clock accepts
\* (deliveryReadiness in lib/deliveries.ts and handleDeliver).
THEOREM AlwaysInTime == Spec => []NeverTooEarly
<1>1. DInv => NeverTooEarly
  BY DEF DInv, DeliveringOK, NeverTooEarly
<1>2. SInv => RefreshInv
  BY DEF SInv
<1>. QED  BY <1>1, <1>2, InitDInv, NextDInv, InitSInv, NextSInv, PTL DEF Spec

=============================================================================
