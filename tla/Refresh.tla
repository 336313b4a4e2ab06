------------------------------ MODULE Refresh ------------------------------
(***************************************************************************)
(* How the role pages keep their lists in step with the server             *)
(* (loadProducts and loadOrders in pages/Buyer.tsx and pages/Seller.tsx,   *)
(* loadShipperState in pages/Shipper.tsx with lib/sellerRefresh.ts and     *)
(* lib/shipperRefresh.ts).  A load is numbered when it starts; whatever    *)
(* comes back counts only while no later load of the same list started.    *)
(* The shipper's list has two parts, read by two calls and shown together. *)
(*                                                                         *)
(* A part's content is abstracted to its version: the server counts up     *)
(* with each change, a call reads the version there is when the server     *)
(* serves it, which may be any time before its answer arrives.             *)
(***************************************************************************)
EXTENDS Integers

CONSTANTS
  Lists,     \* the lists that are loaded
  Parts,     \* the answers they are made of
  PartsOf    \* list -> its parts

ASSUME PartsAssumption ==
  /\ PartsOf \in [Lists -> SUBSET Parts]
  /\ \A l, m \in Lists : l # m => PartsOf[l] \cap PartsOf[m] = {}

VARIABLES
  version,       \* part -> how often the server changed it
  latest,        \* list -> the number of its latest load
  calls,         \* the loads in flight: [list, gen, at, read], at "head" or "body"
                 \*   (of the answers), read: part -> the version served, 0 = not yet
  shown,         \* part -> the version on the screen, 0 = none
  refreshError   \* list -> the banner says that it could not be refreshed

loadVars == <<latest, calls, shown, refreshError>>
refreshVars == <<version, loadVars>>

Call == [list : Lists, gen : Nat, at : {"head", "body"}, read : [Parts -> Nat]]

-----------------------------------------------------------------------------
\* The gen-th load of a list, not served yet.
Started(l, gen) == [list |-> l, gen |-> gen, at |-> "head", read |-> [p \in Parts |-> 0]]

\* The page is mounted and loads these lists for the first time.
InitRefresh(ls) ==
  /\ version = [p \in Parts |-> 1]
  /\ latest = [l \in Lists |-> IF l \in ls THEN 1 ELSE 0]
  /\ calls = {Started(l, 1) : l \in ls}
  /\ shown = [p \in Parts |-> 0]
  /\ refreshError = [l \in Lists |-> FALSE]

\* Start a load of each of these lists.
Load(ls) ==
  /\ latest' = [l \in Lists |-> IF l \in ls THEN latest[l] + 1 ELSE latest[l]]
  /\ calls' = calls \cup {Started(l, latest[l] + 1) : l \in ls}
  /\ UNCHANGED <<shown, refreshError>>

\* Mutant: an answer counts whenever it comes.
IsLatestAlways(c) == TRUE

IsLatest(c) == c.gen = latest[c.list]

\* External: the server serves the call for one part.
Serve(c, p) ==
  /\ c \in calls /\ c.at = "head"
  /\ p \in PartsOf[c.list] /\ c.read[p] = 0
  /\ calls' = (calls \ {c}) \cup {[c EXCEPT !.read[p] = version[p]]}
  /\ UNCHANGED <<latest, shown, refreshError>>

Served(c) == \A p \in PartsOf[c.list] : c.read[p] # 0

\* Every answer's head says ok: go on to the bodies, unless overtaken.
HeadsArrive(c) ==
  /\ c \in calls /\ c.at = "head" /\ Served(c)
  /\ calls' = (calls \ {c}) \cup (IF IsLatest(c) THEN {[c EXCEPT !.at = "body"]} ELSE {})
  /\ UNCHANGED <<latest, shown, refreshError>>

\* The bodies are there: show them and clear the banner, unless overtaken.
BodiesArrive(c) ==
  /\ c \in calls /\ c.at = "body"
  /\ calls' = calls \ {c}
  /\ IF IsLatest(c)
     THEN /\ shown' = [p \in Parts |-> IF p \in PartsOf[c.list] THEN c.read[p] ELSE shown[p]]
          /\ refreshError' = [refreshError EXCEPT ![c.list] = FALSE]
     ELSE UNCHANGED <<shown, refreshError>>
  /\ UNCHANGED latest

\* Mutant: an overtaken load that fails puts up the banner.
FailsLoudly(c) ==
  /\ c \in calls
  /\ calls' = calls \ {c}
  /\ refreshError' = [refreshError EXCEPT ![c.list] = TRUE]
  /\ UNCHANGED <<latest, shown>>

\* A call is refused or lost, or a body is no JSON: say so, unless overtaken.
Fails(c) ==
  /\ c \in calls
  /\ calls' = calls \ {c}
  /\ IF IsLatest(c)
     THEN refreshError' = [refreshError EXCEPT ![c.list] = TRUE]
     ELSE UNCHANGED refreshError
  /\ UNCHANGED <<latest, shown>>

Answer ==
  \E c \in calls :
    \/ \E p \in Parts : Serve(c, p)
    \/ HeadsArrive(c) \/ BodiesArrive(c) \/ Fails(c)

\* External: the server changes these parts.
Change(ps) == version' = [p \in Parts |-> IF p \in ps THEN version[p] + 1 ELSE version[p]]

\* The loads by themselves: any list is loaded, any part changes, at any time.
NextRefresh ==
  \/ \E ls \in SUBSET Lists : Load(ls) /\ UNCHANGED version
  \/ Answer /\ UNCHANGED version
  \/ \E ps \in SUBSET Parts : Change(ps) /\ UNCHANGED loadVars

SpecRefresh ==
  /\ \E ls \in SUBSET Lists : InitRefresh(ls)
  /\ [][NextRefresh]_refreshVars

-----------------------------------------------------------------------------
(* A guard of a page (cartAddingId, confirmingId, pickingId, ...) holds    *)
(* what it is about and how far the POST is that it guards: "sent", then   *)
(* "done" by the server, with the answer on its way.  A POST fails at any  *)
(* time: refused by the server, or it or its answer was lost.              *)

NoPost == [arg |-> "none", phase |-> "none"]
Sent(x) == [arg |-> x, phase |-> "sent"]
Idle(post) == post = NoPost

-----------------------------------------------------------------------------
(* Properties.                                                             *)

RefreshTypeOK ==
  /\ version \in [Parts -> Nat \ {0}]
  /\ latest \in [Lists -> Nat]
  /\ calls \subseteq Call
  /\ shown \in [Parts -> Nat]
  /\ refreshError \in [Lists -> BOOLEAN]

\* The screen never goes back to an older state of the server, whatever the
\* order in which the calls are served, answered and lost.
NeverBack == [][\A p \in Parts : shown'[p] >= shown[p]]_refreshVars

\* The banner of a list comes and goes with the end of its latest load alone:
\* neither an older failure nor an older success has the last word.
BannerHonest ==
  [][\A l \in Lists : refreshError'[l] # refreshError[l] =>
       \E c \in calls \ calls' : c.list = l /\ IsLatest(c)]_refreshVars

=============================================================================
