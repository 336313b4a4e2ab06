----------------------------- MODULE OrderBoard -----------------------------
(***************************************************************************)
(* What the order lists of the demo promise their readers, with no clock,  *)
(* no index and no record: an order is in one place at a time.  It waits   *)
(* for its seller, hangs on the public job board, is carried by the one    *)
(* shipper who took it from the board, and ends in that shipper's history. *)
(* OrderStore is shown to implement this through the lists it serves.      *)
(***************************************************************************)
CONSTANTS
  Orders,     \* ids an order can have
  Shippers    \* the shippers that can take a job

VARIABLES
  awaiting,   \* orders their seller has not confirmed yet
  board,      \* confirmed orders any shipper may take
  carrying,   \* for each shipper, the orders it took and has not delivered
  history     \* for each shipper, the orders it delivered

boardVars == <<awaiting, board, carrying, history>>

\* The orders that are somewhere already.
Placed == awaiting \cup board
            \cup (UNION {carrying[s] : s \in Shippers})
            \cup (UNION {history[s] : s \in Shippers})

Init ==
  /\ awaiting = {}
  /\ board = {}
  /\ carrying = [s \in Shippers |-> {}]
  /\ history = [s \in Shippers |-> {}]

\* A buyer's checkout hands a new order to its seller.
Place(o) ==
  /\ o \notin Placed
  /\ awaiting' = awaiting \cup {o}
  /\ UNCHANGED <<board, carrying, history>>

\* The seller confirms: the order moves to the job board.
Confirm(o) ==
  /\ o \in awaiting
  /\ awaiting' = awaiting \ {o}
  /\ board' = board \cup {o}
  /\ UNCHANGED <<carrying, history>>

\* One shipper takes the job; nobody else can see it on the board any more.
Pick(o, s) ==
  /\ o \in board
  /\ board' = board \ {o}
  /\ carrying' = [carrying EXCEPT ![s] = @ \cup {o}]
  /\ UNCHANGED <<awaiting, history>>

\* The shipper who carries the order delivers it.
Deliver(o, s) ==
  /\ o \in carrying[s]
  /\ carrying' = [carrying EXCEPT ![s] = @ \ {o}]
  /\ history' = [history EXCEPT ![s] = @ \cup {o}]
  /\ UNCHANGED <<awaiting, board>>

Next ==
  \E o \in Orders :
    \/ Place(o)
    \/ Confirm(o)
    \/ \E s \in Shippers : Pick(o, s) \/ Deliver(o, s)

Spec == Init /\ [][Next]_boardVars

=============================================================================
