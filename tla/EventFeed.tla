----------------------------- MODULE EventFeed -----------------------------
(***************************************************************************)
(* The feed of events of the role pages and of the dashboard               *)
(* (lib/eventFeed.ts).                                                     *)
(***************************************************************************)
EXTENDS Integers, Sequences

CONSTANT FeedCap   \* how many events a feed keeps (100 in the code)

ASSUME FeedAssumption == FeedCap \in Nat \ {0}

\* appendUniqueEvent: newest first, each once, no more than the cap.
AppendUnique(es, e) ==
  IF \E i \in DOMAIN es : es[i].id = e.id THEN es
  ELSE SubSeq(<<e>> \o es, 1, IF Len(es) < FeedCap THEN Len(es) + 1 ELSE FeedCap)

=============================================================================
