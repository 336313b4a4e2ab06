-------------------------------- MODULE Hub --------------------------------
(***************************************************************************)
(* The WebSocket hub (app/internal/ws): one goroutine, Run, owns the set   *)
(* of clients and two caches and serves its channels one case at a time;   *)
(* each connection has a reader and a writer goroutine and a bounded       *)
(* buffer, send, between the hub and its writer; the Kafka consumer's      *)
(* goroutines offer messages.  Nobody the hub serves can make it wait:     *)
(* every send to a client or to a hub channel drops on a full buffer.      *)
(*                                                                         *)
(* Only Run takes the hub's mutex, so a case is one step, but for the      *)
(* replay to a new dashboard: its sends are steps of their own, for the    *)
(* writer of that client already drains the buffer.                        *)
(***************************************************************************)
EXTENDS Integers, Sequences, FiniteSets, SequencesExt

CONSTANTS
  Clients,      \* the connections
  Profile,      \* connection -> [role, id] of its token
  Leavers,      \* the connections whose peer may go away
  Messages,     \* what the Kafka consumer will offer, each once: the records
                \*   [kind |-> "event", type, order, buyer, seller, shipper]
                \*   [kind |-> "metric", key, value] and [kind |-> "alert", id, at]
  KeyOrder,     \* the cacheable metric keys, in string order
  ChanCap,      \* capacity of broadcast, raw and alerts (100 in the code)
  SendCap,      \* capacity of a client's send buffer (50 in the code)
  Horizon,      \* how long an alert is kept (8 hours in the code)
  MaxTime       \* bound: the clock stops there

ASSUME CapAssumption == ChanCap \in Nat \ {0} /\ SendCap \in Nat \ {0}

VARIABLES
  clients,      \* the registered connections
  metricCache,  \* key -> the latest metric message with that key
  alertCache,   \* alert id -> the latest alert message with that id
  broadcast, raw, alerts,  \* the hub's buffered channels
  loop,         \* where Run is: "select", a phase of a replay, or "returned"
  pending,      \* the replay Run is busy with: [to, rest]
  done,         \* Close was called
  send,         \* connection -> its buffer
  closed,       \* connection -> its buffer was closed
  reader, writer,  \* connection -> place of its goroutine
  hand,         \* connection -> the message its writer is writing, if any
  up,           \* connection -> its peer is there and its context not cancelled
  got,          \* history: connection -> what was written to its peer
  dropped,      \* history: connection -> what the hub had no room for
  offered,      \* the messages the consumer offered so far
  now

hubVars == <<clients, metricCache, alertCache, loop, pending>>
channels == <<broadcast, raw, alerts>>
connVars == <<closed, reader, writer, hand, up, got>>
vars == <<hubVars, channels, done, send, connVars, dropped, offered, now>>

Role(c) == Profile[c].role
NotCacheable == "notCacheable"
NoTime == 0

Init ==
  /\ clients = {} /\ metricCache = <<>> /\ alertCache = <<>>
  /\ broadcast = <<>> /\ raw = <<>> /\ alerts = <<>>
  /\ loop = "select" /\ pending = [to |-> {}, rest |-> <<>>] /\ done = FALSE
  /\ send = [c \in Clients |-> <<>>]
  /\ closed = [c \in Clients |-> FALSE]
  /\ reader = [c \in Clients |-> "absent"]
  /\ writer = [c \in Clients |-> "absent"]
  /\ hand = [c \in Clients |-> <<>>]
  /\ up = [c \in Clients |-> FALSE]
  /\ got = [c \in Clients |-> <<>>]
  /\ dropped = [c \in Clients |-> {}]
  /\ offered = {}
  /\ now = 1

-----------------------------------------------------------------------------
(* Sends.  An entry of a client's buffer is a message and its replay mark. *)

Live(m) == [m |-> m, replay |-> FALSE]
Replayed(m) == [m |-> m, replay |-> TRUE]

\* Mutants: a buffer one entry too long; a send that waits for room.
RoomForOneMore(c) == Len(send[c]) <= SendCap
PushWaiting(cs, entry) ==
  /\ \A c \in cs : Len(send[c]) < SendCap
  /\ send' = [c \in Clients |-> IF c \in cs THEN Append(send[c], entry) ELSE send[c]]
  /\ UNCHANGED dropped

Room(c) == Len(send[c]) < SendCap

\* Offer an entry to every client of a set: who has no room misses it.
Push(cs, entry) ==
  /\ send' = [c \in Clients |->
                IF c \in cs /\ Room(c) THEN Append(send[c], entry) ELSE send[c]]
  /\ dropped' = [c \in Clients |->
                   IF c \in cs /\ ~ Room(c) THEN dropped[c] \cup {entry.m} ELSE dropped[c]]

\* The consumer offers a message to a channel of the hub.
Offer(channel, m) == IF Len(channel) < ChanCap THEN Append(channel, m) ELSE channel

Broadcast(m) ==
  /\ m.kind = "event"
  /\ broadcast' = Offer(broadcast, m)
  /\ UNCHANGED <<raw, alerts>>

BroadcastRaw(m) ==
  /\ m.kind = "metric"
  /\ raw' = Offer(raw, m)
  /\ UNCHANGED <<broadcast, alerts>>

BroadcastCEPAlertRaw(m) ==
  /\ m.kind = "alert"
  /\ alerts' = Offer(alerts, m)
  /\ UNCHANGED <<broadcast, raw>>

Consume ==
  /\ \E m \in Messages \ offered :
       /\ Broadcast(m) \/ BroadcastRaw(m) \/ BroadcastCEPAlertRaw(m)
       /\ offered' = offered \cup {m}
  /\ UNCHANGED <<hubVars, done, send, connVars, dropped, now>>

-----------------------------------------------------------------------------
(* Which clients an event is for.                                          *)

PartyEvents == {"cart.checkout", "order.confirmed", "shipment.picked", "shipment.delivered"}
JobBoardEvents == {"order.confirmed", "shipment.picked"}

\* Mutant: a shipper hears of a pickup only if it is its own.
ShouldSendOwnPickups(c, e) ==
  LET role == Role(c)
      id == Profile[c].id
  IN  \/ role = "dashboard"
      \/ role = "buyer" /\ (e.type = "product.listed" \/ (e.type \in PartyEvents /\ e.buyer = id))
      \/ role = "seller" /\ e.type \in PartyEvents /\ e.seller = id
      \/ role = "shipper" /\ (e.type = "order.confirmed" \/ e.shipper = id)

ShouldSend(c, e) ==
  LET role == Role(c)
      id == Profile[c].id
  IN  \/ role = "dashboard"
      \/ role = "buyer" /\ e.type = "product.listed"
      \/ role = "buyer" /\ e.type \in PartyEvents /\ e.buyer = id
      \/ role = "seller" /\ e.type \in PartyEvents /\ e.seller = id
      \/ role = "shipper" /\ e.type \in JobBoardEvents
      \/ role = "shipper" /\ e.type = "shipment.delivered" /\ e.shipper = id

Dashboards == {c \in clients : Role(c) = "dashboard"}

-----------------------------------------------------------------------------
(* Run: a case of the select, taken when the loop is back at it.           *)

\* Mutant: the replay runs on beside the loop.
SelectingBesideReplay == loop # "returned"

Selecting == loop = "select"

HandleBroadcast ==
  /\ Selecting /\ broadcast # <<>>
  /\ broadcast' = Tail(broadcast)
  /\ Push({c \in clients : ShouldSend(c, Head(broadcast))}, Live(Head(broadcast)))
  /\ UNCHANGED <<hubVars, raw, alerts, done, connVars, offered, now>>

\* Mutant: the first value of a metric stays.
CachedOnce(m) ==
  IF m.key = NotCacheable \/ m.key \in DOMAIN metricCache THEN metricCache
  ELSE [k \in DOMAIN metricCache \cup {m.key} |-> IF k = m.key THEN m ELSE metricCache[k]]

\* The cache with a metric message in it, if its metric and scope are known.
Cached(m) ==
  IF m.key = NotCacheable THEN metricCache
  ELSE [k \in DOMAIN metricCache \cup {m.key} |->
          IF k = m.key THEN m ELSE metricCache[k]]

HandleRaw ==
  /\ Selecting /\ raw # <<>>
  /\ raw' = Tail(raw)
  /\ metricCache' = Cached(Head(raw))
  /\ Push(Dashboards, Live(Head(raw)))
  /\ UNCHANGED <<clients, alertCache, loop, pending, broadcast, alerts, done,
                 connVars, offered, now>>

\* An alert whose time is not before the horizon.
Recent(a) == a.at >= now - Horizon

\* pruneAlerts: the ids whose alert is recent.
RecentIds == {i \in DOMAIN alertCache : Recent(alertCache[i])}

HandleAlert ==
  /\ Selecting /\ alerts # <<>>
  /\ alerts' = Tail(alerts)
  /\ LET a == Head(alerts)
         kept == IF a.at # NoTime /\ Recent(a) THEN {a.id} ELSE {}
     IN  /\ alertCache' = [i \in RecentIds \cup kept |-> IF i \in kept THEN a ELSE alertCache[i]]
         /\ Push(Dashboards, Live(a))
  /\ UNCHANGED <<clients, metricCache, loop, pending, broadcast, raw, done,
                 connVars, offered, now>>

\* The keys of the cached metrics in the order sort.Strings gives them.
KeyBefore(k, l) == \E i, j \in DOMAIN KeyOrder : i < j /\ KeyOrder[i] = k /\ KeyOrder[j] = l
SortedKeys ==
  {keys \in SetToSeqs(DOMAIN metricCache) :
     \A i, j \in DOMAIN keys : i < j => KeyBefore(keys[i], keys[j])}

\* Register: the connection's ServeWS was waiting to hand it over and goes on
\* to start its reader and writer.  A dashboard gets the cached metrics first.
HandleRegister(c) ==
  /\ Selecting
  /\ reader[c] = "register"
  /\ clients' = clients \cup {c}
  /\ reader' = [reader EXCEPT ![c] = "read"]
  /\ writer' = [writer EXCEPT ![c] = "range"]
  /\ IF Role(c) = "dashboard"
     THEN /\ loop' = "replayMetrics"
          /\ \E keys \in SortedKeys :
               pending' = [to |-> {c}, rest |-> [i \in DOMAIN keys |-> metricCache[keys[i]]]]
     ELSE UNCHANGED <<loop, pending>>
  /\ UNCHANGED <<metricCache, alertCache, channels, done, send, closed, hand, up, got,
                 dropped, offered, now>>

\* Send the next message of the replay.
ReplayOne ==
  /\ pending.rest # <<>>
  /\ Push(pending.to, Replayed(Head(pending.rest)))
  /\ pending' = [pending EXCEPT !.rest = Tail(@)]
  /\ UNCHANGED <<clients, metricCache, alertCache, loop, channels, done, connVars, offered, now>>

\* Mutant: alerts in the order of their ids.
EarlierById(a, b) == a.id < b.id

Earlier(a, b) == a.at < b.at \/ (a.at = b.at /\ a.id < b.id)

\* sort.Slice: the recent alerts, oldest first.
SortedAlerts ==
  {as \in SetToSeqs({alertCache[i] : i \in RecentIds}) :
     \A i, j \in DOMAIN as : i < j => Earlier(as[i], as[j])}

\* After the metrics: prune the alerts and go on with those left, oldest first.
ReplayAlerts ==
  /\ loop = "replayMetrics" /\ pending.rest = <<>>
  /\ loop' = "replayAlerts"
  /\ alertCache' = [i \in RecentIds |-> alertCache[i]]
  /\ \E as \in SortedAlerts : pending' = [pending EXCEPT !.rest = as]
  /\ UNCHANGED <<clients, metricCache, channels, done, send, connVars, dropped, offered, now>>

EndReplay ==
  /\ loop = "replayAlerts" /\ pending.rest = <<>>
  /\ loop' = "select"
  /\ pending' = [to |-> {}, rest |-> <<>>]
  /\ UNCHANGED <<clients, metricCache, alertCache, channels, done, send, connVars, dropped,
                 offered, now>>

\* Mutant: the buffer is closed, the client stays a member.
HandleUnregisterKept(c) ==
  /\ Selecting
  /\ reader[c] = "unregister"
  /\ reader' = [reader EXCEPT ![c] = "close"]
  /\ closed' = [closed EXCEPT ![c] = @ \/ c \in clients]
  /\ UNCHANGED <<hubVars, channels, done, send, writer, hand, up, got, dropped, offered, now>>

\* Unregister: the connection's reader was waiting to hand it over.
HandleUnregister(c) ==
  /\ Selecting
  /\ reader[c] = "unregister"
  /\ reader' = [reader EXCEPT ![c] = "close"]
  /\ clients' = clients \ {c}
  /\ closed' = [closed EXCEPT ![c] = @ \/ c \in clients]
  /\ UNCHANGED <<metricCache, alertCache, loop, pending, channels, done, send, writer, hand,
                 up, got, dropped, offered, now>>

Return ==
  /\ Selecting /\ done
  /\ loop' = "returned"
  /\ UNCHANGED <<clients, metricCache, alertCache, pending, channels, done, send, connVars,
                 dropped, offered, now>>

Run ==
  \/ HandleBroadcast \/ HandleRaw \/ HandleAlert
  \/ \E c \in Clients : HandleRegister(c) \/ HandleUnregister(c)
  \/ ReplayOne \/ ReplayAlerts \/ EndReplay
  \/ Return

\* The server shuts down.
Close ==
  /\ ~ done
  /\ done' = TRUE
  /\ UNCHANGED <<hubVars, channels, send, connVars, dropped, offered, now>>

-----------------------------------------------------------------------------
(* A connection.  up stands for what makes Read and Write fail: the peer   *)
(* is gone or the context was cancelled.                                   *)

\* ServeWS accepted the connection and blocks on the hub's Register channel.
Accept(c) ==
  /\ reader[c] = "absent"
  /\ reader' = [reader EXCEPT ![c] = "register"]
  /\ up' = [up EXCEPT ![c] = TRUE]
  /\ UNCHANGED <<hubVars, channels, done, send, closed, writer, hand, got, dropped, offered, now>>

\* External: the peer goes away.
Disconnect(c) ==
  /\ c \in Leavers /\ up[c]
  /\ up' = [up EXCEPT ![c] = FALSE]
  /\ UNCHANGED <<hubVars, channels, done, send, closed, reader, writer, hand, got, dropped,
                 offered, now>>

\* Read fails; the deferred function blocks on the hub's Unregister channel.
ReadFails(c) ==
  /\ reader[c] = "read" /\ ~ up[c]
  /\ reader' = [reader EXCEPT ![c] = "unregister"]
  /\ UNCHANGED <<hubVars, channels, done, send, closed, writer, hand, up, got, dropped,
                 offered, now>>

\* The rest of the deferred function: cancel the context, close the connection.
ReaderEnds(c) ==
  /\ reader[c] = "close"
  /\ reader' = [reader EXCEPT ![c] = "gone"]
  /\ up' = [up EXCEPT ![c] = FALSE]
  /\ UNCHANGED <<hubVars, channels, done, send, closed, writer, hand, got, dropped, offered, now>>

\* Mutant: a writer that is behind takes the newest message first.
WriterTakesNewest(c) ==
  /\ writer[c] = "range"
  /\ IF send[c] # <<>>
     THEN /\ hand' = [hand EXCEPT ![c] = <<Last(send[c])>>]
          /\ send' = [send EXCEPT ![c] = Front(@)]
          /\ writer' = [writer EXCEPT ![c] = "write"]
     ELSE /\ closed[c]
          /\ writer' = [writer EXCEPT ![c] = "gone"]
          /\ UNCHANGED <<hand, send>>
  /\ UNCHANGED <<hubVars, channels, done, closed, reader, up, got, dropped, offered, now>>

\* The writer takes the next message, or ends once a closed buffer is empty.
WriterTakes(c) ==
  /\ writer[c] = "range"
  /\ IF send[c] # <<>>
     THEN /\ hand' = [hand EXCEPT ![c] = <<Head(send[c])>>]
          /\ send' = [send EXCEPT ![c] = Tail(@)]
          /\ writer' = [writer EXCEPT ![c] = "write"]
     ELSE /\ closed[c]
          /\ writer' = [writer EXCEPT ![c] = "gone"]
          /\ UNCHANGED <<hand, send>>
  /\ UNCHANGED <<hubVars, channels, done, closed, reader, up, got, dropped, offered, now>>

WriteSucceeds(c) ==
  /\ writer[c] = "write" /\ up[c]
  /\ got' = [got EXCEPT ![c] = @ \o hand[c]]
  /\ hand' = [hand EXCEPT ![c] = <<>>]
  /\ writer' = [writer EXCEPT ![c] = "range"]
  /\ UNCHANGED <<hubVars, channels, done, send, closed, reader, up, dropped, offered, now>>

\* Mutant: the writer does not end after a failed write.
WriteRetries(c) ==
  /\ writer[c] = "write" /\ ~ up[c]
  /\ UNCHANGED vars

\* A failed write cancels the context, which fails the pending Read, too.
WriteFails(c) ==
  /\ writer[c] = "write" /\ ~ up[c]
  /\ up' = [up EXCEPT ![c] = FALSE]
  /\ hand' = [hand EXCEPT ![c] = <<>>]
  /\ writer' = [writer EXCEPT ![c] = "gone"]
  /\ UNCHANGED <<hubVars, channels, done, send, closed, reader, got, dropped, offered, now>>

-----------------------------------------------------------------------------
\* External: the wall clock advances.
Tick ==
  /\ now < MaxTime
  /\ now' = now + 1
  /\ UNCHANGED <<hubVars, channels, done, send, connVars, dropped, offered>>

Next ==
  \/ Run \/ Close \/ Consume \/ Tick
  \/ \E c \in Clients :
       \/ Accept(c) \/ Disconnect(c)
       \/ ReadFails(c) \/ ReaderEnds(c)
       \/ WriterTakes(c) \/ WriteSucceeds(c) \/ WriteFails(c)

\* The loop goes on while a case is ready (select picks among the ready ones
\* at random, and there are finitely many messages); goroutines that can run
\* are scheduled.  A write may take for ever while the peer is there, and
\* nobody has to connect, disconnect or shut down.
Spec ==
  /\ Init /\ [][Next]_vars
  /\ WF_vars(Run)
  /\ \A c \in Clients : /\ WF_vars(ReadFails(c)) /\ WF_vars(ReaderEnds(c))
                        /\ WF_vars(WriterTakes(c)) /\ WF_vars(WriteFails(c))

-----------------------------------------------------------------------------
(* Properties.                                                             *)

\* All that the hub put into c's buffer and no failed write lost, in order.
Stream(c) == got[c] \o hand[c] \o send[c]
Entries(c) == ToSet(Stream(c))

Entry == {Live(m) : m \in Messages} \cup {Replayed(m) : m \in Messages}

\* Types and capacities.
TypeOK ==
  /\ clients \subseteq Clients /\ offered \subseteq Messages
  /\ \A k \in DOMAIN metricCache : metricCache[k] \in Messages /\ metricCache[k].key = k
  /\ \A i \in DOMAIN alertCache : alertCache[i] \in Messages /\ alertCache[i].id = i
  /\ \A ch \in {broadcast, raw, alerts} : ch \in Seq(Messages) /\ Len(ch) <= ChanCap
  /\ loop \in {"select", "replayMetrics", "replayAlerts", "returned"}
  /\ pending.to \subseteq clients /\ pending.rest \in Seq(Messages)
  /\ \A c \in Clients :
       /\ send[c] \in Seq(Entry) /\ Len(send[c]) <= SendCap
       /\ reader[c] \in {"absent", "register", "read", "unregister", "close", "gone"}
       /\ writer[c] \in {"absent", "range", "write", "gone"}
       /\ hand[c] \in Seq(Entry) /\ Len(hand[c]) = (IF writer[c] = "write" THEN 1 ELSE 0)

\* The hub sends to and closes only open buffers: the registered clients are
\* those whose reader has not handed in its end yet, a buffer is closed
\* exactly once that was taken, and a writer ends early only on a dead link.
MembersOpen ==
  \A c \in Clients :
    /\ c \in clients <=> reader[c] \in {"read", "unregister"}
    /\ closed[c] <=> reader[c] \in {"close", "gone"}
    /\ writer[c] = "gone" => ~ up[c] \/ closed[c]

\* A client sees its replay before anything live and nothing twice, whatever was
\* dropped for lack of room and whatever arrived while it was replayed.
StreamOrder ==
  \A c \in Clients :
    LET s == Stream(c) IN
    /\ IsInjective(s)
    /\ \A j \in DOMAIN s : s[j].replay => \A i \in 1 .. j : s[i].replay

\* Two clients see what both are sent in the same order: those who follow one
\* order on different screens see the same story, though each has its own
\* writer, drains at its own pace and misses other messages.
SameOrder ==
  \A c, d \in Clients :
    LET s == Stream(c)
        t == Stream(d) IN
    \A i, j \in DOMAIN s :
      i < j /\ ~ s[i].replay /\ ~ s[j].replay =>
        ~ \E k, l \in DOMAIN t : k < l /\ t[k] = s[j] /\ t[l] = s[i]

\* The replay tells alerts oldest first, after all metrics, each once.
ReplaySorted ==
  \A c \in Clients :
    LET s == Stream(c) IN
    \A i, j \in DOMAIN s :
      i < j /\ s[i].replay /\ s[j].replay /\ s[i].m.kind = "alert" =>
        /\ s[j].m.kind = "alert"
        /\ \/ s[i].m.at < s[j].m.at
           \/ s[i].m.at = s[j].m.at /\ s[i].m.id < s[j].m.id

\* No value falls between replay and live: a connected dashboard that missed
\* nothing for lack of room has last been told, of each metric, the cached value,
\* and has been told every alert a later dashboard would be told.
LastTold(c, k, m) ==
  LET s == Stream(c) IN
  \E i \in DOMAIN s :
    /\ s[i].m = m
    /\ \A j \in DOMAIN s : j > i => ~ (s[j].m.kind = "metric" /\ s[j].m.key = k)

DashboardCurrent ==
  Selecting => \A c \in Dashboards : up[c] /\ dropped[c] = {} =>
    /\ \A k \in DOMAIN metricCache : LastTold(c, k, metricCache[k])
    /\ \A i \in DOMAIN alertCache : \E x \in Entries(c) : x.m = alertCache[i]

\* Who was shown an order is told how it goes on, as long as it is connected: if
\* a dashboard saw f follow e, a party of the order that saw e saw f, too, and a
\* shipper that saw the job offered saw it taken off the board.
Concerns(f, c) ==
  LET id == Profile[c].id IN
  \/ Role(c) = "buyer" /\ f.buyer = id
  \/ Role(c) = "seller" /\ f.seller = id
  \/ Role(c) = "shipper" /\ f.type = "shipment.picked"
  \/ Role(c) = "shipper" /\ f.type = "shipment.delivered" /\ f.shipper = id

KeptInformed ==
  \A d \in Dashboards, c \in clients \ Dashboards :
    LET s == Stream(d) IN
    \A i, j \in DOMAIN s :
      /\ up[c] /\ i < j /\ s[i] \in Entries(c)
      /\ s[j].m.kind = "event" /\ s[j].m.type \in PartyEvents
      /\ s[i].m.order = s[j].m.order /\ Concerns(s[j].m, c)
      => s[j] \in Entries(c) \/ s[j].m \in dropped[c]

\* Slow clients never hold up the hub: while it runs, everything offered to
\* it and everybody at its doors is taken again and again, though no peer
\* ever has to read.
HubNeverStuck ==
  []<> \/ loop = "returned"
       \/ /\ broadcast = <<>> /\ raw = <<>> /\ alerts = <<>> /\ loop = "select"
          /\ \A c \in Clients : reader[c] \notin {"register", "unregister"}

\* A connection whose peer went away is cleaned up, both goroutines ended
\* and the client forgotten, unless the hub is shut down meanwhile (then
\* its reader waits at the hub's door until the process ends).
CleanedUp ==
  \A c \in Leavers :
    (reader[c] # "absent" /\ ~ up[c])
      ~> (done \/ (reader[c] = "gone" /\ writer[c] = "gone" /\ c \notin clients))

=============================================================================
