------------------------------ MODULE HubProofs ------------------------------
(***************************************************************************)
(* Machine-checked proofs about Hub, for any connections and messages.     *)
(***************************************************************************)
EXTENDS Hub, FiniteSetTheorems, SequenceTheorems, TLAPS

\* The places of a connection's goroutines, and that the writer is started
\* once the hub took the connection: the reader "absent" or at the hub's door
\* means that no writer exists.
Places ==
  /\ reader \in [Clients -> {"absent", "register", "read", "unregister", "close", "gone"}]
  /\ writer \in [Clients -> {"absent", "range", "write", "gone"}]
  /\ closed \in [Clients -> BOOLEAN]
  /\ up \in [Clients -> BOOLEAN]
  /\ clients \subseteq Clients
  /\ \A c \in Clients : reader[c] \in {"absent", "register"} <=> writer[c] = "absent"

MInv == Places /\ MembersOpen

-----------------------------------------------------------------------------
\* Without connections there is nothing to hold.
LEMMA InitMInv == Init => MInv
  BY DEF Init, MInv, Places, MembersOpen

\* The steps of Run but those at the hub's doors leave the connections alone.
LEMMA LoopMInv ==
  ASSUME MInv,
         \/ HandleBroadcast \/ HandleRaw \/ HandleAlert
         \/ ReplayOne \/ ReplayAlerts \/ EndReplay \/ Return
  PROVE  MInv'
<1>1. UNCHANGED <<clients, reader, writer, closed, up>>
  BY DEF HandleBroadcast, HandleRaw, HandleAlert, ReplayOne, ReplayAlerts, EndReplay,
         Return, hubVars, connVars
<1>2. QED
  BY <1>1 DEF MInv, Places, MembersOpen

\* Taking a connection in makes it a member with an open buffer.
LEMMA RegisterMInv ==
  ASSUME MInv, NEW c \in Clients, HandleRegister(c)
  PROVE  MInv'
<1>1. /\ reader[c] = "register"
      /\ clients' = clients \cup {c}
      /\ reader' = [reader EXCEPT ![c] = "read"]
      /\ writer' = [writer EXCEPT ![c] = "range"]
      /\ closed' = closed /\ up' = up
  BY DEF HandleRegister
<1>2. Places'
  BY <1>1 DEF MInv, Places
<1>3. MembersOpen'
  BY <1>1 DEF MInv, Places, MembersOpen
<1>4. QED
  BY <1>2, <1>3 DEF MInv

\* Letting a connection go closes its buffer, for it was a member.
LEMMA UnregisterMInv ==
  ASSUME MInv, NEW c \in Clients, HandleUnregister(c)
  PROVE  MInv'
<1>1. /\ reader[c] = "unregister"
      /\ clients' = clients \ {c}
      /\ reader' = [reader EXCEPT ![c] = "close"]
      /\ closed' = [closed EXCEPT ![c] = closed[c] \/ c \in clients]
      /\ writer' = writer /\ up' = up
  BY DEF HandleUnregister
<1>2. c \in clients
  BY <1>1 DEF MInv, MembersOpen
<1>3. closed' = [closed EXCEPT ![c] = TRUE]
  BY <1>1, <1>2
<1>4. Places'
  BY <1>1, <1>3 DEF MInv, Places
<1>5. MembersOpen'
  BY <1>1, <1>3 DEF MInv, Places, MembersOpen
<1>6. QED
  BY <1>4, <1>5 DEF MInv

\* The steps of a connection: only its reader and the hub end a membership.
LEMMA ConnectionMInv ==
  ASSUME MInv, NEW c \in Clients,
         \/ Accept(c) \/ Disconnect(c) \/ ReadFails(c) \/ ReaderEnds(c)
         \/ WriterTakes(c) \/ WriteSucceeds(c) \/ WriteFails(c)
  PROVE  MInv'
<1>1. CASE Accept(c)
  <2>1. /\ reader[c] = "absent"
        /\ reader' = [reader EXCEPT ![c] = "register"]
        /\ up' = [up EXCEPT ![c] = TRUE]
        /\ clients' = clients /\ closed' = closed /\ writer' = writer
    BY <1>1 DEF Accept, hubVars
  <2>2. QED
    BY <2>1 DEF MInv, Places, MembersOpen
<1>2. CASE Disconnect(c)
  <2>1. /\ up' = [up EXCEPT ![c] = FALSE]
        /\ UNCHANGED <<clients, closed, reader, writer>>
    BY <1>2 DEF Disconnect, hubVars
  <2>2. QED
    BY <2>1 DEF MInv, Places, MembersOpen
<1>3. CASE ReadFails(c)
  <2>1. /\ reader[c] = "read"
        /\ reader' = [reader EXCEPT ![c] = "unregister"]
        /\ UNCHANGED <<clients, closed, up, writer>>
    BY <1>3 DEF ReadFails, hubVars
  <2>2. QED
    BY <2>1 DEF MInv, Places, MembersOpen
<1>4. CASE ReaderEnds(c)
  <2>1. /\ reader[c] = "close"
        /\ reader' = [reader EXCEPT ![c] = "gone"]
        /\ up' = [up EXCEPT ![c] = FALSE]
        /\ UNCHANGED <<clients, closed, writer>>
    BY <1>4 DEF ReaderEnds, hubVars
  <2>2. QED
    BY <2>1 DEF MInv, Places, MembersOpen
<1>5. CASE WriterTakes(c)
  <2>1. /\ writer[c] = "range"
        /\ \/ writer' = [writer EXCEPT ![c] = "write"]
           \/ closed[c] /\ writer' = [writer EXCEPT ![c] = "gone"]
        /\ UNCHANGED <<clients, closed, up, reader>>
    BY <1>5 DEF WriterTakes, hubVars
  <2>2. QED
    BY <2>1 DEF MInv, Places, MembersOpen
<1>6. CASE WriteSucceeds(c)
  <2>1. /\ writer[c] = "write"
        /\ writer' = [writer EXCEPT ![c] = "range"]
        /\ UNCHANGED <<clients, closed, up, reader>>
    BY <1>6 DEF WriteSucceeds, hubVars
  <2>2. QED
    BY <2>1 DEF MInv, Places, MembersOpen
<1>7. CASE WriteFails(c)
  <2>1. /\ writer[c] = "write"
        /\ up' = [up EXCEPT ![c] = FALSE]
        /\ writer' = [writer EXCEPT ![c] = "gone"]
        /\ UNCHANGED <<clients, closed, reader>>
    BY <1>7 DEF WriteFails, hubVars
  <2>2. QED
    BY <2>1 DEF MInv, Places, MembersOpen
<1>8. QED
  BY <1>1, <1>2, <1>3, <1>4, <1>5, <1>6, <1>7

\* Every step keeps the invariant.
LEMMA NextMInv == MInv /\ [Next]_vars => MInv'
<1> SUFFICES ASSUME MInv, [Next]_vars
             PROVE  MInv'
  OBVIOUS
<1>1. CASE Run
  BY <1>1, LoopMInv, RegisterMInv, UnregisterMInv DEF Run
<1>2. CASE Close \/ Consume \/ Tick \/ UNCHANGED vars
  <2>1. UNCHANGED <<clients, reader, writer, closed, up>>
    BY <1>2 DEF Close, Consume, Tick, vars, hubVars, connVars
  <2>2. QED
    BY <2>1 DEF MInv, Places, MembersOpen
<1>3. CASE \E c \in Clients :
             \/ Accept(c) \/ Disconnect(c) \/ ReadFails(c) \/ ReaderEnds(c)
             \/ WriterTakes(c) \/ WriteSucceeds(c) \/ WriteFails(c)
  BY <1>3, ConnectionMInv
<1>4. QED
  BY <1>1, <1>2, <1>3 DEF Next

\* The hub only ever sends to, and closes, open buffers, and closes each once,
\* however registrations, failing reads and failing writes interleave.
THEOREM MembersAlwaysOpen == Spec => []MembersOpen
<1>1. MInv => MembersOpen
  BY DEF MInv
<1>2. Init /\ [][Next]_vars => []MInv
  BY InitMInv, NextMInv, PTL
<1>3. QED
  BY <1>1, <1>2, PTL DEF Spec

-----------------------------------------------------------------------------
(* Sequences.                                                              *)

\* A sequence with an element more.
LEMMA Longer ==
  ASSUME NEW S, NEW s \in Seq(S), NEW x \in S
  PROVE  /\ Append(s, x) \in Seq(S)
         /\ DOMAIN s = 1 .. Len(s) /\ DOMAIN Append(s, x) = 1 .. Len(s) + 1
         /\ \A i \in 1 .. Len(s) : Append(s, x)[i] = s[i]
         /\ Append(s, x)[Len(s) + 1] = x
         /\ ToSet(Append(s, x)) = ToSet(s) \cup {x}
<1>1. /\ Append(s, x) \in Seq(S) /\ Len(Append(s, x)) = Len(s) + 1
      /\ \A i \in 1 .. Len(s) : Append(s, x)[i] = s[i]
      /\ Append(s, x)[Len(s) + 1] = x
  BY AppendProperties
<1>2. DOMAIN s = 1 .. Len(s) /\ DOMAIN Append(s, x) = 1 .. Len(s) + 1 /\ Len(s) \in Nat
  BY <1>1, LenProperties
<1>3. ToSet(Append(s, x)) = ToSet(s) \cup {x}
  <2>1. ASSUME NEW y \in ToSet(Append(s, x)) PROVE y \in ToSet(s) \cup {x}
    <3>1. PICK i \in 1 .. Len(s) + 1 : y = Append(s, x)[i]
      BY <1>2, <2>1 DEF ToSet
    <3>2. CASE i = Len(s) + 1
      BY <1>1, <3>1, <3>2
    <3>3. CASE i # Len(s) + 1
      <4>1. i \in 1 .. Len(s)
        BY <1>2, <3>3
      <4>2. QED
        BY <1>1, <1>2, <3>1, <4>1 DEF ToSet
    <3>4. QED
      BY <3>2, <3>3
  <2>2. ASSUME NEW y \in ToSet(s) PROVE y \in ToSet(Append(s, x))
    <3>1. PICK i \in 1 .. Len(s) : y = s[i]
      BY <1>2, <2>2 DEF ToSet
    <3>2. i \in 1 .. Len(s) + 1
      BY <1>2, <3>1
    <3>3. QED
      BY <1>1, <1>2, <3>1, <3>2 DEF ToSet
  <2>3. x \in ToSet(Append(s, x))
    <3>1. Len(s) + 1 \in 1 .. Len(s) + 1
      BY <1>2
    <3>2. QED
      BY <1>1, <1>2, <3>1 DEF ToSet
  <2>4. QED
    BY <2>1, <2>2, <2>3
<1>4. QED
  BY <1>1, <1>2, <1>3

\* A sequence without its first element.
LEMMA Taken ==
  ASSUME NEW S, NEW s \in Seq(S), s # <<>>
  PROVE  /\ Head(s) \in S /\ Tail(s) \in Seq(S) /\ Len(s) > 0
         /\ Len(Tail(s)) = Len(s) - 1
         /\ \A i \in 1 .. Len(s) - 1 : Tail(s)[i] = s[i + 1]
         /\ Head(s) = s[1] /\ Head(s) \in ToSet(s)
         /\ ToSet(Tail(s)) \subseteq ToSet(s)
         /\ ToSet(s) \subseteq ToSet(Tail(s)) \cup {Head(s)}
         /\ IsInjective(s) => IsInjective(Tail(s)) /\ Head(s) \notin ToSet(Tail(s))
<1>1. /\ Head(s) \in S /\ Tail(s) \in Seq(S) /\ Len(Tail(s)) = Len(s) - 1
      /\ \A i \in 1 .. Len(Tail(s)) : Tail(s)[i] = s[i + 1]
      /\ Head(s) = s[1]
  BY HeadTailProperties
<1>2. /\ Len(s) \in Nat /\ Len(s) > 0 /\ DOMAIN s = 1 .. Len(s)
      /\ DOMAIN Tail(s) = 1 .. Len(s) - 1
  BY <1>1, EmptySeq, LenProperties
<1>3. \A i \in DOMAIN Tail(s) : i + 1 \in DOMAIN s /\ i + 1 # 1 /\ Tail(s)[i] = s[i + 1]
  BY <1>1, <1>2
<1>4. 1 \in DOMAIN s
  BY <1>2
<1>5. \A i \in DOMAIN s : i = 1 \/ (i - 1 \in DOMAIN Tail(s) /\ s[i] = Tail(s)[i - 1])
  BY <1>1, <1>2
<1>6. Head(s) \in ToSet(s) /\ ToSet(Tail(s)) \subseteq ToSet(s)
  BY <1>1, <1>3, <1>4 DEF ToSet
<1>7. ASSUME NEW y \in ToSet(s) PROVE y \in ToSet(Tail(s)) \cup {Head(s)}
  <2>1. PICK i \in DOMAIN s : y = s[i]
    BY <1>7 DEF ToSet
  <2>2. QED
    BY <1>1, <1>5, <2>1 DEF ToSet
<1>8. ASSUME IsInjective(s) PROVE IsInjective(Tail(s)) /\ Head(s) \notin ToSet(Tail(s))
  <2>1. \A i, j \in DOMAIN s : s[i] = s[j] => i = j
    BY <1>8 DEF IsInjective
  <2>2. \A i, j \in DOMAIN Tail(s) : Tail(s)[i] = Tail(s)[j] => i = j
    BY <1>2, <1>3, <2>1
  <2>3. \A i \in DOMAIN Tail(s) : Tail(s)[i] # Head(s)
    BY <1>1, <1>3, <1>4, <2>1
  <2>4. QED
    BY <2>2, <2>3 DEF IsInjective, ToSet
<1>9. QED
  BY <1>1, <1>2, <1>6, <1>7, <1>8

\* t is s, perhaps with one element left out.
Thinned(t, s) ==
  \E p \in Nat : \A i \in DOMAIN t :
    LET j == IF i <= p THEN i ELSE i + 1 IN j \in DOMAIN s /\ t[i] = s[j]

\* An element left out in the middle.
LEMMA LeftOut ==
  ASSUME NEW S, NEW s \in Seq(S), NEW h \in Seq(S), NEW t \in Seq(S), Len(h) = 1
  PROVE  s \o <<>> \o t \in Seq(S) /\ Thinned(s \o <<>> \o t, s \o h \o t)
<1>1. <<>> \in Seq(S) /\ Len(<<>>) = 0 /\ Len(s) \in Nat /\ Len(t) \in Nat
  BY LenProperties, EmptySeq
<1>2. s \o h \in Seq(S) /\ s \o <<>> \in Seq(S)
  BY <1>1, ConcatProperties
<1>3. /\ s \o h \o t \in Seq(S) /\ s \o <<>> \o t \in Seq(S)
      /\ Len(s \o h) = Len(s) + 1 /\ Len(s \o <<>>) = Len(s)
      /\ Len(s \o h \o t) = Len(s) + 1 + Len(t) /\ Len(s \o <<>> \o t) = Len(s) + Len(t)
  <2>1. Len(s \o h) = Len(s) + Len(h) /\ s \o <<>> = s
    BY ConcatProperties, ConcatEmptySeq
  <2>2. s \o h \o t \in Seq(S) /\ Len(s \o h \o t) = Len(s \o h) + Len(t)
    BY <1>2, ConcatProperties
  <2>3. s \o <<>> \o t \in Seq(S) /\ Len(s \o <<>> \o t) = Len(s \o <<>>) + Len(t)
    BY <1>2, ConcatProperties
  <2>4. QED
    BY <2>1, <2>2, <2>3
<1>4. \A i \in 1 .. Len(s) : (s \o h)[i] = s[i] /\ (s \o <<>>)[i] = s[i]
  BY <1>1, ConcatProperties
<1>5. \A i \in 1 .. Len(s) + 1 + Len(t) :
        (s \o h \o t)[i] = IF i <= Len(s) + 1 THEN (s \o h)[i] ELSE t[i - (Len(s) + 1)]
  BY <1>2, <1>3, ConcatProperties
<1>6. \A i \in 1 .. Len(s) + Len(t) :
        (s \o <<>> \o t)[i] = IF i <= Len(s) THEN (s \o <<>>)[i] ELSE t[i - Len(s)]
  BY <1>2, <1>3, ConcatProperties
<1>7. /\ DOMAIN (s \o h \o t) = 1 .. Len(s) + 1 + Len(t)
      /\ DOMAIN (s \o <<>> \o t) = 1 .. Len(s) + Len(t)
  BY <1>3, LenProperties
<1>8. ASSUME NEW i \in 1 .. Len(s) + Len(t), NEW j, j = IF i <= Len(s) THEN i ELSE i + 1
      PROVE  j \in 1 .. Len(s) + 1 + Len(t) /\ (s \o <<>> \o t)[i] = (s \o h \o t)[j]
  <2>1. CASE i <= Len(s)
    <3>1. i \in 1 .. Len(s) /\ i \in 1 .. Len(s) + 1 + Len(t) /\ j = i /\ i <= Len(s) + 1
      BY <1>1, <1>8, <2>1
    <3>2. QED
      BY <1>4, <1>5, <1>6, <2>1, <3>1
  <2>2. CASE ~ (i <= Len(s))
    <3>1. /\ j \in 1 .. Len(s) + 1 + Len(t) /\ j = i + 1
          /\ ~ (j <= Len(s) + 1) /\ j - (Len(s) + 1) = i - Len(s)
      BY <1>1, <1>8, <2>2
    <3>2. QED
      BY <1>5, <1>6, <2>2, <3>1
  <2>3. QED
    BY <2>1, <2>2
<1>9. Thinned(s \o <<>> \o t, s \o h \o t)
  <2>1. \A i \in DOMAIN (s \o <<>> \o t) :
          LET j == IF i <= Len(s) THEN i ELSE i + 1
          IN  j \in DOMAIN (s \o h \o t) /\ (s \o <<>> \o t)[i] = (s \o h \o t)[j]
    BY <1>7, <1>8
  <2>2. QED
    BY <1>1, <2>1 DEF Thinned
<1>10. QED
  BY <1>3, <1>9

-----------------------------------------------------------------------------
(* Types and streams.                                                      *)

\* What the hub, its caches and the connections hold.
Shapes ==
  /\ offered \subseteq Messages
  /\ broadcast \in Seq(Messages) /\ \A m \in ToSet(broadcast) : m.kind = "event"
  /\ raw \in Seq(Messages) /\ \A m \in ToSet(raw) : m.kind = "metric"
  /\ alerts \in Seq(Messages) /\ \A m \in ToSet(alerts) : m.kind = "alert"
  /\ Len(broadcast) <= ChanCap /\ Len(raw) <= ChanCap /\ Len(alerts) <= ChanCap
  /\ IsFiniteSet(DOMAIN metricCache) /\ IsFiniteSet(DOMAIN alertCache)
  /\ \A k \in DOMAIN metricCache :
       /\ metricCache[k] \in Messages /\ metricCache[k].key = k
       /\ metricCache[k].kind = "metric" /\ k # NotCacheable
  /\ \A i \in DOMAIN alertCache :
       alertCache[i] \in Messages /\ alertCache[i].id = i /\ alertCache[i].kind = "alert"
  /\ pending = [to |-> pending.to, rest |-> pending.rest] /\ pending.rest \in Seq(Messages)
  /\ send \in [Clients -> Seq(Entry)] /\ hand \in [Clients -> Seq(Entry)]
  /\ got \in [Clients -> Seq(Entry)]
  /\ \A c \in Clients : /\ Len(send[c]) <= SendCap
                        /\ Len(hand[c]) = IF writer[c] = "write" THEN 1 ELSE 0

\* The hub is busy with the replay to a registered dashboard, or with none.
Phase ==
  /\ loop \in {"select", "replayMetrics", "replayAlerts", "returned"}
  /\ loop \in {"select", "returned"} => pending = [to |-> {}, rest |-> <<>>]
  /\ loop \in {"replayMetrics", "replayAlerts"} =>
       \E c \in Dashboards : pending.to = {c}

TInv == MInv /\ Shapes /\ Phase

\* A stream is a sequence of entries.
LEMMA StreamSeq ==
  ASSUME Shapes, NEW c \in Clients
  PROVE  /\ Stream(c) \in Seq(Entry) /\ DOMAIN Stream(c) = 1 .. Len(Stream(c))
         /\ Len(Stream(c)) \in Nat
         /\ got[c] \in Seq(Entry) /\ hand[c] \in Seq(Entry) /\ send[c] \in Seq(Entry)
<1>1. got[c] \in Seq(Entry) /\ hand[c] \in Seq(Entry) /\ send[c] \in Seq(Entry)
  BY DEF Shapes
<1>2. got[c] \o hand[c] \in Seq(Entry)
  BY <1>1, ConcatProperties
<1>3. got[c] \o hand[c] \o send[c] \in Seq(Entry)
  BY <1>1, <1>2, ConcatProperties
<1>4. Stream(c) \in Seq(Entry)
  BY <1>3 DEF Stream
<1>5. QED
  BY <1>1, <1>4, LenProperties

\* So it is after a step.
LEMMA StreamSeqNext ==
  ASSUME Shapes', NEW c \in Clients
  PROVE  Stream(c)' \in Seq(Entry)
<1>1. got'[c] \in Seq(Entry) /\ hand'[c] \in Seq(Entry) /\ send'[c] \in Seq(Entry)
  BY DEF Shapes
<1>2. got'[c] \o hand'[c] \in Seq(Entry)
  BY <1>1, ConcatProperties
<1>3. got'[c] \o hand'[c] \o send'[c] \in Seq(Entry)
  BY <1>1, <1>2, ConcatProperties
<1>4. QED
  BY <1>3 DEF Stream

\* A send to those of a set that have room.
LEMMA PushStreams ==
  ASSUME Shapes, NEW cs, NEW e \in Entry, Push(cs, e), UNCHANGED <<hand, got, writer>>
  PROVE  /\ send' \in [Clients -> Seq(Entry)] /\ hand' \in [Clients -> Seq(Entry)]
         /\ got' \in [Clients -> Seq(Entry)]
         /\ \A c \in Clients : /\ Len(send'[c]) <= SendCap
                               /\ Len(hand'[c]) = IF writer'[c] = "write" THEN 1 ELSE 0
         /\ \A c \in Clients :
              Stream(c)' = IF c \in cs /\ Room(c) THEN Append(Stream(c), e) ELSE Stream(c)
         /\ \A c \in Clients :
              dropped'[c] = IF c \in cs /\ ~ Room(c) THEN dropped[c] \cup {e.m} ELSE dropped[c]
<1>1. /\ send' = [c \in Clients |->
                    IF c \in cs /\ Room(c) THEN Append(send[c], e) ELSE send[c]]
      /\ dropped' = [c \in Clients |->
                       IF c \in cs /\ ~ Room(c) THEN dropped[c] \cup {e.m} ELSE dropped[c]]
  BY DEF Push
<1>2. ASSUME NEW c \in Clients, c \in cs, Room(c)
      PROVE  /\ send'[c] \in Seq(Entry) /\ Len(send'[c]) <= SendCap
             /\ Stream(c)' = Append(Stream(c), e)
  <2>1. send'[c] = Append(send[c], e) /\ send[c] \in Seq(Entry)
    BY <1>1, <1>2, StreamSeq
  <2>2. Append(send[c], e) \in Seq(Entry) /\ Len(Append(send[c], e)) = Len(send[c]) + 1
    BY <2>1, AppendProperties
  <2>3. Len(send[c]) \in Nat /\ Len(send[c]) < SendCap
    BY <1>2, <2>1, LenProperties DEF Room
  <2>4. Stream(c)' = Append(Stream(c), e)
    <3>1. got[c] \in Seq(Entry) /\ hand[c] \in Seq(Entry) /\ <<e>> \in Seq(Entry)
      BY StreamSeq
    <3>2. PICK a : a = got[c] \o hand[c]
      OBVIOUS
    <3>3. a \in Seq(Entry)
      BY <3>1, <3>2, ConcatProperties
    <3>4. a \o send[c] \in Seq(Entry)
      BY <2>1, <3>3, ConcatProperties
    <3>5. a \o Append(send[c], e) = a \o (send[c] \o <<e>>)
      BY <2>1, AppendIsConcat
    <3>6. a \o (send[c] \o <<e>>) = (a \o send[c]) \o <<e>>
      <4>1. PICK b, t : b = <<e>> /\ t = send[c]
        OBVIOUS
      <4>2. a \in Seq(Entry) /\ b \in Seq(Entry) /\ t \in Seq(Entry)
        BY <2>1, <3>1, <3>3, <4>1
      <4>3. (a \o t) \o b = a \o (t \o b)
        BY ONLY <4>2, ConcatAssociative
      <4>4. QED
        BY <4>1, <4>3
    <3>7. (a \o send[c]) \o <<e>> = Append(a \o send[c], e)
      BY <3>4, AppendIsConcat
    <3>8. QED
      BY <2>1, <3>2, <3>5, <3>6, <3>7 DEF Stream
  <2>5. QED
    BY <2>1, <2>2, <2>3, <2>4, CapAssumption
<1>3. ASSUME NEW c \in Clients, ~ (c \in cs /\ Room(c))
      PROVE  send'[c] = send[c] /\ Stream(c)' = Stream(c)
  <2>1. send'[c] = send[c]
    BY <1>1, <1>3
  <2>2. QED
    BY <2>1 DEF Stream
<1>4. \A c \in Clients : send'[c] \in Seq(Entry) /\ Len(send'[c]) <= SendCap
  BY <1>2, <1>3 DEF Shapes
<1>5. send' \in [Clients -> Seq(Entry)]
  BY <1>1, <1>4
<1>6. QED
  BY <1>1, <1>2, <1>3, <1>4, <1>5 DEF Shapes

\* A message, live or replayed, is an entry.
LEMMA Entries2 == \A m \in Messages : Live(m) \in Entry /\ Replayed(m) \in Entry
  BY DEF Entry

\* A connection's writer passes its stream on; a failed write loses an entry of it.
LEMMA WriterStreams ==
  ASSUME TInv, NEW c \in Clients, WriterTakes(c) \/ WriteSucceeds(c) \/ WriteFails(c)
  PROVE  /\ send' \in [Clients -> Seq(Entry)] /\ hand' \in [Clients -> Seq(Entry)]
         /\ got' \in [Clients -> Seq(Entry)]
         /\ \A d \in Clients : /\ Len(send'[d]) <= SendCap
                               /\ Len(hand'[d]) = IF writer'[d] = "write" THEN 1 ELSE 0
         /\ \A d \in Clients \ {c} : Stream(d)' = Stream(d)
         /\ \/ Stream(c)' = Stream(c)
            \/ ~ up[c] /\ ~ up'[c] /\ Thinned(Stream(c)', Stream(c))
<1>1. /\ got[c] \in Seq(Entry) /\ hand[c] \in Seq(Entry) /\ send[c] \in Seq(Entry)
      /\ got \in [Clients -> Seq(Entry)] /\ hand \in [Clients -> Seq(Entry)]
      /\ send \in [Clients -> Seq(Entry)]
      /\ writer \in [Clients -> {"absent", "range", "write", "gone"}]
      /\ \A d \in Clients : /\ Len(send[d]) <= SendCap
                            /\ Len(hand[d]) = IF writer[d] = "write" THEN 1 ELSE 0
      /\ <<>> \in Seq(Entry) /\ Len(<<>>) = 0
  BY StreamSeq, EmptySeq DEF TInv, Shapes, MInv, Places
<1>2. CASE WriterTakes(c) /\ send[c] # <<>>
  <2>1. /\ hand' = [hand EXCEPT ![c] = <<Head(send[c])>>]
        /\ send' = [send EXCEPT ![c] = Tail(send[c])]
        /\ writer' = [writer EXCEPT ![c] = "write"] /\ writer[c] = "range" /\ got' = got
    BY <1>2 DEF WriterTakes
  <2>2. /\ Head(send[c]) \in Entry /\ Tail(send[c]) \in Seq(Entry)
        /\ Len(Tail(send[c])) = Len(send[c]) - 1 /\ Len(send[c]) \in Nat
    BY <1>1, <1>2, Taken, LenProperties
  <2>3. <<Head(send[c])>> \in Seq(Entry) /\ Len(<<Head(send[c])>>) = 1
    BY <2>2
  <2>4. hand[c] = <<>>
    <3>1. Len(hand[c]) = 0
      BY <1>1, <2>1
    <3>2. QED
      BY <1>1, <3>1, EmptySeq
  <2>5. send[c] = <<Head(send[c])>> \o Tail(send[c])
    <3>1. PICK n : n = Len(send[c])
      OBVIOUS
    <3>2. n \in Nat /\ 1 \in 1 .. n /\ n \in 1 .. n
      BY <1>1, <1>2, <2>2, <3>1, EmptySeq
    <3>3. SubSeq(send[c], 1, n) = <<send[c][1]>> \o SubSeq(send[c], 2, n)
      BY <1>1, <3>1, <3>2, SubSeqRecursiveFirst
    <3>4. SubSeq(send[c], 1, n) = send[c] /\ SubSeq(send[c], 2, n) = Tail(send[c])
      BY <1>1, <1>2, <3>1, SubSeqFull, TailIsSubSeq
    <3>5. Head(send[c]) = send[c][1]
      BY <1>1, <1>2, Taken
    <3>6. QED
      BY <3>3, <3>4, <3>5
  <2>6. got[c] \o <<Head(send[c])>> \o Tail(send[c]) = got[c] \o hand[c] \o send[c]
    <3>1. got[c] \o <<Head(send[c])>> \o Tail(send[c])
            = got[c] \o (<<Head(send[c])>> \o Tail(send[c]))
      BY <1>1, <2>2, <2>3, ConcatAssociative
    <3>2. got[c] \o <<>> = got[c]
      BY <1>1, ConcatEmptySeq
    <3>3. QED
      BY <2>4, <2>5, <3>1, <3>2
  <2>7. Stream(c)' = Stream(c)
    BY <1>1, <2>1, <2>6 DEF Stream
  <2>8. \A d \in Clients \ {c} : Stream(d)' = Stream(d)
    BY <1>1, <2>1 DEF Stream
  <2>9. \A d \in Clients : /\ Len(send'[d]) <= SendCap
                           /\ Len(hand'[d]) = IF writer'[d] = "write" THEN 1 ELSE 0
    <3>1. Len(send'[c]) <= SendCap /\ Len(hand'[c]) = 1 /\ writer'[c] = "write"
      <4>1. Len(send[c]) <= SendCap
        BY <1>1
      <4>2. Len(send[c]) - 1 <= SendCap
        BY <2>2, <4>1, CapAssumption
      <4>3. send'[c] = Tail(send[c]) /\ hand'[c] = <<Head(send[c])>> /\ writer'[c] = "write"
        BY <1>1, <2>1
      <4>4. QED
        BY <2>2, <2>3, <4>2, <4>3
    <3>2. \A d \in Clients \ {c} : send'[d] = send[d] /\ hand'[d] = hand[d] /\ writer'[d] = writer[d]
      BY <1>1, <2>1
    <3>3. QED
      BY <1>1, <3>1, <3>2
  <2>10. /\ send' \in [Clients -> Seq(Entry)] /\ hand' \in [Clients -> Seq(Entry)]
         /\ got' \in [Clients -> Seq(Entry)]
    BY <1>1, <2>1, <2>2, <2>3
  <2>11. QED
    BY <2>7, <2>8, <2>9, <2>10
<1>3. CASE WriterTakes(c) /\ send[c] = <<>>
  <2>1. /\ UNCHANGED <<hand, send, got>> /\ writer[c] = "range"
        /\ writer' = [writer EXCEPT ![c] = "gone"]
    BY <1>3 DEF WriterTakes
  <2>2. \A d \in Clients : Stream(d)' = Stream(d)
    BY <2>1 DEF Stream
  <2>3. QED
    BY <1>1, <2>1, <2>2
<1>4. CASE WriteSucceeds(c)
  <2>1. /\ got' = [got EXCEPT ![c] = got[c] \o hand[c]]
        /\ hand' = [hand EXCEPT ![c] = <<>>]
        /\ writer' = [writer EXCEPT ![c] = "range"] /\ send' = send
    BY <1>4 DEF WriteSucceeds
  <2>2. got[c] \o hand[c] \in Seq(Entry)
    BY <1>1, ConcatProperties
  <2>3. got[c] \o hand[c] \o <<>> = got[c] \o hand[c]
    BY <2>2, ConcatEmptySeq
  <2>4. Stream(c)' = Stream(c)
    BY <1>1, <2>1, <2>3 DEF Stream
  <2>5. \A d \in Clients \ {c} : Stream(d)' = Stream(d)
    BY <1>1, <2>1 DEF Stream
  <2>6. /\ send' \in [Clients -> Seq(Entry)] /\ hand' \in [Clients -> Seq(Entry)]
        /\ got' \in [Clients -> Seq(Entry)]
    BY <1>1, <2>1, <2>2
  <2>7. \A d \in Clients : /\ Len(send'[d]) <= SendCap
                           /\ Len(hand'[d]) = IF writer'[d] = "write" THEN 1 ELSE 0
    <3>1. hand'[c] = <<>> /\ writer'[c] # "write"
      BY <1>1, <2>1
    <3>2. \A d \in Clients \ {c} : hand'[d] = hand[d] /\ writer'[d] = writer[d]
      BY <1>1, <2>1
    <3>3. Len(hand'[c]) = 0
      BY <1>1, <3>1
    <3>4. \A d \in Clients : Len(send'[d]) <= SendCap
      BY <1>1, <2>1
    <3>5. QED
      BY <1>1, <3>1, <3>2, <3>3, <3>4
  <2>8. QED
    BY <2>4, <2>5, <2>6, <2>7
<1>5. CASE WriteFails(c)
  <2>1. /\ writer[c] = "write" /\ ~ up[c]
        /\ up' = [up EXCEPT ![c] = FALSE]
        /\ hand' = [hand EXCEPT ![c] = <<>>]
        /\ writer' = [writer EXCEPT ![c] = "gone"] /\ UNCHANGED <<got, send>>
    BY <1>5 DEF WriteFails
  <2>2. Len(hand[c]) = 1 /\ ~ up'[c]
    BY <1>1, <2>1 DEF TInv, MInv, Places
  <2>3. Thinned(got[c] \o <<>> \o send[c], got[c] \o hand[c] \o send[c])
    BY <1>1, <2>2, LeftOut
  <2>4. Stream(c)' = got[c] \o <<>> \o send[c] /\ Stream(c) = got[c] \o hand[c] \o send[c]
    BY <1>1, <2>1 DEF Stream
  <2>5. \A d \in Clients \ {c} : Stream(d)' = Stream(d)
    BY <1>1, <2>1 DEF Stream
  <2>6. /\ send' \in [Clients -> Seq(Entry)] /\ hand' \in [Clients -> Seq(Entry)]
        /\ got' \in [Clients -> Seq(Entry)]
    BY <1>1, <2>1
  <2>7. \A d \in Clients : /\ Len(send'[d]) <= SendCap
                           /\ Len(hand'[d]) = IF writer'[d] = "write" THEN 1 ELSE 0
    <3>1. hand'[c] = <<>> /\ writer'[c] # "write"
      BY <1>1, <2>1
    <3>2. \A d \in Clients \ {c} : hand'[d] = hand[d] /\ writer'[d] = writer[d]
      BY <1>1, <2>1
    <3>3. Len(hand'[c]) = 0
      BY <1>1, <3>1
    <3>4. \A d \in Clients : Len(send'[d]) <= SendCap
      BY <1>1, <2>1
    <3>5. QED
      BY <1>1, <3>1, <3>2, <3>3, <3>4
  <2>8. QED
    BY <2>1, <2>2, <2>3, <2>4, <2>5, <2>6, <2>7
<1>6. QED
  BY <1>2, <1>3, <1>4, <1>5

\* The lists of a finite set's elements (SetToSeqs) have each of them once.
LEMMA ListsOf ==
  ASSUME NEW S, IsFiniteSet(S), NEW s \in SetToSeqs(S)
  PROVE  s \in Seq(S) /\ IsInjective(s) /\ ToSet(s) = S /\ DOMAIN s = 1 .. Len(s)
<1>1. PICK n \in Nat : n = Cardinality(S)
  BY FS_CardinalityType
<1>2. s \in [1 .. n -> S] /\ \A i, j \in 1 .. n : i # j => s[i] # s[j]
  BY <1>1 DEF SetToSeqs
<1>3. s \in Seq(S) /\ Len(s) = n
  BY <1>1, <1>2, SeqDef
<1>4. IsInjective(s)
  BY <1>2 DEF IsInjective
<1>5. s \in Injection(1 .. n, S)
  BY <1>2, <1>4 DEF Injection
<1>6. Cardinality(1 .. n) = n
  BY <1>1, FS_Interval
<1>7. s \in Surjection(1 .. n, S)
  BY <1>1, <1>5, <1>6, FS_Injection
<1>8. \A x \in S : \E i \in 1 .. n : s[i] = x
  BY <1>7 DEF Surjection
<1>9. ToSet(s) = S
  BY <1>2, <1>8 DEF ToSet
<1>10. QED
  BY <1>2, <1>3, <1>4, <1>9

\* A message offered to a channel is its last, or dropped.
LEMMA Offered ==
  ASSUME NEW ch \in Seq(Messages), Len(ch) <= ChanCap, NEW m \in Messages
  PROVE  /\ Offer(ch, m) \in Seq(Messages) /\ Len(Offer(ch, m)) <= ChanCap
         /\ ToSet(Offer(ch, m)) \subseteq ToSet(ch) \cup {m}
         /\ IsInjective(ch) /\ m \notin ToSet(ch) => IsInjective(Offer(ch, m))
<1>1. CASE Len(ch) < ChanCap
  <2>1. Offer(ch, m) = Append(ch, m)
    BY <1>1 DEF Offer
  <2>2. /\ Append(ch, m) \in Seq(Messages) /\ DOMAIN ch = 1 .. Len(ch) /\ Len(ch) \in Nat
        /\ DOMAIN Append(ch, m) = 1 .. Len(ch) + 1
        /\ \A i \in 1 .. Len(ch) : Append(ch, m)[i] = ch[i]
        /\ Append(ch, m)[Len(ch) + 1] = m
        /\ ToSet(Append(ch, m)) = ToSet(ch) \cup {m}
        /\ Len(Append(ch, m)) = Len(ch) + 1
    BY Longer, LenProperties, AppendProperties
  <2>3. ASSUME IsInjective(ch), m \notin ToSet(ch) PROVE IsInjective(Append(ch, m))
    <3>1. \A i, j \in 1 .. Len(ch) : ch[i] = ch[j] => i = j
      BY <2>2, <2>3 DEF IsInjective
    <3>2. \A i \in 1 .. Len(ch) : ch[i] # m
      BY <2>2, <2>3 DEF ToSet
    <3>3. \A i \in 1 .. Len(ch) + 1 : i \in 1 .. Len(ch) \/ i = Len(ch) + 1
      BY <2>2
    <3>4. QED
      BY <2>2, <3>1, <3>2, <3>3 DEF IsInjective
  <2>4. QED
    BY <1>1, <2>1, <2>2, <2>3, CapAssumption
<1>2. CASE ~ (Len(ch) < ChanCap)
  BY <1>2 DEF Offer
<1>3. QED
  BY <1>1, <1>2

\* The consumer fills the channels.
LEMMA ConsumeTypes ==
  ASSUME TInv, Consume
  PROVE  Shapes' /\ Phase'
<1>1. PICK m \in Messages : /\ Broadcast(m) \/ BroadcastRaw(m) \/ BroadcastCEPAlertRaw(m)
                            /\ offered' = offered \cup {m}
  BY DEF Consume
<1>2. UNCHANGED <<clients, metricCache, alertCache, loop, pending, send, hand, got, writer>>
  BY DEF Consume, hubVars, connVars
<1>3. /\ broadcast' = broadcast \/ (m.kind = "event" /\ broadcast' = Offer(broadcast, m))
      /\ raw' = raw \/ (m.kind = "metric" /\ raw' = Offer(raw, m))
      /\ alerts' = alerts \/ (m.kind = "alert" /\ alerts' = Offer(alerts, m))
  BY <1>1 DEF Broadcast, BroadcastRaw, BroadcastCEPAlertRaw
<1>4. /\ offered \subseteq Messages
      /\ broadcast \in Seq(Messages) /\ \A x \in ToSet(broadcast) : x.kind = "event"
      /\ raw \in Seq(Messages) /\ \A x \in ToSet(raw) : x.kind = "metric"
      /\ alerts \in Seq(Messages) /\ \A x \in ToSet(alerts) : x.kind = "alert"
      /\ Len(broadcast) <= ChanCap /\ Len(raw) <= ChanCap /\ Len(alerts) <= ChanCap
  BY DEF TInv, Shapes
<1>5. /\ broadcast' \in Seq(Messages) /\ Len(broadcast') <= ChanCap
      /\ \A x \in ToSet(broadcast') : x.kind = "event"
  BY <1>3, <1>4, Offered
<1>6. raw' \in Seq(Messages) /\ Len(raw') <= ChanCap /\ \A x \in ToSet(raw') : x.kind = "metric"
  BY <1>3, <1>4, Offered
<1>7. /\ alerts' \in Seq(Messages) /\ Len(alerts') <= ChanCap
      /\ \A x \in ToSet(alerts') : x.kind = "alert"
  BY <1>3, <1>4, Offered
<1>8. Shapes'
  BY <1>1, <1>2, <1>4, <1>5, <1>6, <1>7 DEF TInv, Shapes
<1>9. Phase'
  BY <1>2 DEF TInv, Phase, Dashboards
<1>10. QED
  BY <1>8, <1>9

\* What the hub takes out of a channel.
LEMMA HeadOf ==
  ASSUME NEW ch \in Seq(Messages), Len(ch) <= ChanCap, ch # <<>>
  PROVE  /\ Head(ch) \in Messages /\ Head(ch) \in ToSet(ch)
         /\ Tail(ch) \in Seq(Messages) /\ Len(Tail(ch)) <= ChanCap
         /\ ToSet(Tail(ch)) \subseteq ToSet(ch)
<1>1. /\ Head(ch) \in Messages /\ Head(ch) \in ToSet(ch) /\ Tail(ch) \in Seq(Messages)
      /\ Len(Tail(ch)) = Len(ch) - 1 /\ ToSet(Tail(ch)) \subseteq ToSet(ch)
  BY Taken
<1>2. Len(ch) \in Nat
  BY LenProperties
<1>3. QED
  BY <1>1, <1>2, CapAssumption

\* An event goes out.
LEMMA BroadcastTypes ==
  ASSUME TInv, HandleBroadcast
  PROVE  Shapes' /\ Phase'
<1>1. /\ broadcast \in Seq(Messages) /\ Len(broadcast) <= ChanCap /\ broadcast # <<>>
      /\ broadcast' = Tail(broadcast)
      /\ UNCHANGED <<clients, metricCache, alertCache, loop, pending, raw, alerts, hand, got,
                     writer, offered>>
      /\ Push({c \in clients : ShouldSend(c, Head(broadcast))}, Live(Head(broadcast)))
  BY DEF TInv, Shapes, HandleBroadcast, hubVars, connVars
<1>2. /\ Head(broadcast) \in Messages /\ Tail(broadcast) \in Seq(Messages)
      /\ Len(Tail(broadcast)) <= ChanCap /\ ToSet(Tail(broadcast)) \subseteq ToSet(broadcast)
  BY <1>1, HeadOf
<1>3. /\ send' \in [Clients -> Seq(Entry)] /\ hand' \in [Clients -> Seq(Entry)]
      /\ got' \in [Clients -> Seq(Entry)]
      /\ \A c \in Clients : /\ Len(send'[c]) <= SendCap
                            /\ Len(hand'[c]) = IF writer'[c] = "write" THEN 1 ELSE 0
  BY <1>1, <1>2, Entries2, PushStreams DEF TInv
<1>4. Shapes'
  BY <1>1, <1>2, <1>3 DEF TInv, Shapes
<1>5. Phase'
  BY <1>1 DEF TInv, Phase, Dashboards
<1>6. QED
  BY <1>4, <1>5

\* A metric goes out and into the cache.
LEMMA RawTypes ==
  ASSUME TInv, HandleRaw
  PROVE  Shapes' /\ Phase'
<1>1. /\ raw \in Seq(Messages) /\ Len(raw) <= ChanCap /\ raw # <<>>
      /\ raw' = Tail(raw) /\ metricCache' = Cached(Head(raw))
      /\ UNCHANGED <<clients, alertCache, loop, pending, broadcast, alerts, hand, got,
                     writer, offered>>
      /\ Push(Dashboards, Live(Head(raw)))
  BY DEF TInv, Shapes, HandleRaw, connVars
<1>2. /\ Head(raw) \in Messages /\ Head(raw).kind = "metric" /\ Tail(raw) \in Seq(Messages)
      /\ Len(Tail(raw)) <= ChanCap /\ ToSet(Tail(raw)) \subseteq ToSet(raw)
  BY <1>1, HeadOf DEF TInv, Shapes
<1>3. /\ send' \in [Clients -> Seq(Entry)] /\ hand' \in [Clients -> Seq(Entry)]
      /\ got' \in [Clients -> Seq(Entry)]
      /\ \A c \in Clients : /\ Len(send'[c]) <= SendCap
                            /\ Len(hand'[c]) = IF writer'[c] = "write" THEN 1 ELSE 0
  BY <1>1, <1>2, Entries2, PushStreams DEF TInv
<1>4. /\ IsFiniteSet(DOMAIN metricCache')
      /\ \A k \in DOMAIN metricCache' :
           /\ metricCache'[k] \in Messages /\ metricCache'[k].key = k
           /\ metricCache'[k].kind = "metric" /\ k # NotCacheable
  <2>1. PICK m : m = Head(raw)
    OBVIOUS
  <2>2. CASE m.key = NotCacheable
    BY <1>1, <2>1, <2>2 DEF TInv, Shapes, Cached
  <2>3. CASE m.key # NotCacheable
    <3>1. metricCache' = [k \in DOMAIN metricCache \cup {m.key} |->
                            IF k = m.key THEN m ELSE metricCache[k]]
      BY <1>1, <2>1, <2>3 DEF Cached
    <3>2. IsFiniteSet(DOMAIN metricCache \cup {m.key})
      BY FS_AddElement DEF TInv, Shapes
    <3>3. QED
      BY <1>2, <2>1, <2>3, <3>1, <3>2 DEF TInv, Shapes
  <2>4. QED
    BY <2>2, <2>3
<1>5. Shapes'
  BY <1>1, <1>2, <1>3, <1>4 DEF TInv, Shapes
<1>6. Phase'
  BY <1>1 DEF TInv, Phase, Dashboards
<1>7. QED
  BY <1>5, <1>6

\* The ids of recent alerts are some of the cached.
LEMMA RecentFinite ==
  ASSUME TInv
  PROVE  RecentIds \subseteq DOMAIN alertCache /\ IsFiniteSet(RecentIds)
<1>1. RecentIds \subseteq DOMAIN alertCache
  BY DEF RecentIds
<1>2. QED
  BY <1>1, FS_Subset DEF TInv, Shapes

\* An alert goes out and, if it is recent, into the cache.
LEMMA AlertTypes ==
  ASSUME TInv, HandleAlert
  PROVE  Shapes' /\ Phase'
<1>1. PICK a, kept :
        /\ a = Head(alerts) /\ kept = IF a.at # NoTime /\ Recent(a) THEN {a.id} ELSE {}
        /\ alertCache' = [i \in RecentIds \cup kept |-> IF i \in kept THEN a ELSE alertCache[i]]
        /\ Push(Dashboards, Live(a))
  BY DEF HandleAlert
<1>2. /\ alerts \in Seq(Messages) /\ Len(alerts) <= ChanCap /\ alerts # <<>>
      /\ alerts' = Tail(alerts)
      /\ UNCHANGED <<clients, metricCache, loop, pending, broadcast, raw, hand, got,
                     writer, offered>>
  BY DEF TInv, Shapes, HandleAlert, connVars
<1>3. /\ a \in Messages /\ a.kind = "alert" /\ Tail(alerts) \in Seq(Messages)
      /\ Len(Tail(alerts)) <= ChanCap /\ ToSet(Tail(alerts)) \subseteq ToSet(alerts)
  BY <1>1, <1>2, HeadOf DEF TInv, Shapes
<1>4. /\ send' \in [Clients -> Seq(Entry)] /\ hand' \in [Clients -> Seq(Entry)]
      /\ got' \in [Clients -> Seq(Entry)]
      /\ \A c \in Clients : /\ Len(send'[c]) <= SendCap
                            /\ Len(hand'[c]) = IF writer'[c] = "write" THEN 1 ELSE 0
  BY <1>1, <1>2, <1>3, Entries2, PushStreams DEF TInv
<1>5. /\ IsFiniteSet(DOMAIN alertCache')
      /\ \A i \in DOMAIN alertCache' :
           /\ alertCache'[i] \in Messages /\ alertCache'[i].id = i
           /\ alertCache'[i].kind = "alert"
  <2>1. RecentIds \subseteq DOMAIN alertCache /\ IsFiniteSet(RecentIds)
    BY RecentFinite
  <2>2. kept \subseteq {a.id} /\ IsFiniteSet(kept)
    BY <1>1, FS_EmptySet, FS_Singleton
  <2>3. IsFiniteSet(RecentIds \cup kept)
    BY <2>1, <2>2, FS_Union
  <2>4. QED
    BY <1>1, <1>3, <2>1, <2>2, <2>3 DEF TInv, Shapes
<1>6. Shapes'
  BY <1>2, <1>3, <1>4, <1>5 DEF TInv, Shapes
<1>7. Phase'
  BY <1>2 DEF TInv, Phase, Dashboards
<1>8. QED
  BY <1>6, <1>7

\* What is replayed of the metrics: each cached value, once.
LEMMA MetricsToReplay ==
  ASSUME TInv, NEW keys \in SortedKeys, NEW rest,
         rest = [i \in DOMAIN keys |-> metricCache[keys[i]]]
  PROVE  /\ rest \in Seq(Messages) /\ IsInjective(rest)
         /\ ToSet(rest) = {metricCache[k] : k \in DOMAIN metricCache}
<1>1. /\ keys \in SetToSeqs(DOMAIN metricCache) /\ IsFiniteSet(DOMAIN metricCache)
      /\ \A k \in DOMAIN metricCache : metricCache[k] \in Messages /\ metricCache[k].key = k
  BY DEF SortedKeys, TInv, Shapes
<1>2. /\ keys \in Seq(DOMAIN metricCache) /\ IsInjective(keys)
      /\ ToSet(keys) = DOMAIN metricCache /\ DOMAIN keys = 1 .. Len(keys)
  BY <1>1, ListsOf
<1>3. Len(keys) \in Nat /\ \A i \in 1 .. Len(keys) : keys[i] \in DOMAIN metricCache
  BY <1>2, ElementOfSeq, LenProperties
<1>4. rest \in [1 .. Len(keys) -> Messages]
  BY <1>1, <1>2, <1>3
<1>5. rest \in Seq(Messages) /\ DOMAIN rest = DOMAIN keys
  BY <1>2, <1>3, <1>4, SeqDef
<1>6. IsInjective(rest)
  <2>1. ASSUME NEW i \in DOMAIN keys, NEW j \in DOMAIN keys, rest[i] = rest[j] PROVE i = j
    <3>1. metricCache[keys[i]] = metricCache[keys[j]]
      BY <2>1
    <3>2. keys[i] = keys[j]
      BY <1>1, <1>2, <1>3, <3>1
    <3>3. QED
      BY <1>2, <3>2 DEF IsInjective
  <2>2. QED
    BY <1>5, <2>1 DEF IsInjective
<1>7. ToSet(rest) = {metricCache[k] : k \in DOMAIN metricCache}
  <2>1. \A k \in DOMAIN metricCache : \E i \in DOMAIN keys : keys[i] = k
    BY <1>2 DEF ToSet
  <2>2. \A i \in DOMAIN keys : keys[i] \in DOMAIN metricCache /\ rest[i] = metricCache[keys[i]]
    BY <1>2, <1>3
  <2>3. QED
    BY <1>5, <2>1, <2>2 DEF ToSet
<1>8. QED
  BY <1>5, <1>6, <1>7

\* What is replayed of the alerts: each recent one, once, oldest first.
LEMMA AlertsToReplay ==
  ASSUME TInv, NEW as \in SortedAlerts
  PROVE  /\ as \in Seq(Messages) /\ IsInjective(as)
         /\ ToSet(as) = {alertCache[i] : i \in RecentIds}
         /\ \A i, j \in DOMAIN as : i < j => Earlier(as[i], as[j])
<1>1. PICK S : S = {alertCache[i] : i \in RecentIds}
  OBVIOUS
<1>2. as \in SetToSeqs(S) /\ \A i, j \in DOMAIN as : i < j => Earlier(as[i], as[j])
  BY <1>1 DEF SortedAlerts
<1>3. PICK f : f = [i \in RecentIds |-> alertCache[i]]
  OBVIOUS
<1>4. f \in Surjection(RecentIds, S)
  BY <1>1, <1>3 DEF Surjection
<1>5. IsFiniteSet(S)
  BY <1>4, RecentFinite, FS_Surjection
<1>6. as \in Seq(S) /\ IsInjective(as) /\ ToSet(as) = S
  BY <1>2, <1>5, ListsOf
<1>7. S \subseteq Messages
  BY <1>1, RecentFinite DEF TInv, Shapes
<1>8. as \in Seq(Messages)
  BY <1>6, <1>7, SeqMonotonic
<1>9. QED
  BY <1>1, <1>2, <1>6, <1>8

\* A connection comes in, and the replay begins if it is a dashboard's.
LEMMA RegisterTypes ==
  ASSUME TInv, NEW c \in Clients, HandleRegister(c)
  PROVE  Shapes' /\ Phase'
<1>1. /\ UNCHANGED <<metricCache, alertCache, broadcast, raw, alerts, send, hand, got, offered>>
      /\ clients' = clients \cup {c}
      /\ writer' = [writer EXCEPT ![c] = "range"] /\ reader[c] = "register"
      /\ loop = "select"
  BY DEF HandleRegister, channels, Selecting
<1>2. \A d \in Clients : Len(hand'[d]) = IF writer'[d] = "write" THEN 1 ELSE 0
  <2>1. writer \in [Clients -> {"absent", "range", "write", "gone"}] /\ writer[c] = "absent"
    BY <1>1 DEF TInv, MInv, Places
  <2>2. /\ writer'[c] = "range" /\ \A d \in Clients \ {c} : writer'[d] = writer[d]
        /\ hand' = hand
    BY <1>1, <2>1
  <2>3. \A d \in Clients : Len(hand[d]) = IF writer[d] = "write" THEN 1 ELSE 0
    BY DEF TInv, Shapes
  <2>4. QED
    BY <2>1, <2>2, <2>3
<1>3. \/ Role(c) # "dashboard" /\ UNCHANGED <<loop, pending>>
      \/ /\ Role(c) = "dashboard" /\ loop' = "replayMetrics"
         /\ \E keys \in SortedKeys :
              pending' = [to |-> {c}, rest |-> [i \in DOMAIN keys |-> metricCache[keys[i]]]]
  BY DEF HandleRegister
<1>4. /\ pending' = [to |-> pending'.to, rest |-> pending'.rest]
      /\ pending'.rest \in Seq(Messages)
  <2>1. CASE UNCHANGED <<loop, pending>>
    BY <2>1 DEF TInv, Shapes
  <2>2. ASSUME NEW keys \in SortedKeys,
               pending' = [to |-> {c}, rest |-> [i \in DOMAIN keys |-> metricCache[keys[i]]]]
        PROVE  /\ pending' = [to |-> pending'.to, rest |-> pending'.rest]
               /\ pending'.rest \in Seq(Messages)
    BY <2>2, MetricsToReplay
  <2>3. QED
    BY <1>3, <2>1, <2>2
<1>5. Shapes'
  BY <1>1, <1>2, <1>4 DEF TInv, Shapes
<1>6. Phase'
  <2>1. Role(c) # "dashboard" => Phase'
    BY <1>1, <1>3 DEF TInv, Phase
  <2>2. ASSUME Role(c) = "dashboard" PROVE Phase'
    <3>1. loop' = "replayMetrics" /\ pending'.to = {c}
      BY <1>3, <2>2
    <3>2. c \in Dashboards'
      BY <1>1, <2>2 DEF Dashboards, Role
    <3>3. QED
      BY <3>1, <3>2 DEF Phase
  <2>3. QED
    BY <2>1, <2>2
<1>7. QED
  BY <1>5, <1>6

\* A connection is let go, which happens between replays only.
LEMMA UnregisterTypes ==
  ASSUME TInv, NEW c \in Clients, HandleUnregister(c)
  PROVE  Shapes' /\ Phase'
<1>1. UNCHANGED <<metricCache, alertCache, broadcast, raw, alerts, send, hand, got, offered,
                  pending, loop, writer>> /\ loop = "select"
  BY DEF HandleUnregister, channels, Selecting
<1>2. Shapes'
  BY <1>1 DEF TInv, Shapes
<1>3. Phase'
  BY <1>1 DEF TInv, Phase
<1>4. QED
  BY <1>2, <1>3

\* During a replay somebody is replayed to, and else there is nothing to replay.
LEMMA Replaying ==
  ASSUME TInv, pending.rest # <<>> \/ loop \in {"replayMetrics", "replayAlerts"}
  PROVE  /\ loop \in {"replayMetrics", "replayAlerts"}
         /\ \E c \in Dashboards : pending.to = {c}
  BY DEF TInv, Phase

\* The next message of a replay goes out.
LEMMA ReplayOneTypes ==
  ASSUME TInv, ReplayOne
  PROVE  Shapes' /\ Phase'
<1>1. /\ pending.rest # <<>> /\ pending.rest \in Seq(Messages)
      /\ pending' = [pending EXCEPT !.rest = Tail(pending.rest)]
      /\ UNCHANGED <<clients, metricCache, alertCache, loop, broadcast, raw, alerts, hand, got,
                     writer, offered>>
      /\ Push(pending.to, Replayed(Head(pending.rest)))
  BY DEF TInv, Shapes, ReplayOne, channels, connVars
<1>2. Head(pending.rest) \in Messages /\ Tail(pending.rest) \in Seq(Messages)
  BY <1>1, Taken
<1>3. /\ send' \in [Clients -> Seq(Entry)] /\ hand' \in [Clients -> Seq(Entry)]
      /\ got' \in [Clients -> Seq(Entry)]
      /\ \A c \in Clients : /\ Len(send'[c]) <= SendCap
                            /\ Len(hand'[c]) = IF writer'[c] = "write" THEN 1 ELSE 0
  BY <1>1, <1>2, Entries2, PushStreams DEF TInv
<1>4. pending' = [to |-> pending.to, rest |-> Tail(pending.rest)]
  BY <1>1 DEF TInv, Shapes
<1>5. Shapes'
  BY <1>1, <1>2, <1>3, <1>4 DEF TInv, Shapes
<1>6. loop \in {"replayMetrics", "replayAlerts"} /\ \E c \in Dashboards : pending.to = {c}
  BY <1>1, Replaying
<1>7. Phase'
  BY <1>1, <1>4, <1>6 DEF Phase, Dashboards
<1>8. QED
  BY <1>5, <1>7

\* After the metrics the alerts.
LEMMA ReplayAlertsTypes ==
  ASSUME TInv, ReplayAlerts
  PROVE  Shapes' /\ Phase'
<1>1. /\ loop = "replayMetrics" /\ loop' = "replayAlerts"
      /\ alertCache' = [i \in RecentIds |-> alertCache[i]]
      /\ UNCHANGED <<clients, metricCache, broadcast, raw, alerts, send, hand, got, writer, offered>>
  BY DEF ReplayAlerts, channels, connVars
<1>2. PICK as \in SortedAlerts : pending' = [pending EXCEPT !.rest = as]
  BY DEF ReplayAlerts
<1>3. pending' = [to |-> pending.to, rest |-> as] /\ as \in Seq(Messages)
  BY <1>2, AlertsToReplay DEF TInv, Shapes
<1>4. RecentIds \subseteq DOMAIN alertCache /\ IsFiniteSet(RecentIds)
  BY RecentFinite
<1>5. Shapes'
  BY <1>1, <1>3, <1>4 DEF TInv, Shapes
<1>6. \E c \in Dashboards : pending.to = {c}
  BY <1>1, Replaying
<1>7. Phase'
  BY <1>1, <1>3, <1>6 DEF Phase, Dashboards
<1>8. QED
  BY <1>5, <1>7

\* The replay is over.
LEMMA EndReplayTypes ==
  ASSUME TInv, EndReplay
  PROVE  Shapes' /\ Phase'
<1>1. /\ loop' = "select" /\ pending' = [to |-> {}, rest |-> <<>>]
      /\ UNCHANGED <<clients, metricCache, alertCache, broadcast, raw, alerts, send, hand, got,
                     writer, offered>>
  BY DEF EndReplay, channels, connVars
<1>2. <<>> \in Seq(Messages)
  BY EmptySeq
<1>3. Shapes'
  BY <1>1, <1>2 DEF TInv, Shapes
<1>4. Phase'
  BY <1>1 DEF Phase
<1>5. QED
  BY <1>3, <1>4

\* Steps that leave the hub's work alone.
LEMMA AsideTypes ==
  ASSUME TInv, \/ Close \/ Tick \/ Return \/ UNCHANGED vars
               \/ \E c \in Clients : Accept(c) \/ Disconnect(c) \/ ReadFails(c) \/ ReaderEnds(c)
  PROVE  Shapes' /\ Phase'
<1>1. /\ UNCHANGED <<clients, metricCache, alertCache, broadcast, raw, alerts, send, hand, got,
                     writer, offered, pending>>
      /\ loop' = loop \/ (loop = "select" /\ loop' = "returned")
  BY DEF Close, Tick, Return, Accept, Disconnect, ReadFails, ReaderEnds, vars, hubVars, channels,
         connVars, Selecting
<1>2. Shapes'
  BY <1>1 DEF TInv, Shapes
<1>3. Phase'
  BY <1>1 DEF TInv, Phase, Dashboards
<1>4. QED
  BY <1>2, <1>3

\* The steps of a writer.
LEMMA WriterTypes ==
  ASSUME TInv, NEW c \in Clients, WriterTakes(c) \/ WriteSucceeds(c) \/ WriteFails(c)
  PROVE  Shapes' /\ Phase'
<1>1. UNCHANGED <<clients, metricCache, alertCache, broadcast, raw, alerts, offered, pending, loop>>
  BY DEF WriterTakes, WriteSucceeds, WriteFails, hubVars, channels
<1>2. /\ send' \in [Clients -> Seq(Entry)] /\ hand' \in [Clients -> Seq(Entry)]
      /\ got' \in [Clients -> Seq(Entry)]
      /\ \A d \in Clients : /\ Len(send'[d]) <= SendCap
                            /\ Len(hand'[d]) = IF writer'[d] = "write" THEN 1 ELSE 0
  BY WriterStreams
<1>3. Shapes'
  BY <1>1, <1>2 DEF TInv, Shapes
<1>4. Phase'
  BY <1>1 DEF TInv, Phase, Dashboards
<1>5. QED
  BY <1>3, <1>4

\* Every step keeps types and phases.
LEMMA NextTInv ==
  ASSUME TInv, [Next]_vars
  PROVE  TInv'
<1>1. MInv'
  BY NextMInv DEF TInv
<1>2. CASE Run
  BY <1>1, <1>2, BroadcastTypes, RawTypes, AlertTypes, RegisterTypes, UnregisterTypes,
     ReplayOneTypes, ReplayAlertsTypes, EndReplayTypes, AsideTypes DEF Run, TInv
<1>3. CASE Consume
  BY <1>1, <1>3, ConsumeTypes DEF TInv
<1>4. CASE Close \/ Tick \/ UNCHANGED vars
  BY <1>1, <1>4, AsideTypes DEF TInv
<1>5. ASSUME NEW c \in Clients,
             \/ Accept(c) \/ Disconnect(c) \/ ReadFails(c) \/ ReaderEnds(c)
             \/ WriterTakes(c) \/ WriteSucceeds(c) \/ WriteFails(c)
      PROVE  TInv'
  BY <1>1, <1>5, AsideTypes, WriterTypes DEF TInv
<1>6. QED
  BY <1>2, <1>3, <1>4, <1>5 DEF Next

\* A hub that has seen nothing.
LEMMA InitTInv == Init => TInv
<1> SUFFICES ASSUME Init PROVE TInv
  OBVIOUS
<1>1. /\ <<>> \in Seq(Messages) /\ <<>> \in Seq(Entry) /\ Len(<<>>) = 0
      /\ DOMAIN <<>> = {} /\ IsFiniteSet({})
  BY EmptySeq, FS_EmptySet
<1>2. ToSet(<<>>) = {}
  BY <1>1 DEF ToSet
<1>3. Shapes
  BY <1>1, <1>2, CapAssumption DEF Init, Shapes
<1>4. Phase
  BY DEF Init, Phase
<1>5. QED
  BY <1>3, <1>4, InitMInv DEF TInv

\* Types, and no channel or buffer ever holds more than its capacity, whatever
\* is offered and however slowly it is read.
THEOREM HubTypes == Spec => []TypeOK
<1>1. TInv => TypeOK
  <2> SUFFICES ASSUME TInv PROVE TypeOK
    OBVIOUS
  <2>1. pending.to \subseteq clients
    BY DEF TInv, Phase, Dashboards
  <2>2. QED
    BY <2>1 DEF TInv, Shapes, Phase, MInv, Places, TypeOK
<1>2. Init /\ [][Next]_vars => []TInv
  BY InitTInv, NextTInv, PTL
<1>3. QED
  BY <1>1, <1>2, PTL DEF Spec

-----------------------------------------------------------------------------
(* The order of streams.                                                   *)

\* A stream that stays is one with nothing left out.
LEMMA Whole ==
  ASSUME NEW S, NEW s \in Seq(S)
  PROVE  Thinned(s, s)
<1>1. Len(s) \in Nat /\ DOMAIN s = 1 .. Len(s)
  BY LenProperties
<1>2. \A i \in DOMAIN s : LET j == IF i <= Len(s) THEN i ELSE i + 1 IN j \in DOMAIN s /\ s[i] = s[j]
  BY <1>1
<1>3. QED
  BY <1>1, <1>2 DEF Thinned

\* Where the elements of a thinned sequence were, and in the same order.
LEMMA ThinnedFrom ==
  ASSUME NEW S, NEW t \in Seq(S), NEW s \in Seq(S), Thinned(t, s)
  PROVE  \E f : /\ \A i \in DOMAIN t : f[i] \in DOMAIN s /\ t[i] = s[f[i]]
                /\ \A i, j \in DOMAIN t : i < j => f[i] < f[j]
                /\ \A i, j \in DOMAIN t : f[i] = f[j] => i = j
<1>1. PICK p \in Nat : \A i \in DOMAIN t :
        LET j == IF i <= p THEN i ELSE i + 1 IN j \in DOMAIN s /\ t[i] = s[j]
  BY DEF Thinned
<1>2. DOMAIN t = 1 .. Len(t) /\ Len(t) \in Nat
  BY LenProperties
<1>3. PICK f : f = [i \in DOMAIN t |-> IF i <= p THEN i ELSE i + 1]
  OBVIOUS
<1>4. \A i \in DOMAIN t : f[i] = IF i <= p THEN i ELSE i + 1
  BY <1>3
<1>5. \A i \in DOMAIN t : f[i] \in DOMAIN s /\ t[i] = s[f[i]]
  BY <1>1, <1>4
<1>6. /\ \A i, j \in DOMAIN t : i < j => f[i] < f[j]
      /\ \A i, j \in DOMAIN t : f[i] = f[j] => i = j
  BY <1>2, <1>4
<1>7. QED
  BY <1>5, <1>6

\* Two streams of which nothing common comes in another order.
Agree(s, t) ==
  \A i, j \in DOMAIN s, k, l \in DOMAIN t :
    i < j /\ ~ s[i].replay /\ ~ s[j].replay /\ k < l => ~ (t[k] = s[j] /\ t[l] = s[i])

\* A replay, and then what is live.
ReplayFirst(s) == \A i, j \in DOMAIN s : i <= j /\ s[j].replay => s[i].replay

\* The property in these words.
Ordered ==
  /\ \A c \in Clients : IsInjective(Stream(c)) /\ ReplayFirst(Stream(c))
  /\ \A c \in Clients : \A d \in Clients \ {c} : Agree(Stream(c), Stream(d))

\* What it says of the streams.
LEMMA OrderSaid ==
  ASSUME TInv, Ordered
  PROVE  StreamOrder /\ SameOrder
<1>1. \A c \in Clients : DOMAIN Stream(c) = 1 .. Len(Stream(c)) /\ Len(Stream(c)) \in Nat
  BY StreamSeq DEF TInv
<1>2. ASSUME NEW c \in Clients
      PROVE  LET s == Stream(c) IN
             \A j \in DOMAIN s : s[j].replay => \A i \in 1 .. j : s[i].replay
  BY <1>1 DEF Ordered, ReplayFirst
<1>3. ASSUME NEW c \in Clients, NEW d \in Clients
      PROVE  LET s == Stream(c) t == Stream(d) IN
             \A i, j \in DOMAIN s :
               i < j /\ ~ s[i].replay /\ ~ s[j].replay =>
                 ~ \E k, l \in DOMAIN t : k < l /\ t[k] = s[j] /\ t[l] = s[i]
  <2>1. CASE d # c
    BY <2>1 DEF Ordered, Agree
  <2>2. CASE d = c
    <3>1. IsInjective(Stream(c))
      BY DEF Ordered
    <3>2. QED
      BY <1>1, <2>2, <3>1 DEF IsInjective
  <2>3. QED
    BY <2>1, <2>2
<1>4. StreamOrder
  BY <1>2 DEF Ordered, StreamOrder
<1>5. SameOrder
  BY <1>3 DEF SameOrder
<1>6. QED
  BY <1>4, <1>5

\* Streams that lose entries keep their order.
LEMMA ThinnedOrder ==
  ASSUME TInv, TInv', Ordered, \A c \in Clients : Thinned(Stream(c)', Stream(c))
  PROVE  Ordered'
<1>1. \A c \in Clients : Stream(c) \in Seq(Entry) /\ Stream(c)' \in Seq(Entry)
  BY StreamSeq, StreamSeqNext DEF TInv
<1>2. /\ \A c \in Clients : IsInjective(Stream(c)) /\ ReplayFirst(Stream(c))
      /\ \A c \in Clients : \A d \in Clients \ {c} : Agree(Stream(c), Stream(d))
  BY DEF Ordered
<1>3. ASSUME NEW c \in Clients PROVE IsInjective(Stream(c)') /\ ReplayFirst(Stream(c)')
  <2>1. PICK s, t : s = Stream(c) /\ t = Stream(c)'
    OBVIOUS
  <2>2. PICK f : /\ \A i \in DOMAIN t : f[i] \in DOMAIN s /\ t[i] = s[f[i]]
                 /\ \A i, j \in DOMAIN t : i < j => f[i] < f[j]
                 /\ \A i, j \in DOMAIN t : f[i] = f[j] => i = j
    <3>1. t \in Seq(Entry) /\ s \in Seq(Entry) /\ Thinned(t, s)
      BY <1>1, <2>1
    <3>2. QED
      BY ONLY <3>1, ThinnedFrom
  <2>3. DOMAIN s = 1 .. Len(s) /\ DOMAIN t = 1 .. Len(t) /\ Len(s) \in Nat /\ Len(t) \in Nat
    BY <1>1, <2>1, LenProperties
  <2>4. IsInjective(t)
    BY <1>2, <2>1, <2>2 DEF IsInjective
  <2>5. ReplayFirst(t)
    <3>1. ASSUME NEW i \in DOMAIN t, NEW j \in DOMAIN t, i <= j, t[j].replay PROVE t[i].replay
      <4>1. f[i] <= f[j] /\ f[i] \in DOMAIN s /\ f[j] \in DOMAIN s
        BY <2>2, <2>3, <3>1
      <4>2. QED
        BY <1>2, <2>1, <2>2, <3>1, <4>1 DEF ReplayFirst
    <3>2. QED
      BY <3>1 DEF ReplayFirst
  <2>6. QED
    BY <2>1, <2>4, <2>5
<1>4. ASSUME NEW c \in Clients, NEW d \in Clients \ {c} PROVE Agree(Stream(c)', Stream(d)')
  <2>1. PICK s, t, u, v : s = Stream(c) /\ t = Stream(c)' /\ u = Stream(d) /\ v = Stream(d)'
    OBVIOUS
  <2>2. PICK f : /\ \A i \in DOMAIN t : f[i] \in DOMAIN s /\ t[i] = s[f[i]]
                 /\ \A i, j \in DOMAIN t : i < j => f[i] < f[j]
                 /\ \A i, j \in DOMAIN t : f[i] = f[j] => i = j
    <3>1. t \in Seq(Entry) /\ s \in Seq(Entry) /\ Thinned(t, s)
      BY <1>1, <2>1
    <3>2. QED
      BY ONLY <3>1, ThinnedFrom
  <2>3. PICK g : /\ \A i \in DOMAIN v : g[i] \in DOMAIN u /\ v[i] = u[g[i]]
                 /\ \A i, j \in DOMAIN v : i < j => g[i] < g[j]
                 /\ \A i, j \in DOMAIN v : g[i] = g[j] => i = j
    <3>1. v \in Seq(Entry) /\ u \in Seq(Entry) /\ Thinned(v, u)
      BY <1>1, <2>1
    <3>2. QED
      BY ONLY <3>1, ThinnedFrom
  <2>4. Agree(s, u)
    BY <1>2, <2>1
  <2>5. ASSUME NEW i \in DOMAIN t, NEW j \in DOMAIN t, NEW k \in DOMAIN v, NEW l \in DOMAIN v,
               i < j, ~ t[i].replay, ~ t[j].replay, k < l, v[k] = t[j], v[l] = t[i]
        PROVE  FALSE
    <3>1. /\ f[i] \in DOMAIN s /\ f[j] \in DOMAIN s /\ f[i] < f[j]
          /\ t[i] = s[f[i]] /\ t[j] = s[f[j]]
      BY <2>2, <2>5
    <3>2. /\ g[k] \in DOMAIN u /\ g[l] \in DOMAIN u /\ g[k] < g[l]
          /\ v[k] = u[g[k]] /\ v[l] = u[g[l]]
      BY <2>3, <2>5
    <3>3. QED
      BY <2>4, <2>5, <3>1, <3>2 DEF Agree
  <2>6. QED
    BY <2>1, <2>5 DEF Agree
<1>5. QED
  BY <1>3, <1>4 DEF Ordered

\* A new entry, sent to some, keeps all in order: a live one is nowhere yet, and
\* a replayed one comes after nothing but its replay.
LEMMA PushOrder ==
  ASSUME TInv, TInv', Ordered, NEW cs, NEW e \in Entry, Push(cs, e),
         UNCHANGED <<hand, got, writer>>,
         \A c \in Clients : (c \in cs \/ ~ e.replay) => e \notin Entries(c),
         e.replay => \A c \in Clients : c \in cs => \A x \in Entries(c) : x.replay
  PROVE  Ordered'
<1>1. \A c \in Clients : Stream(c) \in Seq(Entry) /\ Stream(c)' \in Seq(Entry)
  BY StreamSeq, StreamSeqNext DEF TInv
<1>2. /\ \A c \in Clients : IsInjective(Stream(c)) /\ ReplayFirst(Stream(c))
      /\ \A c \in Clients : \A d \in Clients \ {c} : Agree(Stream(c), Stream(d))
  BY DEF Ordered
<1>3. \A c \in Clients :
        Stream(c)' = IF c \in cs /\ Room(c) THEN Append(Stream(c), e) ELSE Stream(c)
  BY PushStreams DEF TInv
<1>4. ASSUME NEW c \in Clients, c \in cs, Room(c)
      PROVE  IsInjective(Stream(c)') /\ ReplayFirst(Stream(c)')
  <2>1. PICK s, t : s = Stream(c) /\ t = Stream(c)'
    OBVIOUS
  <2>2. t = Append(s, e) /\ s \in Seq(Entry)
    BY <1>1, <1>3, <1>4, <2>1
  <2>3. /\ DOMAIN s = 1 .. Len(s) /\ DOMAIN t = 1 .. Len(s) + 1 /\ Len(s) \in Nat
        /\ \A i \in 1 .. Len(s) : t[i] = s[i]
        /\ t[Len(s) + 1] = e
    BY <2>2, Longer, LenProperties
  <2>4. \A i \in DOMAIN s : s[i] # e /\ (e.replay => s[i].replay)
    BY <1>4, <2>1 DEF Entries, ToSet
  <2>5. IsInjective(s) /\ ReplayFirst(s)
    BY <1>2, <2>1
  <2>6. \A i \in DOMAIN t : i \in DOMAIN s \/ i = Len(s) + 1
    BY <2>3
  <2>7. \A i, j \in DOMAIN t : t[i] = t[j] => i = j
    BY <2>3, <2>4, <2>5, <2>6 DEF IsInjective
  <2>8. \A i, j \in DOMAIN t : i <= j /\ t[j].replay => t[i].replay
    <3>1. ASSUME NEW i \in DOMAIN t, NEW j \in DOMAIN t, i <= j, t[j].replay PROVE t[i].replay
      <4>1. CASE j \in DOMAIN s
        <5>1. i \in DOMAIN s
          BY <2>3, <3>1, <4>1
        <5>2. QED
          BY <2>3, <2>5, <3>1, <4>1, <5>1 DEF ReplayFirst
      <4>2. CASE j = Len(s) + 1
        <5>1. e.replay
          BY <2>3, <3>1, <4>2
        <5>2. QED
          BY <2>3, <2>4, <2>6, <3>1, <5>1
      <4>3. QED
        BY <2>6, <4>1, <4>2
    <3>2. QED
      BY <3>1
  <2>9. QED
    BY <2>1, <2>7, <2>8 DEF IsInjective, ReplayFirst
<1>5. \A c \in Clients : IsInjective(Stream(c)') /\ ReplayFirst(Stream(c)')
  BY <1>2, <1>3, <1>4
<1>6. ASSUME NEW c \in Clients, NEW d \in Clients \ {c} PROVE Agree(Stream(c)', Stream(d)')
  <2>1. PICK s, t, u, v : s = Stream(c) /\ t = Stream(c)' /\ u = Stream(d) /\ v = Stream(d)'
    OBVIOUS
  <2>2. /\ DOMAIN s = 1 .. Len(s) /\ Len(s) \in Nat /\ DOMAIN u = 1 .. Len(u) /\ Len(u) \in Nat
        /\ s \in Seq(Entry) /\ u \in Seq(Entry)
    BY <1>1, <2>1, LenProperties
  <2>3. /\ \A i \in DOMAIN s : i \in DOMAIN t /\ t[i] = s[i]
        /\ \A i \in DOMAIN t : i \in DOMAIN s \/ (i = Len(s) + 1 /\ t[i] = e)
    BY <1>3, <2>1, <2>2, Longer
  <2>4. /\ \A i \in DOMAIN u : i \in DOMAIN v /\ v[i] = u[i]
        /\ \A i \in DOMAIN v : i \in DOMAIN u \/ (i = Len(u) + 1 /\ v[i] = e)
    BY <1>3, <2>1, <2>2, Longer
  <2>5. Agree(s, u)
    BY <1>2, <2>1
  <2>6. ~ e.replay => (\A i \in DOMAIN s : s[i] # e) /\ (\A i \in DOMAIN u : u[i] # e)
    BY <2>1 DEF Entries, ToSet
  <2>7. ASSUME NEW i \in DOMAIN t, NEW j \in DOMAIN t, NEW k \in DOMAIN v, NEW l \in DOMAIN v,
               i < j, ~ t[i].replay, ~ t[j].replay, k < l, v[k] = t[j], v[l] = t[i]
        PROVE  FALSE
    <3>1. CASE e.replay
      <4>1. i \in DOMAIN s /\ j \in DOMAIN s /\ k \in DOMAIN u /\ l \in DOMAIN u
        BY <2>3, <2>4, <2>7, <3>1
      <4>2. QED
        BY <2>3, <2>4, <2>5, <2>7, <4>1 DEF Agree
    <3>2. CASE ~ e.replay
      <4>1. t[i] # e
        <5>1. i \in DOMAIN s
          BY <2>2, <2>3, <2>7
        <5>2. QED
          BY <2>3, <2>6, <3>2, <5>1
      <4>2. l \in DOMAIN u /\ i \in DOMAIN s
        BY <2>3, <2>4, <2>7, <4>1
      <4>3. k \in DOMAIN u /\ v[k] # e
        BY <2>2, <2>4, <2>6, <2>7, <3>2, <4>2
      <4>4. j \in DOMAIN s
        BY <2>3, <2>7, <4>3
      <4>5. QED
        BY <2>3, <2>4, <2>5, <2>7, <4>2, <4>3, <4>4 DEF Agree
    <3>3. QED
      BY <3>1, <3>2
  <2>8. QED
    BY <2>1, <2>7 DEF Agree
<1>7. QED
  BY <1>5, <1>6 DEF Ordered

-----------------------------------------------------------------------------
(* Every message goes out once.                                            *)

\* What waits for the hub.
Queued == ToSet(broadcast) \cup ToSet(raw) \cup ToSet(alerts)

\* A message is offered once, waits once, and is in no stream while it waits.
Once ==
  /\ Queued \subseteq offered
  /\ IsInjective(broadcast) /\ IsInjective(raw) /\ IsInjective(alerts)
  /\ \A c \in Clients : \A x \in Entries(c) : ~ x.replay => x.m \in offered \ Queued

\* Nothing is sent to a connection before the hub took it.
Idle == \A c \in Clients : writer[c] = "absent" => Stream(c) = <<>>

\* What is still to be replayed are values of the caches, each once, and the
\* connection they go to got nothing but others of them.
Busy ==
  /\ IsInjective(pending.rest)
  /\ \A c \in pending.to : \A x \in Entries(c) :
       /\ x.replay /\ x.m \notin ToSet(pending.rest)
       /\ loop = "replayMetrics" => x.m.kind = "metric"
  /\ \A m \in ToSet(pending.rest) :
       \/ /\ loop = "replayMetrics" /\ m.kind = "metric"
          /\ m.key \in DOMAIN metricCache /\ m = metricCache[m.key]
       \/ /\ loop = "replayAlerts" /\ m.kind = "alert"
          /\ m.id \in DOMAIN alertCache /\ m = alertCache[m.id]

OInv == TInv /\ Once /\ Idle /\ Busy /\ Ordered

\* A connection that is no member has no stream, or is on its way out.
LEMMA MembersWrite ==
  ASSUME TInv, NEW c \in clients
  PROVE  c \in Clients /\ writer[c] # "absent"
  BY DEF TInv, MInv, Places, MembersOpen

\* What a push adds to the streams.
LEMMA PushEntries ==
  ASSUME Shapes, NEW cs, NEW e \in Entry, Push(cs, e), UNCHANGED <<hand, got, writer>>,
         NEW c \in Clients
  PROVE  Entries(c)' = IF c \in cs /\ Room(c) THEN Entries(c) \cup {e} ELSE Entries(c)
<1>1. Stream(c)' = IF c \in cs /\ Room(c) THEN Append(Stream(c), e) ELSE Stream(c)
  BY PushStreams
<1>2. Stream(c) \in Seq(Entry)
  BY StreamSeq
<1>3. ToSet(Append(Stream(c), e)) = ToSet(Stream(c)) \cup {e}
  BY <1>2, Longer
<1>4. QED
  BY <1>1, <1>3 DEF Entries

\* Nothing in hand and nobody to replay to: between replays.
LEMMA NoReplay ==
  ASSUME pending = [to |-> {}, rest |-> <<>>]
  PROVE  Busy
<1>1. pending.to = {} /\ pending.rest = <<>> /\ DOMAIN <<>> = {}
  OBVIOUS
<1>2. ToSet(pending.rest) = {}
  BY <1>1 DEF ToSet
<1>3. IsInjective(pending.rest)
  BY <1>1 DEF IsInjective
<1>4. QED
  BY <1>1, <1>2, <1>3 DEF Busy

\* So it is after a step.
LEMMA NoReplayNext ==
  ASSUME pending' = [to |-> {}, rest |-> <<>>]
  PROVE  Busy'
<1>1. pending'.to = {} /\ pending'.rest = <<>> /\ DOMAIN <<>> = {}
  OBVIOUS
<1>2. ToSet(pending'.rest) = {}
  BY <1>1 DEF ToSet
<1>3. IsInjective(pending'.rest)
  BY <1>1 DEF IsInjective
<1>4. QED
  BY <1>1, <1>2, <1>3 DEF Busy

\* A live message goes from its channel to some members.
LEMMA LiveOnce ==
  ASSUME OInv, TInv', Selecting, NEW m \in Messages, m \in Queued, NEW cs, cs \subseteq clients,
         Push(cs, Live(m)), UNCHANGED <<hand, got, writer, offered, pending>>,
         Queued' \subseteq Queued \ {m},
         IsInjective(broadcast'), IsInjective(raw'), IsInjective(alerts')
  PROVE  OInv'
<1>1. Live(m) \in Entry /\ Live(m) = [m |-> m, replay |-> FALSE]
  BY DEF Entry, Live
<1>2. ASSUME NEW c \in Clients
      PROVE  /\ Entries(c)' = IF c \in cs /\ Room(c) THEN Entries(c) \cup {Live(m)} ELSE Entries(c)
             /\ Live(m) \notin Entries(c)
             /\ \A x \in Entries(c)' : ~ x.replay => x.m \in offered' \ Queued'
  <2>1. Entries(c)' = IF c \in cs /\ Room(c) THEN Entries(c) \cup {Live(m)} ELSE Entries(c)
    BY <1>1, PushEntries DEF OInv, TInv
  <2>2. \A x \in Entries(c) : ~ x.replay => x.m \in offered \ Queued
    BY DEF OInv, Once
  <2>3. Live(m) \notin Entries(c)
    BY <1>1, <2>2
  <2>4. ASSUME NEW x \in Entries(c)', ~ x.replay PROVE x.m \in offered' \ Queued'
    <3>1. CASE x \in Entries(c)
      BY <2>2, <2>4, <3>1
    <3>2. CASE x = Live(m)
      <4>1. x.m = m
        BY <1>1, <3>2
      <4>2. QED
        BY <4>1 DEF OInv, Once
    <3>3. QED
      BY <2>1, <2>4, <3>1, <3>2
  <2>5. QED
    BY <2>1, <2>3, <2>4
<1>3. Once'
  <2>1. Queued' \subseteq offered'
    BY DEF OInv, Once
  <2>2. QED
    BY <1>2, <2>1 DEF Once
<1>4. Idle'
  <2>1. ASSUME NEW c \in Clients, writer'[c] = "absent" PROVE Stream(c)' = <<>>
    <3>1. c \notin cs
      BY <2>1, MembersWrite DEF OInv
    <3>2. Stream(c)' = Stream(c)
      BY <1>1, <3>1, PushStreams DEF OInv, TInv
    <3>3. QED
      BY <2>1, <3>2 DEF OInv, Idle
  <2>2. QED
    BY <2>1 DEF Idle
<1>5. Busy'
  <2>1. pending = [to |-> {}, rest |-> <<>>]
    BY DEF OInv, TInv, Phase, Selecting
  <2>2. QED
    BY <2>1, NoReplayNext
<1>6. Ordered'
  <2>1. ~ Live(m).replay
    BY <1>1
  <2>2. \A c \in Clients : Live(m) \notin Entries(c)
    BY <1>2
  <2>3. QED
    BY <1>1, <2>1, <2>2, PushOrder DEF OInv
<1>7. QED
  BY <1>3, <1>4, <1>5, <1>6 DEF OInv

\* An event, a metric or an alert is taken out of its channel for good.
LEMMA HeadOnce ==
  ASSUME OInv
  PROVE  /\ broadcast # <<>> =>
              /\ Head(broadcast) \in Messages /\ Head(broadcast) \in Queued
              /\ IsInjective(Tail(broadcast))
              /\ ToSet(Tail(broadcast)) \cup ToSet(raw) \cup ToSet(alerts)
                   \subseteq Queued \ {Head(broadcast)}
         /\ raw # <<>> =>
              /\ Head(raw) \in Messages /\ Head(raw) \in Queued /\ IsInjective(Tail(raw))
              /\ ToSet(broadcast) \cup ToSet(Tail(raw)) \cup ToSet(alerts)
                   \subseteq Queued \ {Head(raw)}
         /\ alerts # <<>> =>
              /\ Head(alerts) \in Messages /\ Head(alerts) \in Queued /\ IsInjective(Tail(alerts))
              /\ ToSet(broadcast) \cup ToSet(raw) \cup ToSet(Tail(alerts))
                   \subseteq Queued \ {Head(alerts)}
<1>1. /\ broadcast \in Seq(Messages) /\ \A m \in ToSet(broadcast) : m.kind = "event"
      /\ raw \in Seq(Messages) /\ \A m \in ToSet(raw) : m.kind = "metric"
      /\ alerts \in Seq(Messages) /\ \A m \in ToSet(alerts) : m.kind = "alert"
      /\ IsInjective(broadcast) /\ IsInjective(raw) /\ IsInjective(alerts)
  BY DEF OInv, TInv, Shapes, Once
<1>2. ASSUME NEW ch \in Seq(Messages), ch # <<>>, IsInjective(ch)
      PROVE  /\ Head(ch) \in Messages /\ Head(ch) \in ToSet(ch) /\ IsInjective(Tail(ch))
             /\ ToSet(Tail(ch)) \subseteq ToSet(ch) \ {Head(ch)}
  BY <1>2, Taken
<1>3. QED
  BY <1>1, <1>2 DEF Queued

\* Streams that stay or lose an entry, while nothing moves in the hub.
LEMMA KeptOnce ==
  ASSUME OInv, TInv', \A c \in Clients : Thinned(Stream(c)', Stream(c)),
         UNCHANGED <<broadcast, raw, alerts, offered, pending, metricCache, alertCache>>,
         loop' = loop \/ Selecting,
         \A c \in Clients : writer'[c] = "absent" => writer[c] = "absent"
  PROVE  OInv'
<1>1. ASSUME NEW c \in Clients
      PROVE  /\ Entries(c)' \subseteq Entries(c)
             /\ Stream(c) = <<>> => Stream(c)' = <<>>
  <2>1. PICK s, t : s = Stream(c) /\ t = Stream(c)'
    OBVIOUS
  <2>2. s \in Seq(Entry) /\ t \in Seq(Entry) /\ Thinned(t, s)
    BY <2>1, StreamSeq, StreamSeqNext DEF OInv, TInv
  <2>3. \A i \in DOMAIN t : \E j \in DOMAIN s : t[i] = s[j]
    BY <2>2 DEF Thinned
  <2>4. ToSet(t) \subseteq ToSet(s)
    BY <2>3 DEF ToSet
  <2>5. ASSUME s = <<>> PROVE t = <<>>
    <3>1. DOMAIN s = 1 .. 0 /\ DOMAIN t = 1 .. Len(t) /\ Len(t) \in Nat
      BY <2>2, <2>5, LenProperties, EmptySeq
    <3>2. Len(t) = 0
      <4>1. \A i \in 1 .. Len(t) : \E j \in 1 .. 0 : TRUE
        BY <2>3, <3>1
      <4>2. 1 \notin 1 .. Len(t)
        BY <4>1
      <4>3. QED
        BY <3>1, <4>2
    <3>3. QED
      BY <2>2, <3>2, EmptySeq
  <2>6. QED
    BY <2>1, <2>4, <2>5 DEF Entries
<1>2. Once'
  BY <1>1 DEF OInv, Once, Queued
<1>3. Idle'
  BY <1>1 DEF OInv, Idle
<1>4. Busy'
  <2>1. CASE Selecting
    <3>1. pending = [to |-> {}, rest |-> <<>>]
      BY <2>1 DEF OInv, TInv, Phase, Selecting
    <3>2. QED
      BY <3>1, NoReplayNext
  <2>2. CASE loop' = loop
    <3>1. \A c \in pending.to : c \in Clients
      BY DEF OInv, TInv, Phase, Dashboards, MInv, Places
    <3>2. QED
      BY <1>1, <2>2, <3>1 DEF OInv, Busy
  <2>3. QED
    BY <2>1, <2>2
<1>5. Ordered'
  BY ThinnedOrder DEF OInv
<1>6. QED
  BY <1>2, <1>3, <1>4, <1>5 DEF OInv

\* The steps that leave the hub's work alone, and those of the connections.
LEMMA AsideOnce ==
  ASSUME OInv, TInv',
         \/ Close \/ Tick \/ Return \/ UNCHANGED vars
         \/ \E c \in Clients :
              \/ Accept(c) \/ Disconnect(c) \/ ReadFails(c) \/ ReaderEnds(c)
              \/ WriterTakes(c) \/ WriteSucceeds(c) \/ WriteFails(c) \/ HandleUnregister(c)
  PROVE  OInv'
<1>1. /\ UNCHANGED <<broadcast, raw, alerts, offered, pending, metricCache, alertCache>>
      /\ loop' = loop \/ Selecting
  BY DEF Close, Tick, Return, Accept, Disconnect, ReadFails, ReaderEnds, WriterTakes, WriteSucceeds,
         WriteFails, HandleUnregister, vars, hubVars, channels, connVars
<1>2. \A c \in Clients : Thinned(Stream(c), Stream(c))
  BY Whole, StreamSeq DEF OInv, TInv
<1>3. CASE \/ Close \/ Tick \/ Return \/ UNCHANGED vars
           \/ \E c \in Clients : Accept(c) \/ Disconnect(c) \/ ReadFails(c) \/ ReaderEnds(c)
                                 \/ HandleUnregister(c)
  <2>1. UNCHANGED <<got, hand, send, writer>>
    BY <1>3 DEF Close, Tick, Return, Accept, Disconnect, ReadFails, ReaderEnds, HandleUnregister,
                vars, hubVars, channels, connVars
  <2>2. \A c \in Clients : Stream(c)' = Stream(c)
    BY <2>1 DEF Stream
  <2>3. \A c \in Clients : Thinned(Stream(c)', Stream(c))
    BY <1>2, <2>2
  <2>4. QED
    BY <1>1, <2>1, <2>3, KeptOnce
<1>4. ASSUME NEW c \in Clients, WriterTakes(c) \/ WriteSucceeds(c) \/ WriteFails(c)
      PROVE  OInv'
  <2>1. \A d \in Clients : Stream(d)' = Stream(d) \/ Thinned(Stream(d)', Stream(d))
    BY <1>4, WriterStreams DEF OInv
  <2>2. \A d \in Clients : Thinned(Stream(d)', Stream(d))
    BY <1>2, <2>1
  <2>3. \A d \in Clients : writer'[d] = "absent" => writer[d] = "absent"
    BY <1>4 DEF WriterTakes, WriteSucceeds, WriteFails, OInv, TInv, MInv, Places
  <2>4. QED
    BY <1>1, <2>2, <2>3, KeptOnce
<1>5. QED
  BY <1>3, <1>4

\* A message is offered.
LEMMA ConsumeOnce ==
  ASSUME OInv, TInv', Consume
  PROVE  OInv'
<1>1. PICK m \in Messages \ offered : /\ Broadcast(m) \/ BroadcastRaw(m) \/ BroadcastCEPAlertRaw(m)
                                      /\ offered' = offered \cup {m}
  BY DEF Consume
<1>2. UNCHANGED <<metricCache, alertCache, loop, pending, send, hand, got, writer>>
  BY DEF Consume, hubVars, connVars
<1>3. /\ broadcast' = broadcast \/ broadcast' = Offer(broadcast, m)
      /\ raw' = raw \/ raw' = Offer(raw, m)
      /\ alerts' = alerts \/ alerts' = Offer(alerts, m)
  BY <1>1 DEF Broadcast, BroadcastRaw, BroadcastCEPAlertRaw
<1>4. /\ broadcast \in Seq(Messages) /\ raw \in Seq(Messages) /\ alerts \in Seq(Messages)
      /\ Len(broadcast) <= ChanCap /\ Len(raw) <= ChanCap /\ Len(alerts) <= ChanCap
      /\ IsInjective(broadcast) /\ IsInjective(raw) /\ IsInjective(alerts)
      /\ m \notin ToSet(broadcast) /\ m \notin ToSet(raw) /\ m \notin ToSet(alerts)
  BY <1>1 DEF OInv, TInv, Shapes, Once, Queued
<1>5. /\ IsInjective(broadcast') /\ IsInjective(raw') /\ IsInjective(alerts')
      /\ ToSet(broadcast') \subseteq ToSet(broadcast) \cup {m}
      /\ ToSet(raw') \subseteq ToSet(raw) \cup {m} /\ ToSet(alerts') \subseteq ToSet(alerts) \cup {m}
  BY <1>3, <1>4, Offered
<1>6. Queued' \subseteq Queued \cup {m}
  BY <1>5 DEF Queued
<1>7. \A c \in Clients : Stream(c)' = Stream(c)
  BY <1>2 DEF Stream
<1>8. \A c \in Clients : Entries(c)' = Entries(c)
  BY <1>7 DEF Entries
<1>9. Once'
  BY <1>1, <1>5, <1>6, <1>8 DEF OInv, Once
<1>10. Idle'
  BY <1>2, <1>7 DEF OInv, Idle
<1>11. Busy'
  <2>1. \A c \in pending.to : c \in Clients
    BY DEF OInv, TInv, Phase, Dashboards, MInv, Places
  <2>2. QED
    BY <1>2, <1>8, <2>1 DEF OInv, Busy
<1>12. Ordered'
  BY <1>7 DEF OInv, Ordered
<1>13. QED
  BY <1>9, <1>10, <1>11, <1>12 DEF OInv

\* A new connection got nothing yet, and what will be replayed to it is ready.
LEMMA RegisterOnce ==
  ASSUME OInv, TInv', NEW c \in Clients, HandleRegister(c)
  PROVE  OInv'
<1>1. /\ UNCHANGED <<metricCache, alertCache, broadcast, raw, alerts, send, hand, got, offered>>
      /\ writer' = [writer EXCEPT ![c] = "range"] /\ reader[c] = "register"
  BY DEF HandleRegister, channels
<1>2. Stream(c) = <<>> /\ Selecting
  BY <1>1 DEF HandleRegister, OInv, Idle, TInv, MInv, Places
<1>3. \A d \in Clients : Stream(d)' = Stream(d)
  BY <1>1 DEF Stream
<1>4. \A d \in Clients : Entries(d)' = Entries(d)
  BY <1>3 DEF Entries
<1>5. Once'
  BY <1>1, <1>4 DEF OInv, Once, Queued
<1>6. Idle'
  BY <1>1, <1>3 DEF OInv, Idle, TInv, MInv, Places
<1>7. Ordered'
  BY <1>3 DEF OInv, Ordered
<1>8. Busy'
  <2>1. CASE UNCHANGED <<loop, pending>>
    <3>1. pending' = [to |-> {}, rest |-> <<>>]
      BY <1>2, <2>1 DEF OInv, TInv, Phase, Selecting
    <3>2. QED
      BY <3>1, NoReplayNext
  <2>2. ASSUME NEW keys \in SortedKeys, loop' = "replayMetrics",
               pending' = [to |-> {c}, rest |-> [i \in DOMAIN keys |-> metricCache[keys[i]]]]
        PROVE  Busy'
    <3>1. PICK rest : rest = [i \in DOMAIN keys |-> metricCache[keys[i]]]
      OBVIOUS
    <3>2. IsInjective(rest) /\ ToSet(rest) = {metricCache[k] : k \in DOMAIN metricCache}
      BY <3>1, MetricsToReplay DEF OInv
    <3>3. pending'.to = {c} /\ pending'.rest = rest
      BY <2>2, <3>1
    <3>4. Entries(c)' = {}
      <4>1. Entries(c) = ToSet(<<>>) /\ DOMAIN <<>> = {}
        BY <1>2 DEF Entries
      <4>2. QED
        BY <1>4, <4>1 DEF ToSet
    <3>5. \A k \in DOMAIN metricCache :
            metricCache[k].key = k /\ metricCache[k].kind = "metric"
      BY DEF OInv, TInv, Shapes
    <3>6. QED
      BY <1>1, <2>2, <3>2, <3>3, <3>4, <3>5 DEF Busy
  <2>3. QED
    BY <2>1, <2>2 DEF HandleRegister
<1>9. QED
  BY <1>5, <1>6, <1>7, <1>8 DEF OInv

\* The next message of a replay is one that its dashboard did not get yet.
LEMMA ReplayOnce ==
  ASSUME OInv, TInv', ReplayOne
  PROVE  OInv'
<1>1. PICK m : m = Head(pending.rest)
  OBVIOUS
<1>2. /\ pending.rest # <<>> /\ pending.rest \in Seq(Messages)
      /\ pending' = [pending EXCEPT !.rest = Tail(pending.rest)]
      /\ UNCHANGED <<clients, metricCache, alertCache, loop, broadcast, raw, alerts, hand, got,
                     writer, offered>>
      /\ Push(pending.to, Replayed(m))
  BY <1>1 DEF OInv, TInv, Shapes, ReplayOne, channels, connVars
<1>3. /\ m \in Messages /\ m \in ToSet(pending.rest)
      /\ IsInjective(Tail(pending.rest)) /\ m \notin ToSet(Tail(pending.rest))
      /\ ToSet(Tail(pending.rest)) \subseteq ToSet(pending.rest)
  BY <1>1, <1>2, Taken DEF OInv, Busy
<1>4. Replayed(m) \in Entry /\ Replayed(m) = [m |-> m, replay |-> TRUE]
  BY <1>3 DEF Entry, Replayed
<1>5. pending'.to = pending.to /\ pending'.rest = Tail(pending.rest)
  BY <1>2 DEF OInv, TInv, Shapes
<1>6. \A c \in Clients :
        Entries(c)' = IF c \in pending.to /\ Room(c) THEN Entries(c) \cup {Replayed(m)} ELSE Entries(c)
  BY <1>2, <1>4, PushEntries DEF OInv, TInv
<1>7. \A c \in pending.to : c \in clients /\ c \in Clients
  BY DEF OInv, TInv, Phase, Dashboards, MInv, Places
<1>8. Once'
  BY <1>2, <1>4, <1>6 DEF OInv, Once, Queued
<1>9. Idle'
  <2>1. ASSUME NEW c \in Clients, writer'[c] = "absent" PROVE Stream(c)' = <<>>
    <3>1. c \notin pending.to
      BY <1>2, <1>7, <2>1, MembersWrite DEF OInv
    <3>2. Stream(c)' = Stream(c)
      BY <1>2, <1>4, <3>1, PushStreams DEF OInv, TInv
    <3>3. QED
      BY <1>2, <2>1, <3>2 DEF OInv, Idle
  <2>2. QED
    BY <2>1 DEF Idle
<1>10. Busy'
  <2>1. ASSUME NEW c \in pending.to, NEW x \in Entries(c)'
        PROVE  /\ x.replay /\ x.m \notin ToSet(Tail(pending.rest))
               /\ loop = "replayMetrics" => x.m.kind = "metric"
    <3>1. x \in Entries(c) \/ x = Replayed(m)
      BY <1>6, <1>7, <2>1
    <3>2. CASE x \in Entries(c)
      BY <1>3, <3>2 DEF OInv, Busy
    <3>3. CASE x = Replayed(m)
      BY <1>3, <1>4, <3>3 DEF OInv, Busy
    <3>4. QED
      BY <3>1, <3>2, <3>3
  <2>2. \A x \in ToSet(Tail(pending.rest)) : x \in ToSet(pending.rest)
    BY <1>3
  <2>3. QED
    BY <1>2, <1>3, <1>5, <2>1, <2>2 DEF OInv, Busy
<1>11. Ordered'
  <2>1. \A c \in Clients : c \in pending.to =>
          Replayed(m) \notin Entries(c) /\ \A x \in Entries(c) : x.replay
    BY <1>3, <1>4 DEF OInv, Busy
  <2>2. Replayed(m).replay
    BY <1>4
  <2>3. QED
    BY <1>2, <1>4, <2>1, <2>2, PushOrder DEF OInv
<1>12. QED
  BY <1>8, <1>9, <1>10, <1>11 DEF OInv

\* After the metrics come alerts, none of which was replayed yet.
LEMMA ReplayAlertsOnce ==
  ASSUME OInv, TInv', ReplayAlerts
  PROVE  OInv'
<1>1. /\ loop = "replayMetrics" /\ loop' = "replayAlerts"
      /\ alertCache' = [i \in RecentIds |-> alertCache[i]]
      /\ UNCHANGED <<metricCache, broadcast, raw, alerts, send, hand, got, writer, offered>>
  BY DEF ReplayAlerts, channels, connVars
<1>2. PICK as \in SortedAlerts : pending' = [pending EXCEPT !.rest = as]
  BY DEF ReplayAlerts
<1>3. pending'.to = pending.to /\ pending'.rest = as
  BY <1>2 DEF OInv, TInv, Shapes
<1>4. IsInjective(as) /\ ToSet(as) = {alertCache[i] : i \in RecentIds}
  BY AlertsToReplay DEF OInv
<1>5. \A i \in RecentIds : /\ i \in DOMAIN alertCache /\ alertCache'[i] = alertCache[i]
                           /\ alertCache[i].id = i /\ alertCache[i].kind = "alert"
  BY <1>1, RecentFinite DEF OInv, TInv, Shapes
<1>6. \A c \in Clients : Stream(c)' = Stream(c)
  BY <1>1 DEF Stream
<1>7. \A c \in Clients : Entries(c)' = Entries(c)
  BY <1>6 DEF Entries
<1>8. Once' /\ Idle' /\ Ordered'
  BY <1>1, <1>6, <1>7 DEF OInv, Once, Idle, Ordered, Queued
<1>9. Busy'
  <2>1. \A c \in pending.to : c \in Clients
    BY DEF OInv, TInv, Phase, Dashboards, MInv, Places
  <2>2. \A m \in ToSet(as) : /\ m.kind = "alert" /\ m.id \in DOMAIN alertCache'
                             /\ m = alertCache'[m.id]
    BY <1>1, <1>4, <1>5
  <2>3. ASSUME NEW c \in pending.to, NEW x \in Entries(c)'
        PROVE  x.replay /\ x.m \notin ToSet(as)
    <3>1. x \in Entries(c)
      BY <1>7, <2>1, <2>3
    <3>2. x.replay /\ x.m.kind = "metric"
      BY <1>1, <3>1 DEF OInv, Busy
    <3>3. QED
      BY <2>2, <3>2
  <2>4. QED
    BY <1>1, <1>3, <1>4, <2>2, <2>3 DEF Busy
<1>10. QED
  BY <1>8, <1>9 DEF OInv

\* The end of a replay.
LEMMA EndReplayOnce ==
  ASSUME OInv, TInv', EndReplay
  PROVE  OInv'
<1>1. /\ pending' = [to |-> {}, rest |-> <<>>]
      /\ UNCHANGED <<metricCache, alertCache, broadcast, raw, alerts, send, hand, got, writer, offered>>
  BY DEF EndReplay, channels, connVars
<1>2. \A c \in Clients : Stream(c)' = Stream(c)
  BY <1>1 DEF Stream
<1>3. \A c \in Clients : Entries(c)' = Entries(c)
  BY <1>2 DEF Entries
<1>4. Once' /\ Idle' /\ Ordered'
  BY <1>1, <1>2, <1>3 DEF OInv, Once, Idle, Ordered, Queued
<1>5. QED
  BY <1>1, <1>4, NoReplayNext DEF OInv

\* What the three cases of the select send.
LEMMA SendOnce ==
  ASSUME OInv, TInv', HandleBroadcast \/ HandleRaw \/ HandleAlert
  PROVE  OInv'
<1>1. Dashboards \subseteq clients /\ \A m : {c \in clients : ShouldSend(c, m)} \subseteq clients
  BY DEF Dashboards
<1>2. IsInjective(broadcast) /\ IsInjective(raw) /\ IsInjective(alerts)
  BY DEF OInv, Once
<1>3. CASE HandleBroadcast
  <2>1. PICK m, cs : m = Head(broadcast) /\ cs = {c \in clients : ShouldSend(c, m)}
    OBVIOUS
  <2>2. /\ Selecting /\ broadcast # <<>> /\ broadcast' = Tail(broadcast)
        /\ Push(cs, Live(m))
        /\ UNCHANGED <<raw, alerts, hand, got, writer, offered, pending>>
    BY <1>3, <2>1 DEF HandleBroadcast, hubVars, connVars
  <2>3. /\ m \in Messages /\ m \in Queued /\ IsInjective(broadcast')
        /\ Queued' \subseteq Queued \ {m}
    BY <2>1, <2>2, HeadOnce DEF Queued
  <2>4. QED
    BY <1>1, <1>2, <2>1, <2>2, <2>3, LiveOnce
<1>4. CASE HandleRaw
  <2>1. PICK m : m = Head(raw)
    OBVIOUS
  <2>2. /\ Selecting /\ raw # <<>> /\ raw' = Tail(raw)
        /\ Push(Dashboards, Live(m))
        /\ UNCHANGED <<broadcast, alerts, hand, got, writer, offered, pending>>
    BY <1>4, <2>1 DEF HandleRaw, connVars
  <2>3. /\ m \in Messages /\ m \in Queued /\ IsInjective(raw')
        /\ Queued' \subseteq Queued \ {m}
    BY <2>1, <2>2, HeadOnce DEF Queued
  <2>4. QED
    BY <1>1, <1>2, <2>2, <2>3, LiveOnce
<1>5. CASE HandleAlert
  <2>1. PICK m : m = Head(alerts)
    OBVIOUS
  <2>2. /\ Selecting /\ alerts # <<>> /\ alerts' = Tail(alerts)
        /\ Push(Dashboards, Live(m))
        /\ UNCHANGED <<broadcast, raw, hand, got, writer, offered, pending>>
    BY <1>5, <2>1 DEF HandleAlert, connVars
  <2>3. /\ m \in Messages /\ m \in Queued /\ IsInjective(alerts')
        /\ Queued' \subseteq Queued \ {m}
    BY <2>1, <2>2, HeadOnce DEF Queued
  <2>4. QED
    BY <1>1, <1>2, <2>2, <2>3, LiveOnce
<1>6. QED
  BY <1>3, <1>4, <1>5

\* Every step keeps the streams in order.
LEMMA NextOInv ==
  ASSUME OInv, [Next]_vars
  PROVE  OInv'
<1>1. TInv'
  BY NextTInv DEF OInv
<1>2. CASE Run
  BY <1>1, <1>2, SendOnce, RegisterOnce, ReplayOnce, ReplayAlertsOnce, EndReplayOnce, AsideOnce DEF Run
<1>3. CASE Consume
  BY <1>1, <1>3, ConsumeOnce
<1>4. CASE Close \/ Tick \/ UNCHANGED vars
  BY <1>1, <1>4, AsideOnce
<1>5. ASSUME NEW c \in Clients,
             \/ Accept(c) \/ Disconnect(c) \/ ReadFails(c) \/ ReaderEnds(c)
             \/ WriterTakes(c) \/ WriteSucceeds(c) \/ WriteFails(c)
      PROVE  OInv'
  BY <1>1, <1>5, AsideOnce
<1>6. QED
  BY <1>2, <1>3, <1>4, <1>5 DEF Next

\* In the beginning no stream holds anything.
LEMMA InitOInv == Init => OInv
<1> SUFFICES ASSUME Init PROVE OInv
  OBVIOUS
<1>1. TInv /\ \A c \in Clients : Stream(c) \in Seq(Entry)
  BY InitTInv, StreamSeq DEF TInv
<1>2. DOMAIN <<>> = {} /\ ToSet(<<>>) = {} /\ IsInjective(<<>>)
  BY DEF ToSet, IsInjective
<1>3. \A c \in Clients : Stream(c) = <<>>
  <2>1. <<>> \in Seq(Entry)
    BY EmptySeq
  <2>2. <<>> \o <<>> \o <<>> = <<>>
    BY <2>1, ConcatEmptySeq
  <2>3. QED
    BY <2>2 DEF Init, Stream
<1>4. \A c \in Clients : Entries(c) = {}
  BY <1>2, <1>3 DEF Entries
<1>5. Once /\ Idle
  BY <1>2, <1>3, <1>4 DEF Init, Once, Idle, Queued
<1>6. Busy
  BY NoReplay DEF Init
<1>7. Ordered
  BY <1>2, <1>3 DEF Ordered, ReplayFirst, Agree
<1>8. QED
  BY <1>1, <1>5, <1>6, <1>7 DEF OInv

\* A client sees its replay before anything live and nothing twice, however
\* buffers overflow and connections come, fail and go.
THEOREM StreamsOrdered == Spec => []StreamOrder
<1>1. OInv => StreamOrder
  BY OrderSaid DEF OInv
<1>2. Init /\ [][Next]_vars => []OInv
  BY InitOInv, NextOInv, PTL
<1>3. QED
  BY <1>1, <1>2, PTL DEF Spec

\* Any two clients see what both are sent in one order, whatever each of them
\* misses (Run is the only sender, and a writer takes the oldest first).
THEOREM ClientsAgree == Spec => []SameOrder
<1>1. OInv => SameOrder
  BY OrderSaid DEF OInv
<1>2. Init /\ [][Next]_vars => []OInv
  BY InitOInv, NextOInv, PTL
<1>3. QED
  BY <1>1, <1>2, PTL DEF Spec

-----------------------------------------------------------------------------
(* The order within a replay.                                              *)

\* Of what was replayed, alerts come after metrics and oldest first.
Ascends(s) ==
  \A i, j \in DOMAIN s :
    i < j /\ s[i].replay /\ s[j].replay /\ s[i].m.kind = "alert" =>
      s[j].m.kind = "alert" /\ Earlier(s[i].m, s[j].m)

\* The alerts still to be replayed are in order, and later than those that were.
RestAscends ==
  loop = "replayAlerts" =>
    /\ \A i, j \in DOMAIN pending.rest : i < j => Earlier(pending.rest[i], pending.rest[j])
    /\ \A c \in pending.to : \A x \in Entries(c), m \in ToSet(pending.rest) :
         x.m.kind = "alert" => Earlier(x.m, m)

SInv == OInv /\ RestAscends /\ \A c \in Clients : Ascends(Stream(c))

\* Streams that lose entries, while the replay waits.
LEMMA KeptAscends ==
  ASSUME SInv, OInv', \A c \in Clients : Thinned(Stream(c)', Stream(c)),
         loop' = "replayAlerts" => UNCHANGED <<loop, pending>>
  PROVE  SInv'
<1>1. ASSUME NEW c \in Clients PROVE Ascends(Stream(c)') /\ Entries(c)' \subseteq Entries(c)
  <2>1. PICK s, t : s = Stream(c) /\ t = Stream(c)'
    OBVIOUS
  <2>2. s \in Seq(Entry) /\ t \in Seq(Entry) /\ Thinned(t, s)
    BY <2>1, StreamSeq, StreamSeqNext DEF SInv, OInv, TInv
  <2>3. PICK f : /\ \A i \in DOMAIN t : f[i] \in DOMAIN s /\ t[i] = s[f[i]]
                 /\ \A i, j \in DOMAIN t : i < j => f[i] < f[j]
                 /\ \A i, j \in DOMAIN t : f[i] = f[j] => i = j
    BY ONLY <2>2, ThinnedFrom
  <2>4. Ascends(t)
    BY <2>1, <2>3 DEF SInv, Ascends
  <2>5. ToSet(t) \subseteq ToSet(s)
    BY <2>3 DEF ToSet
  <2>6. QED
    BY <2>1, <2>4, <2>5 DEF Entries
<1>2. \A c \in pending.to : c \in Clients
  BY DEF SInv, OInv, TInv, Phase, Dashboards, MInv, Places
<1>3. RestAscends'
  BY <1>1, <1>2 DEF SInv, RestAscends
<1>4. QED
  BY <1>1, <1>3 DEF SInv

\* A new entry, if it is replayed, comes after what was replayed.
LEMMA PushAscends ==
  ASSUME SInv, NEW cs, NEW e \in Entry, Push(cs, e), UNCHANGED <<hand, got, writer>>,
         e.replay => \A c \in Clients : c \in cs => \A x \in Entries(c) :
                       x.m.kind = "alert" => e.m.kind = "alert" /\ Earlier(x.m, e.m),
         NEW c \in Clients
  PROVE  Ascends(Stream(c)')
<1>1. PICK s, t : s = Stream(c) /\ t = Stream(c)'
  OBVIOUS
<1>2. t = IF c \in cs /\ Room(c) THEN Append(s, e) ELSE s
  BY <1>1, PushStreams DEF SInv, OInv, TInv
<1>3. Ascends(s)
  BY <1>1 DEF SInv
<1>4. CASE c \in cs /\ t = Append(s, e)
  <2>1. /\ DOMAIN s = 1 .. Len(s) /\ DOMAIN t = 1 .. Len(s) + 1 /\ Len(s) \in Nat
        /\ \A i \in 1 .. Len(s) : t[i] = s[i]
        /\ t[Len(s) + 1] = e
    <3>1. s \in Seq(Entry)
      BY <1>1, StreamSeq DEF SInv, OInv, TInv
    <3>2. QED
      BY <1>4, <3>1, Longer, LenProperties
  <2>2. \A i \in DOMAIN s : e.replay /\ s[i].m.kind = "alert" =>
                              e.m.kind = "alert" /\ Earlier(s[i].m, e.m)
    BY <1>1, <1>4 DEF Entries, ToSet
  <2>3. ASSUME NEW i \in DOMAIN t, NEW j \in DOMAIN t, i < j, t[i].replay, t[j].replay,
               t[i].m.kind = "alert"
        PROVE  t[j].m.kind = "alert" /\ Earlier(t[i].m, t[j].m)
    <3>1. i \in DOMAIN s /\ t[i] = s[i] /\ (j \in DOMAIN s \/ j = Len(s) + 1)
      BY <2>1, <2>3
    <3>2. CASE j \in DOMAIN s
      <4>1. t[j] = s[j]
        BY <2>1, <3>2
      <4>2. QED
        BY <1>3, <2>3, <3>1, <3>2, <4>1 DEF Ascends
    <3>3. CASE j = Len(s) + 1
      <4>1. t[j] = e
        BY <2>1, <3>3
      <4>2. QED
        BY <2>2, <2>3, <3>1, <4>1
    <3>4. QED
      BY <3>1, <3>2, <3>3
  <2>4. QED
    BY <1>1, <2>3 DEF Ascends
<1>5. QED
  BY <1>1, <1>2, <1>3, <1>4

\* The next of a replay: a metric as long as there are only metrics, then the
\* oldest alert that is left.
LEMMA ReplayAscends ==
  ASSUME SInv, OInv', ReplayOne
  PROVE  SInv'
<1>1. PICK m, rest : m = Head(pending.rest) /\ rest = pending.rest
  OBVIOUS
<1>2. /\ rest # <<>> /\ rest \in Seq(Messages)
      /\ pending' = [pending EXCEPT !.rest = Tail(rest)]
      /\ UNCHANGED <<loop, hand, got, writer>>
      /\ Push(pending.to, Replayed(m))
  BY <1>1 DEF SInv, OInv, TInv, Shapes, ReplayOne, connVars
<1>3. /\ m = rest[1] /\ m \in Messages /\ m \in ToSet(rest) /\ Len(rest) > 0
      /\ ToSet(Tail(rest)) \subseteq ToSet(rest) /\ Tail(rest) \in Seq(Messages)
      /\ Len(Tail(rest)) = Len(rest) - 1
      /\ \A i \in 1 .. Len(rest) - 1 : Tail(rest)[i] = rest[i + 1]
  BY <1>1, <1>2, Taken
<1>4. /\ DOMAIN rest = 1 .. Len(rest) /\ Len(rest) \in Nat
      /\ DOMAIN Tail(rest) = 1 .. Len(rest) - 1
  BY <1>2, <1>3, LenProperties
<1>5. Replayed(m) \in Entry /\ Replayed(m) = [m |-> m, replay |-> TRUE]
  BY <1>3 DEF Entry, Replayed
<1>6. pending'.to = pending.to /\ pending'.rest = Tail(rest)
  BY <1>2 DEF SInv, OInv, TInv, Shapes
<1>7. \A c \in pending.to : c \in Clients
  BY DEF SInv, OInv, TInv, Phase, Dashboards, MInv, Places
<1>8. /\ \A c \in pending.to : \A x \in Entries(c) : loop = "replayMetrics" => x.m.kind = "metric"
      /\ \A x \in ToSet(rest) : \/ loop = "replayMetrics" /\ x.kind = "metric"
                                \/ loop = "replayAlerts" /\ x.kind = "alert"
  BY <1>1 DEF SInv, OInv, Busy
<1>9. \A c \in Clients : c \in pending.to => \A x \in Entries(c) :
        x.m.kind = "alert" => m.kind = "alert" /\ Earlier(x.m, m)
  BY <1>1, <1>3, <1>8 DEF SInv, RestAscends
<1>10. \A c \in Clients : Ascends(Stream(c)')
  <2>1. \A c \in Clients : c \in pending.to => \A x \in Entries(c) :
          x.m.kind = "alert" => Replayed(m).m.kind = "alert" /\ Earlier(x.m, Replayed(m).m)
    BY <1>5, <1>9
  <2>2. QED
    BY <1>2, <1>5, <2>1, PushAscends
<1>11. RestAscends'
  <2> SUFFICES ASSUME loop = "replayAlerts"
               PROVE  /\ \A i, j \in DOMAIN Tail(rest) : i < j => Earlier(Tail(rest)[i], Tail(rest)[j])
                      /\ \A c \in pending.to : \A x \in Entries(c)', y \in ToSet(Tail(rest)) :
                           x.m.kind = "alert" => Earlier(x.m, y)
    BY <1>2, <1>6 DEF RestAscends
  <2>1. /\ \A i, j \in DOMAIN rest : i < j => Earlier(rest[i], rest[j])
        /\ \A c \in pending.to : \A x \in Entries(c), y \in ToSet(rest) :
             x.m.kind = "alert" => Earlier(x.m, y)
    BY <1>1 DEF SInv, RestAscends
  <2>2. ASSUME NEW i \in DOMAIN Tail(rest), NEW j \in DOMAIN Tail(rest), i < j
        PROVE  Earlier(Tail(rest)[i], Tail(rest)[j])
    <3>1. /\ i + 1 \in DOMAIN rest /\ j + 1 \in DOMAIN rest /\ i + 1 < j + 1
          /\ Tail(rest)[i] = rest[i + 1] /\ Tail(rest)[j] = rest[j + 1]
      BY <1>3, <1>4, <2>2
    <3>2. QED
      BY <2>1, <3>1
  <2>3. ASSUME NEW y \in ToSet(Tail(rest)) PROVE Earlier(m, y)
    <3>1. PICK i \in DOMAIN Tail(rest) : y = Tail(rest)[i]
      BY <2>3 DEF ToSet
    <3>2. /\ i + 1 \in DOMAIN rest /\ 1 \in DOMAIN rest /\ 1 < i + 1 /\ y = rest[i + 1]
      BY <1>3, <1>4, <3>1
    <3>3. QED
      BY <1>3, <2>1, <3>2
  <2>4. ASSUME NEW c \in pending.to, NEW x \in Entries(c)', NEW y \in ToSet(Tail(rest)),
               x.m.kind = "alert"
        PROVE  Earlier(x.m, y)
    <3>1. x \in Entries(c) \/ x = Replayed(m)
      BY <1>2, <1>5, <1>7, <2>4, PushEntries DEF SInv, OInv, TInv
    <3>2. x = Replayed(m) => x.m = m
      BY <1>5
    <3>3. QED
      BY <1>3, <2>1, <2>3, <2>4, <3>1, <3>2
  <2>5. QED
    BY <2>2, <2>4
<1>12. QED
  BY <1>10, <1>11 DEF SInv

\* What is live does not count, and goes out between replays.
LEMMA LiveAscends ==
  ASSUME SInv, OInv', HandleBroadcast \/ HandleRaw \/ HandleAlert
  PROVE  SInv'
<1>1. PICK m \in Messages, cs \in SUBSET Clients :
        Push(cs, Live(m)) /\ UNCHANGED <<hand, got, writer>> /\ loop' = "select"
  <2>1. /\ broadcast # <<>> => Head(broadcast) \in Messages
        /\ raw # <<>> => Head(raw) \in Messages
        /\ alerts # <<>> => Head(alerts) \in Messages
    BY HeadOnce DEF SInv
  <2>2. clients \subseteq Clients /\ Dashboards \subseteq Clients
    BY DEF SInv, OInv, TInv, MInv, Places, Dashboards
  <2>3. QED
    BY <2>1, <2>2 DEF HandleBroadcast, HandleRaw, HandleAlert, hubVars, connVars, Selecting
<1>2. Live(m) \in Entry /\ ~ Live(m).replay
  BY DEF Entry, Live
<1>3. \A c \in Clients : Ascends(Stream(c)')
  BY <1>1, <1>2, PushAscends
<1>4. RestAscends'
  BY <1>1 DEF RestAscends
<1>5. QED
  BY <1>3, <1>4 DEF SInv

\* The alerts are sorted when their replay begins, and none was replayed yet.
LEMMA SortAscends ==
  ASSUME SInv, OInv', ReplayAlerts
  PROVE  SInv'
<1>1. /\ loop = "replayMetrics" /\ UNCHANGED <<send, hand, got>>
  BY DEF ReplayAlerts, connVars
<1>2. PICK as \in SortedAlerts : pending' = [pending EXCEPT !.rest = as]
  BY DEF ReplayAlerts
<1>3. pending'.to = pending.to /\ pending'.rest = as
  BY <1>2 DEF SInv, OInv, TInv, Shapes
<1>4. \A i, j \in DOMAIN as : i < j => Earlier(as[i], as[j])
  BY AlertsToReplay DEF SInv, OInv
<1>5. \A c \in Clients : Stream(c)' = Stream(c)
  BY <1>1 DEF Stream
<1>6. \A c \in pending.to : c \in Clients
  BY DEF SInv, OInv, TInv, Phase, Dashboards, MInv, Places
<1>7. \A c \in pending.to : \A x \in Entries(c)' : x.m.kind # "alert"
  BY <1>1, <1>5, <1>6 DEF SInv, OInv, Busy, Entries
<1>8. RestAscends'
  BY <1>3, <1>4, <1>7 DEF RestAscends
<1>9. QED
  BY <1>5, <1>8 DEF SInv

\* The other steps.
LEMMA AsideAscends ==
  ASSUME SInv, OInv',
         \/ Close \/ Tick \/ Return \/ Consume \/ EndReplay \/ UNCHANGED vars
         \/ \E c \in Clients :
              \/ Accept(c) \/ Disconnect(c) \/ ReadFails(c) \/ ReaderEnds(c)
              \/ WriterTakes(c) \/ WriteSucceeds(c) \/ WriteFails(c)
              \/ HandleRegister(c) \/ HandleUnregister(c)
  PROVE  SInv'
<1>1. loop' = "replayAlerts" => UNCHANGED <<loop, pending>>
  BY DEF Close, Tick, Return, Consume, EndReplay, Accept, Disconnect, ReadFails, ReaderEnds,
         WriterTakes, WriteSucceeds, WriteFails, HandleRegister, HandleUnregister, vars, hubVars
<1>2. \A c \in Clients : Thinned(Stream(c), Stream(c))
  BY Whole, StreamSeq DEF SInv, OInv, TInv
<1>3. CASE \/ Close \/ Tick \/ Return \/ Consume \/ EndReplay \/ UNCHANGED vars
           \/ \E c \in Clients : \/ Accept(c) \/ Disconnect(c) \/ ReadFails(c) \/ ReaderEnds(c)
                                 \/ HandleRegister(c) \/ HandleUnregister(c)
  <2>1. UNCHANGED <<got, hand, send>>
    BY <1>3 DEF Close, Tick, Return, Consume, EndReplay, Accept, Disconnect, ReadFails, ReaderEnds,
                HandleRegister, HandleUnregister, vars, connVars
  <2>2. \A c \in Clients : Stream(c)' = Stream(c)
    BY <2>1 DEF Stream
  <2>3. QED
    BY <1>1, <1>2, <2>2, KeptAscends
<1>4. ASSUME NEW c \in Clients, WriterTakes(c) \/ WriteSucceeds(c) \/ WriteFails(c)
      PROVE  SInv'
  <2>1. \A d \in Clients : Stream(d)' = Stream(d) \/ Thinned(Stream(d)', Stream(d))
    BY <1>4, WriterStreams DEF SInv, OInv
  <2>2. QED
    BY <1>1, <1>2, <2>1, KeptAscends
<1>5. QED
  BY <1>3, <1>4

\* Every step keeps the replays sorted.
LEMMA NextSInv ==
  ASSUME SInv, [Next]_vars
  PROVE  SInv'
<1>1. OInv'
  BY NextOInv DEF SInv
<1>2. CASE Run
  BY <1>1, <1>2, LiveAscends, ReplayAscends, SortAscends, AsideAscends DEF Run
<1>3. CASE Consume \/ Close \/ Tick \/ UNCHANGED vars
  BY <1>1, <1>3, AsideAscends
<1>4. ASSUME NEW c \in Clients,
             \/ Accept(c) \/ Disconnect(c) \/ ReadFails(c) \/ ReaderEnds(c)
             \/ WriterTakes(c) \/ WriteSucceeds(c) \/ WriteFails(c)
      PROVE  SInv'
  BY <1>1, <1>4, AsideAscends
<1>5. QED
  BY <1>2, <1>3, <1>4 DEF Next

\* In the beginning every stream is empty.
LEMMA EmptyStreams ==
  ASSUME Init
  PROVE  \A c \in Clients : Stream(c) = <<>> /\ DOMAIN Stream(c) = {}
<1>1. <<>> \in Seq(Entry)
  BY EmptySeq
<1>2. <<>> \o <<>> \o <<>> = <<>> /\ DOMAIN <<>> = {}
  BY <1>1, ConcatEmptySeq
<1>3. QED
  BY <1>2 DEF Init, Stream

\* A dashboard is replayed the metrics and then the alerts from the oldest to the
\* newest, though both caches change between replays and its buffer may overflow.
THEOREM ReplaysSorted == Spec => []ReplaySorted
<1>1. SInv => ReplaySorted
  <2>1. \A s : Ascends(s) =>
          \A i, j \in DOMAIN s :
            i < j /\ s[i].replay /\ s[j].replay /\ s[i].m.kind = "alert" =>
              /\ s[j].m.kind = "alert"
              /\ \/ s[i].m.at < s[j].m.at
                 \/ s[i].m.at = s[j].m.at /\ s[i].m.id < s[j].m.id
    BY DEF Ascends, Earlier
  <2>2. QED
    BY <2>1 DEF SInv, ReplaySorted
<1>2. Init => SInv
  BY InitOInv, EmptyStreams DEF Init, SInv, RestAscends, Ascends
<1>3. Init /\ [][Next]_vars => []SInv
  BY <1>2, NextSInv, PTL
<1>4. QED
  BY <1>1, <1>3, PTL DEF Spec

-----------------------------------------------------------------------------
(* What a dashboard has been told.                                         *)

\* m is in a stream, and after it no metric with key k.
NewestOf(s, k, m) ==
  \E i \in DOMAIN s :
    /\ s[i].m = m
    /\ \A j \in DOMAIN s : j > i => ~ (s[j].m.kind = "metric" /\ s[j].m.key = k)

\* m is in a stream.
Tells(s, m) == \E i \in DOMAIN s : s[i].m = m

\* A dashboard that missed nothing has been told the cached value of a metric last,
\* and every cached alert, or will be told it by the replay under way.
Told(c) ==
  Role(c) = "dashboard" /\ up[c] /\ dropped[c] = {} =>
    /\ \A k \in DOMAIN metricCache :
         \/ NewestOf(Stream(c), k, metricCache[k])
         \/ /\ loop = "replayMetrics" /\ c \in pending.to
            /\ metricCache[k] \in ToSet(pending.rest)
    /\ \A i \in DOMAIN alertCache :
         \/ Tells(Stream(c), alertCache[i])
         \/ /\ c \in pending.to
            /\ loop = "replayAlerts" => alertCache[i] \in ToSet(pending.rest)

CInv == OInv /\ \A c \in clients : Told(c)

\* An entry more in a stream.
LEMMA LastLonger ==
  ASSUME NEW S, NEW s \in Seq(S), NEW e \in S
  PROVE  /\ \A k : NewestOf(Append(s, e), k, e.m)
         /\ \A k, m : NewestOf(s, k, m) /\ ~ (e.m.kind = "metric" /\ e.m.key = k) =>
              NewestOf(Append(s, e), k, m)
         /\ Tells(Append(s, e), e.m)
         /\ \A m : Tells(s, m) => Tells(Append(s, e), m)
<1>1. PICK t : t = Append(s, e)
  OBVIOUS
<1>2. /\ DOMAIN s = 1 .. Len(s) /\ DOMAIN t = 1 .. Len(s) + 1 /\ Len(s) \in Nat
      /\ \A i \in 1 .. Len(s) : t[i] = s[i]
      /\ t[Len(s) + 1] = e
  BY <1>1, Longer, LenProperties
<1>3. /\ Len(s) + 1 \in DOMAIN t
      /\ \A j \in DOMAIN t : ~ (j > Len(s) + 1)
  BY <1>2
<1>4. Tells(t, e.m) /\ \A k : NewestOf(t, k, e.m)
  BY <1>2, <1>3 DEF Tells, NewestOf
<1>5. ASSUME NEW k, NEW m, NewestOf(s, k, m), ~ (e.m.kind = "metric" /\ e.m.key = k)
      PROVE  NewestOf(t, k, m)
  <2>1. PICK i \in DOMAIN s :
          /\ s[i].m = m
          /\ \A j \in DOMAIN s : j > i => ~ (s[j].m.kind = "metric" /\ s[j].m.key = k)
    BY <1>5 DEF NewestOf
  <2>2. \A j \in DOMAIN t : (j \in DOMAIN s /\ t[j] = s[j]) \/ t[j] = e
    BY <1>2
  <2>3. i \in DOMAIN t /\ t[i] = s[i]
    BY <1>2
  <2>4. \A j \in DOMAIN t : j > i => ~ (t[j].m.kind = "metric" /\ t[j].m.key = k)
    BY <1>5, <2>1, <2>2
  <2>5. QED
    BY <2>1, <2>3, <2>4 DEF NewestOf
<1>6. ASSUME NEW m, Tells(s, m) PROVE Tells(t, m)
  BY <1>2, <1>6 DEF Tells
<1>7. QED
  BY <1>1, <1>4, <1>5, <1>6

\* A push reaches every dashboard it is for that still misses nothing.
LEMMA PushTells ==
  ASSUME CInv, NEW cs, NEW e \in Entry, Push(cs, e), UNCHANGED <<hand, got, writer>>,
         NEW c \in Clients
  PROVE  /\ c \in cs /\ dropped'[c] = {} => Stream(c)' = Append(Stream(c), e) /\ dropped[c] = {}
         /\ c \notin cs => Stream(c)' = Stream(c) /\ dropped'[c] = dropped[c]
<1>1. /\ Stream(c)' = IF c \in cs /\ Room(c) THEN Append(Stream(c), e) ELSE Stream(c)
      /\ dropped'[c] = IF c \in cs /\ ~ Room(c) THEN dropped[c] \cup {e.m} ELSE dropped[c]
  BY PushStreams DEF CInv, OInv, TInv
<1>2. QED
  BY <1>1

\* Nothing a dashboard can tell, of its replay or of the caches.
LEMMA KeptTold ==
  ASSUME CInv, OInv',
         clients' \subseteq clients,
         UNCHANGED <<metricCache, alertCache, pending, dropped>>,
         loop' = loop \/ (Selecting /\ loop' = "returned"),
         \A c \in clients : up'[c] => up[c] /\ Stream(c)' = Stream(c)
  PROVE  CInv'
<1>1. ASSUME NEW c \in clients' PROVE Told(c)'
  <2>1. c \in clients /\ Told(c)
    BY <1>1 DEF CInv
  <2>2. Selecting => c \notin pending.to
    BY DEF CInv, OInv, TInv, Phase, Selecting
  <2>3. QED
    BY <2>1, <2>2 DEF Told, Role, Selecting
<1>2. QED
  BY <1>1 DEF CInv

\* The steps that send nothing.
LEMMA AsideTold ==
  ASSUME CInv, OInv',
         \/ Close \/ Tick \/ Return \/ Consume \/ UNCHANGED vars
         \/ \E c \in Clients :
              \/ Accept(c) \/ Disconnect(c) \/ ReadFails(c) \/ ReaderEnds(c)
              \/ WriterTakes(c) \/ WriteSucceeds(c) \/ WriteFails(c) \/ HandleUnregister(c)
  PROVE  CInv'
<1>1. /\ clients' \subseteq clients
      /\ UNCHANGED <<metricCache, alertCache, pending, dropped>>
      /\ loop' = loop \/ (Selecting /\ loop' = "returned")
  BY DEF Close, Tick, Return, Consume, Accept, Disconnect, ReadFails, ReaderEnds, WriterTakes,
         WriteSucceeds, WriteFails, HandleUnregister, vars, hubVars, connVars
<1>2. \A c \in clients : c \in Clients /\ reader[c] # "absent"
  BY DEF CInv, OInv, TInv, MInv, Places, MembersOpen
<1>3. up \in [Clients -> BOOLEAN]
  BY DEF CInv, OInv, TInv, MInv, Places
<1>4. CASE \/ Close \/ Tick \/ Return \/ Consume \/ UNCHANGED vars
           \/ \E c \in Clients : Disconnect(c) \/ ReadFails(c) \/ ReaderEnds(c) \/ HandleUnregister(c)
  <2>1. /\ UNCHANGED <<got, hand, send>>
        /\ up' = up \/ \E d \in Clients : up' = [up EXCEPT ![d] = FALSE]
    BY <1>4 DEF Close, Tick, Return, Consume, Disconnect, ReadFails, ReaderEnds,
                HandleUnregister, vars, connVars
  <2>2. \A c \in clients : Stream(c)' = Stream(c)
    BY <2>1 DEF Stream
  <2>3. \A c \in clients : up'[c] => up[c]
    BY <1>2, <1>3, <2>1
  <2>4. QED
    BY <1>1, <2>2, <2>3, KeptTold
<1>5. ASSUME NEW c \in Clients, Accept(c) PROVE CInv'
  <2>1. /\ UNCHANGED <<got, hand, send>>
        /\ up' = [up EXCEPT ![c] = TRUE] /\ reader[c] = "absent"
    BY <1>5 DEF Accept
  <2>2. \A d \in clients : Stream(d)' = Stream(d)
    BY <2>1 DEF Stream
  <2>3. \A d \in clients : up'[d] => up[d]
    BY <1>2, <1>3, <2>1
  <2>4. QED
    BY <1>1, <2>2, <2>3, KeptTold
<1>6. ASSUME NEW c \in Clients, WriterTakes(c) \/ WriteSucceeds(c) \/ WriteFails(c)
      PROVE  CInv'
  <2>1. \A d \in Clients : Stream(d)' = Stream(d) \/ ~ up'[d]
    BY <1>6, WriterStreams DEF CInv, OInv
  <2>2. up' = up \/ up' = [up EXCEPT ![c] = FALSE]
    BY <1>6 DEF WriterTakes, WriteSucceeds, WriteFails
  <2>3. \A d \in clients : up'[d] => up[d]
    BY <1>2, <1>3, <2>2
  <2>4. QED
    BY <1>1, <1>2, <2>1, <2>3, KeptTold
<1>7. QED
  BY <1>4, <1>5, <1>6

\* An event tells nothing of metrics or alerts.
LEMMA BroadcastTold ==
  ASSUME CInv, OInv', HandleBroadcast
  PROVE  CInv'
<1>1. PICK m, cs : m = Head(broadcast) /\ cs = {c \in clients : ShouldSend(c, m)}
  OBVIOUS
<1>2. /\ broadcast # <<>> /\ Push(cs, Live(m))
      /\ UNCHANGED <<clients, metricCache, alertCache, loop, pending, hand, got, writer, up>>
  BY <1>1 DEF HandleBroadcast, hubVars, connVars
<1>3. m \in Messages /\ m.kind = "event"
  BY <1>1, <1>2, Taken DEF CInv, OInv, TInv, Shapes
<1>4. Live(m) \in Entry /\ Live(m).m = m
  BY <1>3 DEF Entry, Live
<1>5. ASSUME NEW c \in clients PROVE Told(c)'
  <2>1. c \in Clients /\ Told(c)
    BY DEF CInv, OInv, TInv, MInv, Places
  <2>2. Stream(c) \in Seq(Entry)
    BY <2>1, StreamSeq DEF CInv, OInv, TInv
  <2>3. CASE c \notin cs
    BY <1>2, <1>4, <2>1, <2>3, PushTells DEF Told, Role
  <2>4. CASE c \in cs
    <3>1. dropped'[c] = {} => Stream(c)' = Append(Stream(c), Live(m)) /\ dropped[c] = {}
      BY <1>2, <1>4, <2>1, <2>4, PushTells
    <3>2. /\ \A k, v : NewestOf(Stream(c), k, v) => NewestOf(Append(Stream(c), Live(m)), k, v)
          /\ \A v : Tells(Stream(c), v) => Tells(Append(Stream(c), Live(m)), v)
      BY <1>3, <1>4, <2>2, LastLonger
    <3>3. QED
      BY <1>2, <2>1, <3>1, <3>2 DEF Told, Role
  <2>5. QED
    BY <2>3, <2>4
<1>6. QED
  BY <1>2, <1>5 DEF CInv

\* Whatever is sent to all dashboards between replays.
LEMMA DashboardsPushed ==
  ASSUME CInv, NEW e \in Entry, Push(Dashboards, e), UNCHANGED <<hand, got, writer, up>>,
         Selecting,
         NEW c \in clients, Role(c) = "dashboard", up'[c], dropped'[c] = {}
  PROVE  /\ \A k \in DOMAIN metricCache :
              ~ (e.m.kind = "metric" /\ e.m.key = k) => NewestOf(Stream(c)', k, metricCache[k])
         /\ \A i \in DOMAIN alertCache : Tells(Stream(c)', alertCache[i])
         /\ Tells(Stream(c)', e.m) /\ \A k : NewestOf(Stream(c)', k, e.m)
<1>1. c \in Clients /\ c \in Dashboards /\ Told(c)
  BY DEF CInv, OInv, TInv, MInv, Places, Dashboards
<1>2. Stream(c)' = Append(Stream(c), e) /\ dropped[c] = {} /\ Stream(c) \in Seq(Entry)
  BY <1>1, PushTells, StreamSeq DEF CInv, OInv, TInv
<1>3. c \notin pending.to
  BY DEF CInv, OInv, TInv, Phase, Selecting
<1>4. /\ \A k \in DOMAIN metricCache : NewestOf(Stream(c), k, metricCache[k])
      /\ \A i \in DOMAIN alertCache : Tells(Stream(c), alertCache[i])
  BY <1>1, <1>2, <1>3 DEF Told
<1>5. /\ \A k : NewestOf(Append(Stream(c), e), k, e.m)
      /\ \A k, m : NewestOf(Stream(c), k, m) /\ ~ (e.m.kind = "metric" /\ e.m.key = k) =>
           NewestOf(Append(Stream(c), e), k, m)
      /\ Tells(Append(Stream(c), e), e.m)
      /\ \A m : Tells(Stream(c), m) => Tells(Append(Stream(c), e), m)
  BY <1>2, LastLonger
<1>6. QED
  BY <1>2, <1>4, <1>5

\* A metric goes to every dashboard as it goes into the cache.
LEMMA RawTold ==
  ASSUME CInv, OInv', HandleRaw
  PROVE  CInv'
<1>1. PICK m : m = Head(raw)
  OBVIOUS
<1>2. /\ Selecting /\ raw # <<>> /\ metricCache' = Cached(m) /\ Push(Dashboards, Live(m))
      /\ UNCHANGED <<clients, alertCache, loop, pending, hand, got, writer, up>>
  BY <1>1 DEF HandleRaw, connVars
<1>3. m \in Messages /\ \A k \in DOMAIN metricCache : k # NotCacheable
  BY <1>1, <1>2, Taken DEF CInv, OInv, TInv, Shapes
<1>4. Live(m) \in Entry /\ Live(m).m = m
  BY <1>3 DEF Entry, Live
<1>5. \A k \in DOMAIN metricCache' :
        \/ m.key # k /\ k \in DOMAIN metricCache /\ metricCache'[k] = metricCache[k]
        \/ metricCache'[k] = m
  BY <1>2, <1>3 DEF Cached
<1>6. ASSUME NEW c \in clients PROVE Told(c)'
  <2> SUFFICES ASSUME Role(c) = "dashboard", up'[c], dropped'[c] = {}
               PROVE  /\ \A k \in DOMAIN metricCache' : NewestOf(Stream(c)', k, metricCache'[k])
                      /\ \A i \in DOMAIN alertCache' : Tells(Stream(c)', alertCache'[i])
    BY DEF Told, Role
  <2>1. /\ \A k \in DOMAIN metricCache : m.key # k => NewestOf(Stream(c)', k, metricCache[k])
        /\ \A i \in DOMAIN alertCache : Tells(Stream(c)', alertCache[i])
        /\ \A k : NewestOf(Stream(c)', k, m)
    BY <1>2, <1>4, DashboardsPushed
  <2>2. QED
    BY <1>2, <1>5, <2>1
<1>7. QED
  BY <1>2, <1>6 DEF CInv

\* An alert goes to every dashboard as it goes into the cache.
LEMMA AlertTold ==
  ASSUME CInv, OInv', HandleAlert
  PROVE  CInv'
<1>1. PICK a, kept :
        /\ a = Head(alerts) /\ kept = IF a.at # NoTime /\ Recent(a) THEN {a.id} ELSE {}
        /\ alertCache' = [i \in RecentIds \cup kept |-> IF i \in kept THEN a ELSE alertCache[i]]
        /\ Push(Dashboards, Live(a))
  BY DEF HandleAlert
<1>2. /\ Selecting /\ alerts # <<>>
      /\ UNCHANGED <<clients, metricCache, loop, pending, hand, got, writer, up>>
  BY DEF HandleAlert, connVars
<1>3. a \in Messages /\ a.kind = "alert"
  BY <1>1, <1>2, Taken DEF CInv, OInv, TInv, Shapes
<1>4. Live(a) \in Entry /\ Live(a).m = a
  BY <1>3 DEF Entry, Live
<1>5. \A i \in DOMAIN alertCache' :
        \/ i \in DOMAIN alertCache /\ alertCache'[i] = alertCache[i]
        \/ alertCache'[i] = a
  BY <1>1 DEF RecentIds
<1>6. ASSUME NEW c \in clients PROVE Told(c)'
  <2> SUFFICES ASSUME Role(c) = "dashboard", up'[c], dropped'[c] = {}
               PROVE  /\ \A k \in DOMAIN metricCache' : NewestOf(Stream(c)', k, metricCache'[k])
                      /\ \A i \in DOMAIN alertCache' : Tells(Stream(c)', alertCache'[i])
    BY DEF Told, Role
  <2>1. /\ \A k \in DOMAIN metricCache : NewestOf(Stream(c)', k, metricCache[k])
        /\ \A i \in DOMAIN alertCache : Tells(Stream(c)', alertCache[i])
        /\ Tells(Stream(c)', a)
    BY <1>1, <1>2, <1>3, <1>4, DashboardsPushed
  <2>2. QED
    BY <1>2, <1>5, <2>1
<1>7. QED
  BY <1>2, <1>6 DEF CInv

\* A new dashboard has everything before it.
LEMMA RegisterTold ==
  ASSUME CInv, OInv', NEW c \in Clients, HandleRegister(c)
  PROVE  CInv'
<1>1. /\ Selecting /\ clients' = clients \cup {c}
      /\ UNCHANGED <<metricCache, alertCache, send, hand, got, up, dropped>>
      /\ \/ Role(c) # "dashboard" /\ UNCHANGED <<loop, pending>>
         \/ /\ Role(c) = "dashboard" /\ loop' = "replayMetrics"
            /\ \E keys \in SortedKeys :
                 pending' = [to |-> {c}, rest |-> [i \in DOMAIN keys |-> metricCache[keys[i]]]]
  BY DEF HandleRegister
<1>2. \A d : d \notin pending.to
  BY <1>1 DEF CInv, OInv, TInv, Phase, Selecting
<1>3. \A d \in Clients : Stream(d)' = Stream(d)
  BY <1>1 DEF Stream
<1>4. \A d \in clients : d \in Clients
  BY DEF CInv, OInv, TInv, MInv, Places
<1>5. \A d \in clients \ {c} : Told(d)'
  BY <1>1, <1>2, <1>3, <1>4 DEF CInv, Told, Role
<1>6. Told(c)'
  <2>1. CASE Role(c) # "dashboard"
    BY <2>1 DEF Told, Role
  <2>2. ASSUME NEW keys \in SortedKeys, loop' = "replayMetrics",
               pending' = [to |-> {c}, rest |-> [i \in DOMAIN keys |-> metricCache[keys[i]]]]
        PROVE  Told(c)'
    <3>1. PICK rest : rest = [i \in DOMAIN keys |-> metricCache[keys[i]]]
      OBVIOUS
    <3>2. ToSet(rest) = {metricCache[k] : k \in DOMAIN metricCache}
      BY <3>1, MetricsToReplay DEF CInv, OInv
    <3>3. pending'.to = {c} /\ pending'.rest = rest
      BY <2>2, <3>1
    <3>4. QED
      BY <1>1, <2>2, <3>2, <3>3 DEF Told
  <2>3. QED
    BY <1>1, <2>1, <2>2
<1>7. QED
  BY <1>1, <1>5, <1>6 DEF CInv

\* The next message of a replay is told now.
LEMMA ReplayTold ==
  ASSUME CInv, OInv', ReplayOne
  PROVE  CInv'
<1>1. PICK m, rest : m = Head(pending.rest) /\ rest = pending.rest
  OBVIOUS
<1>2. /\ rest # <<>> /\ rest \in Seq(Messages)
      /\ pending' = [pending EXCEPT !.rest = Tail(rest)]
      /\ UNCHANGED <<clients, metricCache, alertCache, loop, hand, got, writer, up>>
      /\ Push(pending.to, Replayed(m))
  BY <1>1 DEF CInv, OInv, TInv, Shapes, ReplayOne, connVars
<1>3. /\ m \in Messages /\ m \in ToSet(rest)
      /\ ToSet(rest) \subseteq ToSet(Tail(rest)) \cup {m}
  BY <1>1, <1>2, Taken
<1>4. Replayed(m) \in Entry /\ Replayed(m).m = m
  BY <1>3 DEF Entry, Replayed
<1>5. pending'.to = pending.to /\ pending'.rest = Tail(rest)
  BY <1>2 DEF CInv, OInv, TInv, Shapes
<1>6. m.kind = "metric" => m.key \in DOMAIN metricCache /\ m = metricCache[m.key]
  BY <1>1, <1>3 DEF CInv, OInv, Busy
<1>7. ASSUME NEW c \in clients PROVE Told(c)'
  <2>1. c \in Clients /\ Told(c)
    BY DEF CInv, OInv, TInv, MInv, Places
  <2>2. Stream(c) \in Seq(Entry)
    BY <2>1, StreamSeq DEF CInv, OInv, TInv
  <2>3. CASE c \notin pending.to
    BY <1>2, <1>4, <1>5, <2>1, <2>3, PushTells DEF Told, Role
  <2>4. CASE c \in pending.to
    <3> SUFFICES ASSUME Role(c) = "dashboard", up'[c], dropped'[c] = {}
                 PROVE  /\ \A k \in DOMAIN metricCache :
                             \/ NewestOf(Stream(c)', k, metricCache[k])
                             \/ loop = "replayMetrics" /\ metricCache[k] \in ToSet(Tail(rest))
                        /\ \A i \in DOMAIN alertCache :
                             \/ Tells(Stream(c)', alertCache[i])
                             \/ loop = "replayAlerts" => alertCache[i] \in ToSet(Tail(rest))
      BY <1>2, <1>5, <2>4 DEF Told, Role
    <3>1. Stream(c)' = Append(Stream(c), Replayed(m)) /\ dropped[c] = {}
      BY <1>2, <1>4, <2>1, <2>4, PushTells
    <3>2. /\ \A k : NewestOf(Stream(c)', k, m)
          /\ \A k, v : NewestOf(Stream(c), k, v) /\ ~ (m.kind = "metric" /\ m.key = k) =>
               NewestOf(Stream(c)', k, v)
          /\ Tells(Stream(c)', m)
          /\ \A v : Tells(Stream(c), v) => Tells(Stream(c)', v)
      <4>1. /\ \A k : NewestOf(Append(Stream(c), Replayed(m)), k, Replayed(m).m)
            /\ \A k, v : NewestOf(Stream(c), k, v)
                         /\ ~ (Replayed(m).m.kind = "metric" /\ Replayed(m).m.key = k) =>
                 NewestOf(Append(Stream(c), Replayed(m)), k, v)
            /\ Tells(Append(Stream(c), Replayed(m)), Replayed(m).m)
            /\ \A v : Tells(Stream(c), v) => Tells(Append(Stream(c), Replayed(m)), v)
        BY <1>4, <2>2, LastLonger
      <4>2. QED
        BY <1>4, <3>1, <4>1
    <3>3. /\ \A k \in DOMAIN metricCache :
               \/ NewestOf(Stream(c), k, metricCache[k])
               \/ loop = "replayMetrics" /\ metricCache[k] \in ToSet(rest)
          /\ \A i \in DOMAIN alertCache :
               \/ Tells(Stream(c), alertCache[i])
               \/ loop = "replayAlerts" => alertCache[i] \in ToSet(rest)
      BY <1>1, <1>2, <2>1, <3>1 DEF Told
    <3>4. ASSUME NEW k \in DOMAIN metricCache
          PROVE  \/ NewestOf(Stream(c)', k, metricCache[k])
                 \/ loop = "replayMetrics" /\ metricCache[k] \in ToSet(Tail(rest))
      <4>1. CASE m.kind = "metric" /\ m.key = k
        BY <1>6, <3>2, <4>1
      <4>2. CASE ~ (m.kind = "metric" /\ m.key = k)
        BY <1>3, <3>2, <3>3, <4>2
      <4>3. QED
        BY <4>1, <4>2
    <3>5. QED
      BY <1>3, <3>2, <3>3, <3>4
  <2>5. QED
    BY <2>3, <2>4
<1>8. QED
  BY <1>2, <1>7 DEF CInv

\* The alerts are next, now that all the metrics are told.
LEMMA ReplayAlertsTold ==
  ASSUME CInv, OInv', ReplayAlerts
  PROVE  CInv'
<1>1. /\ loop = "replayMetrics" /\ loop' = "replayAlerts" /\ pending.rest = <<>>
      /\ alertCache' = [i \in RecentIds |-> alertCache[i]]
      /\ UNCHANGED <<clients, metricCache, send, hand, got, up, dropped>>
  BY DEF ReplayAlerts, connVars
<1>2. PICK as \in SortedAlerts : pending' = [pending EXCEPT !.rest = as]
  BY DEF ReplayAlerts
<1>3. pending'.to = pending.to /\ pending'.rest = as
  BY <1>2 DEF CInv, OInv, TInv, Shapes
<1>4. ToSet(as) = {alertCache[i] : i \in RecentIds}
  BY AlertsToReplay DEF CInv, OInv
<1>5. \A i \in RecentIds : i \in DOMAIN alertCache
  BY DEF RecentIds
<1>6. ToSet(pending.rest) = {}
  <2>1. DOMAIN <<>> = {}
    OBVIOUS
  <2>2. QED
    BY <1>1, <2>1 DEF ToSet
<1>7. ASSUME NEW c \in clients PROVE Told(c)'
  <2>1. Stream(c)' = Stream(c) /\ Told(c)
    BY <1>1 DEF Stream, CInv
  <2>2. \A i \in DOMAIN alertCache' : /\ i \in DOMAIN alertCache /\ alertCache'[i] = alertCache[i]
                                      /\ alertCache[i] \in ToSet(as)
    BY <1>1, <1>4, <1>5
  <2>3. QED
    BY <1>1, <1>3, <1>6, <2>1, <2>2 DEF Told, Role
<1>8. QED
  BY <1>1, <1>7 DEF CInv

\* At the end of a replay all was told.
LEMMA EndReplayTold ==
  ASSUME CInv, OInv', EndReplay
  PROVE  CInv'
<1>1. /\ loop = "replayAlerts" /\ loop' = "select" /\ pending.rest = <<>>
      /\ UNCHANGED <<clients, metricCache, alertCache, send, hand, got, up, dropped>>
  BY DEF EndReplay, connVars
<1>2. ToSet(pending.rest) = {}
  <2>1. DOMAIN <<>> = {}
    OBVIOUS
  <2>2. QED
    BY <1>1, <2>1 DEF ToSet
<1>3. ASSUME NEW c \in clients PROVE Told(c)'
  <2>1. Stream(c)' = Stream(c) /\ Told(c)
    BY <1>1 DEF Stream, CInv
  <2>2. QED
    BY <1>1, <1>2, <2>1 DEF Told, Role
<1>4. QED
  BY <1>1, <1>3 DEF CInv

\* Every step keeps the dashboards told.
LEMMA NextCInv ==
  ASSUME CInv, [Next]_vars
  PROVE  CInv'
<1>1. OInv'
  BY NextOInv DEF CInv
<1>2. CASE Run
  BY <1>1, <1>2, BroadcastTold, RawTold, AlertTold, RegisterTold, ReplayTold, ReplayAlertsTold,
     EndReplayTold, AsideTold DEF Run
<1>3. CASE Consume \/ Close \/ Tick \/ UNCHANGED vars
  BY <1>1, <1>3, AsideTold
<1>4. ASSUME NEW c \in Clients,
             \/ Accept(c) \/ Disconnect(c) \/ ReadFails(c) \/ ReaderEnds(c)
             \/ WriterTakes(c) \/ WriteSucceeds(c) \/ WriteFails(c)
      PROVE  CInv'
  BY <1>1, <1>4, AsideTold
<1>5. QED
  BY <1>2, <1>3, <1>4 DEF Next

\* No value falls between replay and live: a connected dashboard that missed
\* nothing for lack of room has last been told, of each metric, the cached value,
\* and every cached alert (the replay is taken from the caches within one case of
\* Run's select).
THEOREM DashboardsStayCurrent == Spec => []DashboardCurrent
<1>1. CInv => DashboardCurrent
  <2> SUFFICES ASSUME CInv, Selecting, NEW c \in Dashboards, up[c], dropped[c] = {}
               PROVE  /\ \A k \in DOMAIN metricCache : LastTold(c, k, metricCache[k])
                      /\ \A i \in DOMAIN alertCache : \E x \in Entries(c) : x.m = alertCache[i]
    BY DEF DashboardCurrent
  <2>1. c \in clients /\ Role(c) = "dashboard" /\ Told(c) /\ c \notin pending.to
    BY DEF CInv, OInv, TInv, Phase, Selecting, Dashboards
  <2>2. /\ \A k \in DOMAIN metricCache : NewestOf(Stream(c), k, metricCache[k])
        /\ \A i \in DOMAIN alertCache : Tells(Stream(c), alertCache[i])
    BY <2>1 DEF Told
  <2>3. \A k \in DOMAIN metricCache : LastTold(c, k, metricCache[k])
    BY <2>2 DEF NewestOf, LastTold
  <2>4. QED
    BY <2>2, <2>3 DEF Tells, Entries, ToSet
<1>2. Init => CInv
  BY InitOInv DEF Init, CInv
<1>3. Init /\ [][Next]_vars => []CInv
  BY <1>2, NextCInv, PTL
<1>4. QED
  BY <1>1, <1>3, PTL DEF Spec

-----------------------------------------------------------------------------
(* Who follows an order.                                                   *)

\* Of the events in a stream that go on with what c was shown and that concern c,
\* c was sent each, or had no room for it.
Informs(s, c) ==
  \A i, j \in DOMAIN s :
    /\ i < j /\ s[i] \in Entries(c)
    /\ s[j].m.kind = "event" /\ s[j].m.type \in PartyEvents
    /\ s[i].m.order = s[j].m.order /\ Concerns(s[j].m, c)
    => s[j] \in Entries(c) \/ s[j].m \in dropped[c]

Party(c) == c \in clients /\ Role(c) # "dashboard" /\ up[c]

KInv == OInv /\ \A c, d \in Clients : Party(c) => Informs(Stream(d), c)

\* Streams that lose entries, but for the parties' that are still there.
LEMMA KeptInforms ==
  ASSUME KInv, OInv', UNCHANGED dropped,
         \A d \in Clients : Thinned(Stream(d)', Stream(d)),
         \A c \in Clients : Party(c)' =>
           /\ Stream(c)' = Stream(c)
           /\ Party(c) \/ Stream(c) = <<>>
  PROVE  KInv'
<1>1. ASSUME NEW c \in Clients, NEW d \in Clients, Party(c)' PROVE Informs(Stream(d), c)'
  <2>1. PICK s, t : s = Stream(d) /\ t = Stream(d)'
    OBVIOUS
  <2>2. s \in Seq(Entry) /\ t \in Seq(Entry) /\ Thinned(t, s)
    BY <2>1, StreamSeq, StreamSeqNext DEF KInv, OInv, TInv
  <2>3. PICK f : /\ \A i \in DOMAIN t : f[i] \in DOMAIN s /\ t[i] = s[f[i]]
                 /\ \A i, j \in DOMAIN t : i < j => f[i] < f[j]
                 /\ \A i, j \in DOMAIN t : f[i] = f[j] => i = j
    BY ONLY <2>2, ThinnedFrom
  <2>4. Entries(c)' = Entries(c) /\ dropped'[c] = dropped[c]
    BY <1>1 DEF Entries
  <2>5. Informs(s, c)
    <3>1. CASE Party(c)
      BY <2>1, <3>1 DEF KInv
    <3>2. CASE Stream(c) = <<>>
      <4>1. Entries(c) = {}
        <5>1. DOMAIN <<>> = {}
          OBVIOUS
        <5>2. QED
          BY <3>2, <5>1 DEF Entries, ToSet
      <4>2. QED
        BY <4>1 DEF Informs
    <3>3. QED
      BY <1>1, <3>1, <3>2
  <2>6. ASSUME NEW i \in DOMAIN t, NEW j \in DOMAIN t,
               i < j, t[i] \in Entries(c),
               t[j].m.kind = "event", t[j].m.type \in PartyEvents,
               t[i].m.order = t[j].m.order, Concerns(t[j].m, c)
        PROVE  t[j] \in Entries(c) \/ t[j].m \in dropped[c]
    <3>1. /\ f[i] \in DOMAIN s /\ f[j] \in DOMAIN s /\ f[i] < f[j]
          /\ t[i] = s[f[i]] /\ t[j] = s[f[j]]
      BY <2>3, <2>6
    <3>2. QED
      BY <2>5, <2>6, <3>1 DEF Informs
  <2>7. QED
    BY <2>1, <2>4, <2>6 DEF Informs, Concerns, Role
<1>2. QED
  BY <1>1 DEF KInv

\* Who is concerned by an event of an order is sent it.
LEMMA ConcernedSent ==
  ASSUME NEW e, NEW c, e.type \in PartyEvents, Concerns(e, c)
  PROVE  ShouldSend(c, e)
  BY DEF Concerns, ShouldSend, PartyEvents, JobBoardEvents

\* A new entry is an event sent to all it concerns, or no event and sent to
\* dashboards only.
LEMMA PushInforms ==
  ASSUME KInv, OInv', NEW cs, NEW e \in Entry, Push(cs, e),
         UNCHANGED <<hand, got, writer, clients, up>>,
         \/ /\ e.m.kind = "event" /\ cs = {c \in clients : ShouldSend(c, e.m)}
            /\ \A c \in Clients : e \notin Entries(c)
         \/ e.m.kind # "event" /\ cs \subseteq Dashboards
  PROVE  KInv'
<1>1. ASSUME NEW c \in Clients, NEW d \in Clients, Party(c)' PROVE Informs(Stream(d), c)'
  <2>1. PICK s, t : s = Stream(d) /\ t = Stream(d)'
    OBVIOUS
  <2>2. s \in Seq(Entry)
    BY <2>1, StreamSeq DEF KInv, OInv, TInv
  <2>3. Party(c) /\ c \in clients /\ c \notin Dashboards
    BY <1>1 DEF Party, Role, Dashboards
  <2>4. Informs(s, c)
    BY <2>1, <2>3 DEF KInv
  <2>5. t = Append(s, e) \/ t = s
    BY <2>1, PushStreams DEF KInv, OInv, TInv
  <2>6. /\ DOMAIN s = 1 .. Len(s) /\ DOMAIN Append(s, e) = 1 .. Len(s) + 1 /\ Len(s) \in Nat
        /\ \A i \in 1 .. Len(s) : Append(s, e)[i] = s[i]
        /\ Append(s, e)[Len(s) + 1] = e
    BY <2>2, Longer, LenProperties
  <2>7. /\ \A i \in DOMAIN t : i \in DOMAIN s \/ (i = Len(s) + 1 /\ t[i] = e)
        /\ \A i \in DOMAIN s : t[i] = s[i]
    BY <2>5, <2>6
  <2>8. /\ Entries(c)' = IF c \in cs /\ Room(c) THEN Entries(c) \cup {e} ELSE Entries(c)
        /\ dropped'[c] = IF c \in cs /\ ~ Room(c) THEN dropped[c] \cup {e.m} ELSE dropped[c]
    BY PushEntries, PushStreams DEF KInv, OInv, TInv
  <2>9. \A i \in DOMAIN s : s[i] \in Entries(c)' => s[i] \in Entries(c)
    <3>1. CASE c \in cs
      <4>1. \A i \in DOMAIN s : s[i] # e
        BY <2>1, <2>3, <3>1 DEF Entries, ToSet
      <4>2. QED
        BY <2>8, <4>1
    <3>2. CASE c \notin cs
      BY <2>8, <3>2
    <3>3. QED
      BY <3>1, <3>2
  <2>10. ASSUME NEW i \in DOMAIN t, NEW j \in DOMAIN t,
                i < j, t[i] \in Entries(c)',
                t[j].m.kind = "event", t[j].m.type \in PartyEvents,
                t[i].m.order = t[j].m.order, Concerns(t[j].m, c)
         PROVE  t[j] \in Entries(c)' \/ t[j].m \in dropped'[c]
    <3>1. i \in DOMAIN s /\ t[i] = s[i] /\ t[i] \in Entries(c)
      BY <2>6, <2>7, <2>9, <2>10
    <3>2. CASE j \in DOMAIN s
      <4>1. s[j] \in Entries(c) \/ s[j].m \in dropped[c]
        BY <2>4, <2>7, <2>10, <3>1, <3>2 DEF Informs
      <4>2. QED
        BY <2>7, <2>8, <3>2, <4>1
    <3>3. CASE t[j] = e
      <4>1. c \in cs
        BY <2>3, <2>10, <3>3, ConcernedSent
      <4>2. QED
        BY <2>8, <3>3, <4>1
    <3>4. QED
      BY <2>7, <3>2, <3>3
  <2>11. QED
    BY <2>1, <2>10 DEF Informs, Concerns, Role
<1>2. QED
  BY <1>1 DEF KInv

\* What the hub sends.
LEMMA SendInforms ==
  ASSUME KInv, OInv', HandleBroadcast \/ HandleRaw \/ HandleAlert \/ ReplayOne
  PROVE  KInv'
<1>1. CASE HandleBroadcast
  <2>1. PICK m, cs : m = Head(broadcast) /\ cs = {c \in clients : ShouldSend(c, m)}
    OBVIOUS
  <2>2. /\ broadcast # <<>> /\ Push(cs, Live(m))
        /\ UNCHANGED <<hand, got, writer, clients, up>>
    BY <1>1, <2>1 DEF HandleBroadcast, hubVars, connVars
  <2>3. m \in Messages /\ m.kind = "event" /\ m \in Queued
    <3>1. broadcast \in Seq(Messages) /\ \A x \in ToSet(broadcast) : x.kind = "event"
      BY DEF KInv, OInv, TInv, Shapes
    <3>2. Head(broadcast) \in ToSet(broadcast) /\ Head(broadcast) \in Messages
      BY <2>2, <3>1, Taken
    <3>3. QED
      BY <2>1, <3>1, <3>2 DEF Queued
  <2>4. Live(m) \in Entry /\ Live(m).m = m /\ ~ Live(m).replay
    BY <2>3 DEF Entry, Live
  <2>5. \A c \in Clients : Live(m) \notin Entries(c)
    BY <2>3, <2>4 DEF KInv, OInv, Once
  <2>6. cs = {c \in clients : ShouldSend(c, Live(m).m)} /\ Live(m).m.kind = "event"
    BY <2>1, <2>3, <2>4
  <2>7. QED
    BY <2>2, <2>4, <2>5, <2>6, PushInforms
<1>2. CASE HandleRaw
  <2>1. /\ raw # <<>> /\ Push(Dashboards, Live(Head(raw)))
        /\ UNCHANGED <<hand, got, writer, clients, up>>
    BY <1>2 DEF HandleRaw, connVars
  <2>2. Head(raw) \in Messages /\ Head(raw).kind # "event"
    BY <2>1, Taken DEF KInv, OInv, TInv, Shapes
  <2>3. Live(Head(raw)) \in Entry /\ Live(Head(raw)).m.kind # "event"
    BY <2>2 DEF Entry, Live
  <2>4. QED
    BY <2>1, <2>3, PushInforms
<1>3. CASE HandleAlert
  <2>1. /\ alerts # <<>> /\ Push(Dashboards, Live(Head(alerts)))
        /\ UNCHANGED <<hand, got, writer, clients, up>>
    BY <1>3 DEF HandleAlert, connVars
  <2>2. Head(alerts) \in Messages /\ Head(alerts).kind # "event"
    BY <2>1, Taken DEF KInv, OInv, TInv, Shapes
  <2>3. Live(Head(alerts)) \in Entry /\ Live(Head(alerts)).m.kind # "event"
    BY <2>2 DEF Entry, Live
  <2>4. QED
    BY <2>1, <2>3, PushInforms
<1>4. CASE ReplayOne
  <2>1. PICK m : m = Head(pending.rest)
    OBVIOUS
  <2>2. /\ pending.rest # <<>> /\ pending.rest \in Seq(Messages) /\ Push(pending.to, Replayed(m))
        /\ UNCHANGED <<hand, got, writer, clients, up>>
    BY <1>4, <2>1 DEF KInv, OInv, TInv, Shapes, ReplayOne, connVars
  <2>3. m \in Messages /\ m.kind # "event"
    <3>1. m \in Messages /\ m \in ToSet(pending.rest)
      BY <2>1, <2>2, Taken
    <3>2. QED
      BY <3>1 DEF KInv, OInv, Busy
  <2>4. Replayed(m) \in Entry /\ Replayed(m).m.kind # "event"
    BY <2>3 DEF Entry, Replayed
  <2>5. pending.to \subseteq Dashboards
    BY DEF KInv, OInv, TInv, Phase
  <2>6. QED
    BY <2>2, <2>4, <2>5, PushInforms
<1>5. QED
  BY <1>1, <1>2, <1>3, <1>4

\* The steps that send nothing: a party that comes in was sent nothing yet.
LEMMA AsideInforms ==
  ASSUME KInv, OInv',
         \/ Close \/ Tick \/ Return \/ Consume \/ ReplayAlerts \/ EndReplay \/ UNCHANGED vars
         \/ \E c \in Clients :
              \/ Accept(c) \/ Disconnect(c) \/ ReadFails(c) \/ ReaderEnds(c)
              \/ WriterTakes(c) \/ WriteSucceeds(c) \/ WriteFails(c)
              \/ HandleRegister(c) \/ HandleUnregister(c)
  PROVE  KInv'
<1>1. \A c \in Clients : Thinned(Stream(c), Stream(c))
  BY Whole, StreamSeq DEF KInv, OInv, TInv
<1>2. \A c \in clients : c \in Clients /\ reader[c] # "absent"
  BY DEF KInv, OInv, TInv, MInv, Places, MembersOpen
<1>3. up \in [Clients -> BOOLEAN]
  BY DEF KInv, OInv, TInv, MInv, Places
<1>4. CASE \/ Close \/ Tick \/ Return \/ Consume \/ ReplayAlerts \/ EndReplay \/ UNCHANGED vars
           \/ \E c \in Clients :
                Disconnect(c) \/ ReadFails(c) \/ ReaderEnds(c) \/ HandleUnregister(c)
  <2>1. /\ UNCHANGED <<got, hand, send, dropped>> /\ clients' \subseteq clients
        /\ up' = up \/ \E d \in Clients : up' = [up EXCEPT ![d] = FALSE]
    BY <1>4 DEF Close, Tick, Return, Consume, ReplayAlerts, EndReplay, Disconnect, ReadFails,
                ReaderEnds, HandleUnregister, vars, hubVars, connVars
  <2>2. \A c \in Clients : Stream(c)' = Stream(c)
    BY <2>1 DEF Stream
  <2>3. \A c \in Clients : Party(c)' => Party(c)
    BY <1>3, <2>1 DEF Party, Role
  <2>4. QED
    BY <1>1, <2>1, <2>2, <2>3, KeptInforms
<1>5. ASSUME NEW c \in Clients, Accept(c) PROVE KInv'
  <2>1. /\ UNCHANGED <<got, hand, send, dropped, clients>>
        /\ up' = [up EXCEPT ![c] = TRUE] /\ reader[c] = "absent"
    BY <1>5 DEF Accept, hubVars
  <2>2. \A d \in Clients : Stream(d)' = Stream(d)
    BY <2>1 DEF Stream
  <2>3. \A d \in Clients : Party(d)' => Party(d)
    BY <1>2, <1>3, <2>1 DEF Party, Role
  <2>4. QED
    BY <1>1, <2>1, <2>2, <2>3, KeptInforms
<1>6. ASSUME NEW c \in Clients, HandleRegister(c) PROVE KInv'
  <2>1. /\ UNCHANGED <<got, hand, send, dropped, up>> /\ clients' = clients \cup {c}
        /\ reader[c] = "register"
    BY <1>6 DEF HandleRegister
  <2>2. \A d \in Clients : Stream(d)' = Stream(d)
    BY <2>1 DEF Stream
  <2>3. Stream(c) = <<>>
    BY <2>1 DEF KInv, OInv, Idle, TInv, MInv, Places
  <2>4. \A d \in Clients : Party(d)' => Party(d) \/ d = c
    BY <2>1 DEF Party, Role
  <2>5. QED
    BY <1>1, <2>1, <2>2, <2>3, <2>4, KeptInforms
<1>7. ASSUME NEW c \in Clients, WriterTakes(c) \/ WriteSucceeds(c) \/ WriteFails(c)
      PROVE  KInv'
  <2>1. \A d \in Clients : \/ Stream(d)' = Stream(d)
                           \/ ~ up'[d] /\ Thinned(Stream(d)', Stream(d))
    BY <1>7, WriterStreams DEF KInv, OInv
  <2>2. /\ up' = up \/ up' = [up EXCEPT ![c] = FALSE]
        /\ UNCHANGED <<clients, dropped>>
    BY <1>7 DEF WriterTakes, WriteSucceeds, WriteFails, hubVars
  <2>3. \A d \in Clients : Party(d)' => Party(d) /\ Stream(d)' = Stream(d)
    BY <1>3, <2>1, <2>2 DEF Party, Role
  <2>4. \A d \in Clients : Thinned(Stream(d)', Stream(d))
    BY <1>1, <2>1
  <2>5. QED
    BY <2>2, <2>3, <2>4, KeptInforms
<1>8. QED
  BY <1>4, <1>5, <1>6, <1>7

\* Every step keeps the parties informed.
LEMMA NextKInv ==
  ASSUME KInv, [Next]_vars
  PROVE  KInv'
<1>1. OInv'
  BY NextOInv DEF KInv
<1>2. CASE Run
  BY <1>1, <1>2, SendInforms, AsideInforms DEF Run
<1>3. CASE Consume \/ Close \/ Tick \/ UNCHANGED vars
  BY <1>1, <1>3, AsideInforms
<1>4. ASSUME NEW c \in Clients,
             \/ Accept(c) \/ Disconnect(c) \/ ReadFails(c) \/ ReaderEnds(c)
             \/ WriterTakes(c) \/ WriteSucceeds(c) \/ WriteFails(c)
      PROVE  KInv'
  BY <1>1, <1>4, AsideInforms
<1>5. QED
  BY <1>2, <1>3, <1>4 DEF Next

\* Who was shown an order is told how it goes on, as long as it is connected and
\* has room: of a buyer, a seller and a shipper shouldSend leaves out nothing that
\* a dashboard sees and that concerns them.
THEOREM PartiesStayInformed == Spec => []KeptInformed
<1>1. KInv => KeptInformed
  <2> SUFFICES ASSUME KInv, NEW d \in Dashboards, NEW c \in clients \ Dashboards, up[c]
               PROVE  Informs(Stream(d), c)
    BY DEF KeptInformed, Informs
  <2>1. c \in Clients /\ d \in Clients /\ Party(c)
    BY DEF KInv, OInv, TInv, MInv, Places, Party, Dashboards
  <2>2. QED
    BY <2>1 DEF KInv
<1>2. Init => KInv
  BY InitOInv DEF Init, KInv, Party
<1>3. Init /\ [][Next]_vars => []KInv
  BY <1>2, NextKInv, PTL
<1>4. QED
  BY <1>1, <1>3, PTL DEF Spec

=============================================================================
