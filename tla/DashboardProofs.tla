-------------------------- MODULE DashboardProofs --------------------------
(***************************************************************************)
(* That the dashboard loses no alert and makes none up, and that its bars  *)
(* and Today are what it was told last, for all lengths of its periods for *)
(* which a tick comes as often as Flink's watermark lags and a window      *)
(* begins.                                                                 *)
(*                                                                         *)
(* AlertsKept alone is not inductive: an alert told later than the page's  *)
(* clock would be dropped at once.  What rules that out is a chain: it is  *)
(* told Lag after its time at the earliest, and the page's clock is        *)
(* TickPeriod behind at the most.  Of the bars and of Today it is that     *)
(* what the reducer dropped is older than any that are shown.              *)
(***************************************************************************)
EXTENDS Dashboard, FiniteSetTheorems, TLAPS

\* The records that the reducer and the history pass on.
Shapes ==
  /\ data = [stats |-> data.stats, alerts |-> data.alerts, sessionStart |-> data.sessionStart,
             jakartaDay |-> data.jakartaDay, now |-> data.now]
  /\ told = [stats |-> told.stats, alerts |-> told.alerts]

\* The page's clock is at most one period behind.
Clocks ==
  /\ clock \in Nat /\ data.now \in Nat
  /\ nextTick = data.now + TickPeriod
  /\ data.now <= clock /\ clock <= nextTick

\* The page's clock has reached the time of each alert that was told.
Facing == \A a \in told.alerts : a \in [id : AlertIds, at : Nat] /\ a.at <= data.now

Kept8h == data.alerts = {a \in told.alerts : a.at >= data.now - Horizon}

AInv == Shapes /\ Clocks /\ Facing /\ Kept8h

-----------------------------------------------------------------------------
\* The horizon of alerts is a time.
LEMMA HorizonNat == Horizon \in Nat
  BY DashboardAssumption

\* A page just loaded, before it was told anything.
LEMMA InitAInv == Init => AInv
  BY DashboardAssumption, HorizonNat
  DEF Init, InitialData, NothingTold, AInv, Shapes, Clocks, Facing, Kept8h

\* Whatever leaves clocks and alerts alone keeps the invariant.
LEMMA Aside ==
  ASSUME AInv, UNCHANGED <<clock, nextTick, told>>,
         data'.alerts = data.alerts, data'.now = data.now,
         data' = [stats |-> data'.stats, alerts |-> data'.alerts, sessionStart |-> data'.sessionStart,
                  jakartaDay |-> data'.jakartaDay, now |-> data'.now]
  PROVE  AInv'
  BY DEF AInv, Shapes, Clocks, Facing, Kept8h

\* An alert is due: the page's clock has reached its time.
LEMMA AlertDue ==
  ASSUME AInv, NEW a \in Alerts
  PROVE  a \in [id : AlertIds, at : Nat] /\ a.at <= data.now
<1>1. a \in [id : AlertIds, at : Nat] /\ a.at <= clock - Lag
  BY DashboardAssumption DEF AInv, Clocks, Alerts
<1> QED
  BY <1>1, DashboardAssumption DEF AInv, Clocks

\* Telling the page an alert, again or for the first time.
LEMMA AlertStep ==
  ASSUME AInv, NEW a \in Alerts
  PROVE  UpsertAlert(data.alerts, a, data.now)
           = {x \in {y \in told.alerts : y.id # a.id} \cup {a} : x.at >= data.now - Horizon}
<1>1. a \in [id : AlertIds, at : Nat] /\ a.at <= data.now
  BY AlertDue
<1>2. \A x \in told.alerts : x.at \in Nat /\ x.at <= data.now
  BY DEF AInv, Facing
<1>3. data.alerts = {x \in told.alerts : x.at >= data.now - Horizon} /\ data.now \in Nat
  BY DEF AInv, Kept8h, Clocks
<1> QED
  BY <1>1, <1>2, <1>3, HorizonNat DEF UpsertAlert, RetainRecent

-----------------------------------------------------------------------------
\* A message changes nothing of the alerts but by one of them.
LEMMA PublishInv ==
  ASSUME AInv, NEW m \in Messages, Publish(m)
  PROVE  AInv'
<1>1. CASE m.kind = "alert"
  <2>1. m.body \in Alerts
    BY <1>1 DEF Messages
  <2>2. UNCHANGED <<clock, nextTick>>
    BY DEF Publish
  <2>3. m.body \in [id : AlertIds, at : Nat] /\ m.body.at <= data.now
    BY <2>1, AlertDue
  <2>4. CASE connected
    <3>1. /\ data' = [data EXCEPT !.alerts = UpsertAlert(data.alerts, m.body, data.now)]
          /\ told' = [told EXCEPT !.alerts = {x \in told.alerts : x.id # m.body.id} \cup {m.body}]
      BY <1>1, <2>4 DEF Publish, OnMessage, ReduceMessage, Told
    <3>2. /\ data'.alerts = UpsertAlert(data.alerts, m.body, data.now) /\ data'.now = data.now
          /\ told'.alerts = {x \in told.alerts : x.id # m.body.id} \cup {m.body}
          /\ Shapes'
      BY <3>1 DEF AInv, Shapes
    <3>3. Facing'
      BY <2>3, <3>2 DEF AInv, Facing
    <3>4. Kept8h'
      BY <2>1, <3>2, AlertStep DEF Kept8h
    <3> QED
      BY <2>2, <3>2, <3>3, <3>4 DEF AInv, Clocks
  <2>5. CASE ~ connected
    BY <2>2, <2>5 DEF Publish, AInv, Shapes, Clocks, Facing, Kept8h
  <2> QED
    BY <2>4, <2>5
<1>2. CASE m.kind # "alert"
  <2>1. UNCHANGED <<clock, nextTick>>
    BY <1>2 DEF Publish
  <2>2. CASE connected
    <3>1. /\ data' = IF m.kind = "stat"
                     THEN [data EXCEPT !.stats = RetainStats(UpsertStat(data.stats, m.body))] ELSE data
          /\ told' = IF m.kind = "stat"
                     THEN [told EXCEPT !.stats = UpsertStat(told.stats, m.body)] ELSE told
      BY <1>2, <2>2 DEF Publish, OnMessage, ReduceMessage, Told
    <3>2. /\ Shapes' /\ data'.alerts = data.alerts /\ data'.now = data.now
          /\ told'.alerts = told.alerts
      BY <3>1 DEF AInv, Shapes
    <3> QED
      BY <2>1, <3>2 DEF AInv, Clocks, Facing, Kept8h
  <2>3. CASE ~ connected
    BY <2>1, <2>3 DEF Publish, AInv, Shapes, Clocks, Facing, Kept8h
  <2> QED
    BY <2>2, <2>3
<1> QED
  BY <1>1, <1>2

\* The interval timer: what is too old goes, and nothing else.
LEMMA TickInv ==
  ASSUME AInv, Tick
  PROVE  AInv'
<1>1. data' = [data EXCEPT !.now = clock, !.alerts = RetainRecent(data.alerts, clock)]
  BY DEF Tick, ReduceTick
<1>2. /\ Shapes' /\ data'.now = clock /\ data'.alerts = RetainRecent(data.alerts, clock)
      /\ UNCHANGED <<told, clock>> /\ nextTick' = clock + TickPeriod
  BY <1>1 DEF AInv, Shapes, Tick, serverVars
<1>3. clock \in Nat /\ data.now \in Nat /\ data.now <= clock
  BY DEF AInv, Clocks
<1>4. Clocks' /\ Facing'
  BY <1>2, <1>3, DashboardAssumption DEF AInv, Clocks, Facing
<1>5. \A a \in told.alerts : a.at \in Nat /\ a.at <= clock
  BY <1>3 DEF AInv, Facing
<1>6. Kept8h'
  BY <1>2, <1>3, <1>5, HorizonNat DEF AInv, Kept8h, RetainRecent
<1> QED
  BY <1>2, <1>4, <1>6 DEF AInv

\* A page loaded again starts with a clock that is right and nothing told.
LEMMA ReloadInv ==
  ASSUME AInv, Reload
  PROVE  AInv'
<1>1. /\ data' = InitialData(clock) /\ told' = NothingTold
      /\ nextTick' = clock + TickPeriod /\ UNCHANGED clock
  BY DEF Reload, serverVars
<1> QED
  BY <1>1, DashboardAssumption
  DEF AInv, Shapes, Clocks, Facing, Kept8h, InitialData, NothingTold

\* Clearing forgets what is shown and what was told alike.
LEMMA ClearInv ==
  ASSUME AInv, ConfirmClear
  PROVE  AInv'
<1>1. /\ data' = [data EXCEPT !.stats = {}, !.alerts = {}] /\ told' = NothingTold
      /\ UNCHANGED <<clock, nextTick>>
  BY DEF ConfirmClear, ClearAll, ReduceClear, serverVars
<1> QED
  BY <1>1 DEF AInv, Shapes, Clocks, Facing, Kept8h, NothingTold

\* Time does not pass a tick that is due.
LEMMA AdvanceInv ==
  ASSUME AInv, Advance
  PROVE  AInv'
  BY DashboardAssumption DEF Advance, serverVars, AInv, Shapes, Clocks, Facing, Kept8h

\* Every step keeps the invariant: it is one of the above, or leaves all of this alone.
LEMMA StepAInv ==
  ASSUME AInv, [Next]_vars
  PROVE  AInv'
<1>1. ASSUME NEW m \in Messages, Publish(m) PROVE AInv'
  BY <1>1, PublishInv
<1>2. CASE TokenArrives
  BY <1>2, Aside DEF TokenArrives, serverVars, AInv, Shapes
<1>3. CASE Connect
  BY <1>3, Aside DEF Connect, serverVars, AInv, Shapes
<1>4. CASE Disconnect
  BY <1>4, Aside DEF Disconnect, serverVars, AInv, Shapes
<1>5. ASSUME NEW m \in due, Replay(m) PROVE AInv'
  BY <1>5, Aside DEF Replay, OnMessage, serverVars, AInv, Shapes
<1>6. CASE Tick
  BY <1>6, TickInv
<1>7. CASE Midnight
  <2>1. data' = [data EXCEPT !.jakartaDay = DayOf(clock)] /\ UNCHANGED <<clock, nextTick, told>>
    BY <1>7 DEF Midnight, ReduceDay, serverVars
  <2> QED
    BY <2>1, Aside DEF AInv, Shapes
<1>8. CASE Advance
  BY <1>8, AdvanceInv
<1>9. CASE ConfirmClear
  BY <1>9, ClearInv
<1>10. CASE Reload
  BY <1>10, ReloadInv
<1>11. CASE UNCHANGED vars
  BY <1>11, Aside DEF vars, serverVars, AInv, Shapes
<1> QED
  BY <1>1, <1>2, <1>3, <1>4, <1>5, <1>6, <1>7, <1>8, <1>9, <1>10, <1>11 DEF Next

\* What the page shows is what it was told and is not too old.
LEMMA AInvKeeps == AInv => AlertsKept
<1> SUFFICES ASSUME AInv PROVE AlertsKept
  OBVIOUS
<1>1. \A a \in told.alerts : a.at \in Nat /\ a.at <= data.now
  BY DEF AInv, Facing
<1>2. data.alerts = {a \in told.alerts : a.at >= data.now - Horizon} /\ data.now \in Nat
  BY DEF AInv, Kept8h, Clocks
<1> QED
  BY <1>1, <1>2, HorizonNat DEF AlertsKept, RecentAlerts, RetainRecent

\* No alert that the page was told live is lost or made up, although it is kept
\* or dropped by a clock that is behind (reduceMessage, retainRecentAlerts).
THEOREM AlertsNeverLost == Spec => []AlertsKept
  BY InitAInv, StepAInv, AInvKeeps, PTL DEF Spec

-----------------------------------------------------------------------------
(* Windows and days.                                                       *)

\* Dividing by the length of a period.
LEMMA Quotient ==
  ASSUME NEW a \in Int, NEW w \in Nat \ {0}
  PROVE  a \div w \in Int /\ w * (a \div w) <= a /\ a < w * (a \div w) + w
  OBVIOUS

\* Multiples of a period less than a period apart are in order.
LEMMA Multiples ==
  ASSUME NEW w \in Nat \ {0}, NEW p \in Int, NEW q \in Int, w * p < w * q + w
  PROVE  p <= q
<1> SUFFICES ASSUME p >= q + 1 PROVE FALSE
  OBVIOUS
<1>1. PICK k \in Nat : p = q + 1 + k
  OBVIOUS
<1>2. w * p = w * q + w + w * k
  BY <1>1
<1>3. w * k >= 0
  OBVIOUS
<1>4. QED
  BY <1>2, <1>3

\* Later times are in no earlier period.
LEMMA LaterPeriod ==
  ASSUME NEW w \in Nat \ {0}, NEW a \in Int, NEW b \in Int, a <= b
  PROVE  a \div w <= b \div w
  BY Quotient, Multiples

\* Times at most a period apart are in the same or the next.
LEMMA NextPeriod ==
  ASSUME NEW w \in Nat \ {0}, NEW a \in Int, NEW b \in Int, b <= a + w
  PROVE  b \div w <= (a \div w) + 1
<1>1. PICK p \in Int, q \in Int : p = a \div w /\ q = b \div w
  BY Quotient
<1>2. w * q <= b /\ a < w * p + w
  BY <1>1, Quotient
<1>3. w * (p + 1) = w * p + w
  BY <1>1
<1>4. w * q < w * (p + 1) + w
  BY <1>2, <1>3
<1>5. QED
  BY <1>1, <1>4, Multiples

\* The moment before the end of a period is in it.
LEMMA BeforeEnd ==
  ASSUME NEW w \in Nat \ {0}, NEW d \in Int
  PROVE  (d * w - 1) \div w = d - 1
<1>1. PICK p \in Int, n \in Int : p = (d * w - 1) \div w /\ n = d * w
  BY Quotient
<1>2. w * p <= n - 1 /\ n - 1 < w * p + w
  BY <1>1, Quotient
<1>3. w * (d - 1) = n - w /\ n = w * d
  BY <1>1
<1>4. w * p < w * (d - 1) + w /\ w * (d - 1) < w * p + w
  BY <1>2, <1>3
<1>5. QED
  BY <1>1, <1>4, Multiples

\* The periods of the two clocks.
LEMMA Periods ==
  ASSUME AInv
  PROVE  /\ ActiveWindow(clock) \in Int /\ DayOf(clock) \in Int /\ ActiveWindow(data.now) \in Int
         /\ ActiveWindow(data.now) <= ActiveWindow(clock)
         /\ ActiveWindow(clock) <= ActiveWindow(data.now) + 1
<1>1. /\ clock \in Int /\ data.now \in Int /\ data.now <= clock /\ clock <= data.now + Window
      /\ Window \in Nat \ {0} /\ Day \in Nat \ {0}
  BY DashboardAssumption DEF AInv, Clocks
<1>2. clock \div Window \in Int /\ data.now \div Window \in Int /\ clock \div Day \in Int
  BY <1>1, Quotient
<1>3. data.now \div Window <= clock \div Window /\ clock \div Window <= (data.now \div Window) + 1
  BY <1>1, LaterPeriod, NextPeriod
<1>4. QED
  BY <1>2, <1>3 DEF ActiveWindow, DayOf

-----------------------------------------------------------------------------
(* What the reducer keeps.                                                 *)

\* Windows and days have ends up to those of the present ones.
EndsBy(s, window, day) ==
  \/ s.scope = "window" /\ s.end \in 1 .. window
  \/ s.scope = "daily" /\ \E d \in 1 .. day + 1 : s.end = d * Day

\* What was told is about a window or day that has begun, and it is the latest of it.
StatsTold ==
  /\ IsFiniteSet(told.stats)
  /\ \A s \in told.stats : /\ s.metric \in Metrics /\ s.end \in Int
                           /\ EndsBy(s, ActiveWindow(clock), DayOf(clock))
  /\ \A s, x \in told.stats : SameStat(s, x) => s = x

\* Nothing is made up, and what was dropped is a window that is Kept windows ago
\* or a day that is over.
StatsLeft ==
  /\ data.stats \subseteq told.stats
  /\ \A s \in told.stats \ data.stats :
       \/ s.scope = "window" /\ s.end <= ActiveWindow(clock) - Kept
       \/ s.scope = "daily" /\ s.end <= DayOf(clock) * Day

BInv == AInv /\ StatsTold /\ StatsLeft /\ data.sessionStart \in Int

\* Different ends between two bounds are no more than there is room for.
LEMMA EndsBetween ==
  ASSUME NEW X, NEW a \in Int, NEW b \in Int,
         \A x \in X : x.end \in a + 1 .. b,
         \A x, y \in X : x.end = y.end => x = y,
         NEW k \in Nat \ {0}, IsFiniteSet(X), Cardinality(X) >= k
  PROVE  a <= b - k
<1>1. PICK f : f = [x \in X |-> x.end]
  OBVIOUS
<1>2. f \in Injection(X, a + 1 .. b)
  BY <1>1 DEF Injection, IsInjective
<1>3. /\ IsFiniteSet(a + 1 .. b)
      /\ Cardinality(a + 1 .. b) = IF a + 1 > b THEN 0 ELSE b - (a + 1) + 1
  BY FS_Interval
<1>4. Cardinality(X) <= Cardinality(a + 1 .. b) /\ Cardinality(X) \in Nat
  BY <1>2, <1>3, FS_Injection, FS_CardinalityType
<1>5. QED
  BY <1>3, <1>4

\* What is not among the latest is before k others.
LEMMA NotLatest ==
  ASSUME NEW ss, IsFiniteSet(ss), NEW k \in Nat, NEW s \in ss, s \notin Latest(ss, k)
  PROVE  \E X \in SUBSET ss : /\ IsFiniteSet(X) /\ Cardinality(X) \in Nat /\ Cardinality(X) >= k
                             /\ \A x \in X : x.end > s.end
<1>1. PICK X : X = {x \in ss : x.end > s.end}
  OBVIOUS
<1>2. X \in SUBSET ss /\ \A x \in X : x.end > s.end
  BY <1>1
<1>3. IsFiniteSet(X) /\ Cardinality(X) \in Nat
  BY <1>2, FS_Subset, FS_CardinalityType
<1>4. ~ (Cardinality(X) < k)
  BY <1>1 DEF Latest
<1>5. QED
  BY <1>2, <1>3, <1>4

\* What retainStats keeps it was given, and it keeps the latest.
LEMMA Retains ==
  ASSUME NEW ss
  PROVE  /\ RetainStats(ss) \subseteq ss
         /\ \A s \in ss : s.metric \in Metrics /\ s \notin RetainStats(ss) =>
              /\ s.scope = "window" =>
                   s \notin Latest({x \in ss : x.metric = s.metric /\ x.scope = "window"}, Kept)
              /\ s.scope = "daily" =>
                   s \notin Latest({x \in ss : x.metric = s.metric /\ x.scope = "daily"}, 1)
<1>1. \A S, k : Latest(S, k) \subseteq S
  BY DEF Latest
<1>2. DEFINE W(m) == Latest({x \in ss : x.metric = m /\ x.scope = "window"}, Kept)
             D(m) == Latest({x \in ss : x.metric = m /\ x.scope = "daily"}, 1)
<1>3. RetainStats(ss) = (UNION {W(m) : m \in Metrics}) \cup (UNION {D(m) : m \in Metrics})
  BY DEF RetainStats
<1>4. \A m : W(m) \subseteq ss /\ D(m) \subseteq ss
  BY <1>1
<1>5. \A s \in ss : s.metric \in Metrics /\ s \notin RetainStats(ss) =>
        s \notin W(s.metric) /\ s \notin D(s.metric)
  <2> HIDE DEF W, D
  <2>1. QED
    BY <1>3, Zenon
<1>6. RetainStats(ss) \subseteq ss
  <2> HIDE DEF W, D
  <2>1. QED
    BY <1>3, <1>4, Zenon
<1>7. QED
  BY <1>5, <1>6

\* What retainStats leaves out is old.
LEMMA RetainedLate ==
  ASSUME NEW ss, IsFiniteSet(ss), NEW window \in Int, NEW day \in Int,
         \A s \in ss : s.metric \in Metrics /\ s.end \in Int /\ EndsBy(s, window, day),
         \A s, x \in ss : SameStat(s, x) => s = x
  PROVE  /\ RetainStats(ss) \subseteq ss
         /\ \A s \in ss \ RetainStats(ss) :
              \/ s.scope = "window" /\ s.end <= window - Kept
              \/ s.scope = "daily" /\ s.end <= day * Day
<1> DEFINE Of(m, scope) == {s \in ss : s.metric = m /\ s.scope = scope}
<1>1. RetainStats(ss) \subseteq ss
  BY Retains
<1>2. ASSUME NEW s \in ss \ RetainStats(ss), s.scope = "window"
      PROVE  s.end <= window - Kept
  <2>1. PICK S : S = Of(s.metric, "window")
    OBVIOUS
  <2>2. s \in ss /\ s \notin RetainStats(ss) /\ s.metric \in Metrics /\ s.scope = "window"
    BY <1>2
  <2>3. s \in S /\ s \notin Latest(S, Kept)
    BY <2>1, <2>2, Retains, Zenon
  <2>4. IsFiniteSet(S) /\ Kept \in Nat
    BY <2>1, FS_Subset, DashboardAssumption
  <2>5. PICK X \in SUBSET S : /\ IsFiniteSet(X) /\ Cardinality(X) \in Nat /\ Cardinality(X) >= Kept
                              /\ \A x \in X : x.end > s.end
    BY <2>3, <2>4, NotLatest
  <2>6. \A x \in X : x \in ss /\ x.metric = s.metric /\ x.scope = "window" /\ x.end > s.end
    BY <2>1, <2>5
  <2>7. \A x \in X : x.end \in s.end + 1 .. window
    <3>1. ASSUME NEW x \in X PROVE x.end \in s.end + 1 .. window
      <4>1. x.end \in 1 .. window /\ x.end > s.end /\ s.end \in Int
        BY <2>6 DEF EndsBy
      <4>2. QED
        BY <4>1
    <3>2. QED
      BY <3>1
  <2>8. \A x, y \in X : x.end = y.end => x = y
    BY <2>6 DEF SameStat
  <2>9. s.end \in Int /\ Kept \in Nat \ {0}
    BY <1>2, DashboardAssumption
  <2>10. QED
    BY <2>5, <2>7, <2>8, <2>9, EndsBetween
<1>3. ASSUME NEW s \in ss \ RetainStats(ss), s.scope = "daily"
      PROVE  s.end <= day * Day
  <2>1. PICK S : S = Of(s.metric, "daily")
    OBVIOUS
  <2>2. s \in ss /\ s \notin RetainStats(ss) /\ s.metric \in Metrics /\ s.scope = "daily"
    BY <1>3
  <2>3. s \in S /\ s \notin Latest(S, 1)
    BY <2>1, <2>2, Retains, Zenon
  <2>4. IsFiniteSet(S) /\ 1 \in Nat
    BY <2>1, FS_Subset
  <2>5. PICK X \in SUBSET S : /\ IsFiniteSet(X) /\ Cardinality(X) \in Nat /\ Cardinality(X) >= 1
                              /\ \A x \in X : x.end > s.end
    BY <2>3, <2>4, NotLatest
  <2>6. PICK x \in X : TRUE
    BY <2>5, FS_EmptySet
  <2>7. x \in ss /\ x.scope = "daily" /\ x.end > s.end
    BY <2>1, <2>5, <2>6
  <2>8. PICK d \in 1 .. day + 1 : x.end = d * Day
    BY <2>7 DEF EndsBy
  <2>9. PICK c \in 1 .. day + 1 : s.end = c * Day
    BY <1>3 DEF EndsBy
  <2>10. Day \in Nat \ {0} /\ c \in Int /\ d \in Int /\ day \in Int
    BY DashboardAssumption
  <2>11. c + 1 <= d
    <3>1. Day * (c + 1) = c * Day + Day /\ Day * d = d * Day
      BY <2>10
    <3>2. Day * (c + 1) < Day * d + Day
      BY <2>7, <2>8, <2>9, <2>10, <3>1
    <3>3. QED
      BY <2>10, <3>2, Multiples
  <2>12. c <= day /\ day >= c
    BY <2>8, <2>10, <2>11
  <2>13. PICK e \in Nat : day = c + e
    BY <2>10, <2>12
  <2>14. day * Day = c * Day + e * Day /\ e * Day >= 0
    BY <2>10, <2>13
  <2>15. QED
    BY <2>9, <2>10, <2>14
<1>4. QED
  BY <1>1, <1>2, <1>3 DEF EndsBy

\* A stat told is the latest of its window or day.
LEMMA StatStep ==
  ASSUME BInv, NEW b \in Stats
  PROVE  /\ IsFiniteSet(UpsertStat(told.stats, b))
         /\ \A s \in UpsertStat(told.stats, b) :
              /\ s.metric \in Metrics /\ s.end \in Int
              /\ EndsBy(s, ActiveWindow(clock), DayOf(clock))
         /\ \A s, x \in UpsertStat(told.stats, b) : SameStat(s, x) => s = x
         /\ UpsertStat(data.stats, b) \subseteq UpsertStat(told.stats, b)
<1>1. b.metric \in Metrics /\ b.end \in Int /\ EndsBy(b, ActiveWindow(clock), DayOf(clock))
  <2>1. Day \in Int /\ ActiveWindow(clock) \in Int /\ DayOf(clock) \in Int
    BY Periods, DashboardAssumption DEF BInv
  <2>2. CASE b \in [metric : Metrics, scope : {"window"}, end : 1..ActiveWindow(clock), value : Values]
    BY <2>1, <2>2 DEF EndsBy
  <2>3. CASE b \in [metric : Metrics, scope : {"daily"},
                    end : {d * Day : d \in 1..DayOf(clock) + 1}, value : Values]
    <3>1. b.metric \in Metrics /\ b.scope = "daily" /\ b.end \in {d * Day : d \in 1..DayOf(clock) + 1}
      BY <2>3
    <3>2. PICK d \in 1 .. DayOf(clock) + 1 : b.end = d * Day
      BY <3>1
    <3>3. b.end \in Int
      BY <2>1, <3>2
    <3>4. QED
      BY <3>1, <3>2, <3>3 DEF EndsBy
  <2>4. QED
    BY <2>2, <2>3 DEF Stats
<1>2. IsFiniteSet(UpsertStat(told.stats, b))
  <2>1. IsFiniteSet({x \in told.stats : ~ SameStat(b, x)})
    BY FS_Subset DEF BInv, StatsTold
  <2>2. QED
    BY <2>1, FS_AddElement DEF UpsertStat
<1>3. \A s \in UpsertStat(told.stats, b) : s = b \/ (s \in told.stats /\ ~ SameStat(b, s))
  BY DEF UpsertStat
<1>4. \A s, x \in UpsertStat(told.stats, b) : SameStat(s, x) => s = x
  <2>1. \A s, x : SameStat(s, x) => SameStat(x, s)
    BY DEF SameStat
  <2>2. QED
    BY <1>3, <2>1 DEF BInv, StatsTold
<1>5. UpsertStat(data.stats, b) \subseteq UpsertStat(told.stats, b)
  BY DEF UpsertStat, BInv, StatsLeft
<1>6. QED
  BY <1>1, <1>2, <1>3, <1>4, <1>5 DEF BInv, StatsTold

\* The page is told a stat.
LEMMA StatTold ==
  ASSUME BInv, AInv', NEW b \in Stats, clock' = clock,
         data'.stats = RetainStats(UpsertStat(data.stats, b)),
         told'.stats = UpsertStat(told.stats, b),
         data'.sessionStart = data.sessionStart
  PROVE  BInv'
<1>1. PICK ss, tt : ss = UpsertStat(data.stats, b) /\ tt = UpsertStat(told.stats, b)
  OBVIOUS
<1>2. /\ IsFiniteSet(tt) /\ ss \subseteq tt
      /\ \A s \in tt : /\ s.metric \in Metrics /\ s.end \in Int
                       /\ EndsBy(s, ActiveWindow(clock), DayOf(clock))
      /\ \A s, x \in tt : SameStat(s, x) => s = x
  BY <1>1, StatStep
<1>3. StatsTold'
  BY <1>1, <1>2 DEF StatsTold, EndsBy
<1>4. IsFiniteSet(ss) /\ ActiveWindow(clock) \in Int /\ DayOf(clock) \in Int
  BY <1>2, FS_Subset, Periods DEF BInv
<1>5. /\ RetainStats(ss) \subseteq ss
      /\ \A s \in ss \ RetainStats(ss) :
           \/ s.scope = "window" /\ s.end <= ActiveWindow(clock) - Kept
           \/ s.scope = "daily" /\ s.end <= DayOf(clock) * Day
  BY <1>2, <1>4, RetainedLate
<1>6. ASSUME NEW s \in tt, s \notin RetainStats(ss)
      PROVE  \/ s.scope = "window" /\ s.end <= ActiveWindow(clock) - Kept
             \/ s.scope = "daily" /\ s.end <= DayOf(clock) * Day
  <2>1. CASE s \in ss
    BY <1>5, <1>6, <2>1
  <2>2. CASE s \notin ss
    <3>1. s \in told.stats /\ s \notin data.stats
      BY <1>1, <1>6, <2>2 DEF UpsertStat
    <3>2. QED
      BY <3>1 DEF BInv, StatsLeft
  <2>3. QED
    BY <2>1, <2>2
<1>7. StatsLeft'
  BY <1>1, <1>2, <1>5, <1>6 DEF StatsLeft
<1>8. QED
  BY <1>3, <1>7 DEF BInv

\* Time goes on, and nothing that was dropped comes near.
LEMMA StatsKept ==
  ASSUME BInv, AInv', clock <= clock',
         told'.stats = told.stats, data'.stats = data.stats, data'.sessionStart \in Int
  PROVE  BInv'
<1>1. /\ clock \in Int /\ clock' \in Int /\ Window \in Nat \ {0} /\ Day \in Nat \ {0} /\ Kept \in Int
  BY DashboardAssumption DEF BInv, AInv, Clocks
<1>2. PICK w \in Int, v \in Int, d \in Int, e \in Int :
        /\ w = ActiveWindow(clock) /\ v = ActiveWindow(clock') /\ d = DayOf(clock) /\ e = DayOf(clock')
        /\ w <= v /\ d <= e
  <2>1. /\ clock \div Window <= clock' \div Window /\ clock \div Day <= clock' \div Day
        /\ clock \div Window \in Int /\ clock' \div Window \in Int
        /\ clock \div Day \in Int /\ clock' \div Day \in Int
    BY <1>1, LaterPeriod, Quotient
  <2>2. QED
    BY <2>1 DEF ActiveWindow, DayOf
<1>3. d * Day <= e * Day /\ d * Day \in Int /\ e * Day \in Int
  <2>1. PICK k \in Nat : e = d + k
    <3>1. e - d \in Nat /\ e = d + (e - d)
      BY <1>2
    <3>2. QED
      BY <3>1
  <2>2. e * Day = d * Day + k * Day /\ k * Day >= 0
    BY <1>1, <2>1
  <2>3. QED
    BY <1>1, <2>2
<1>4. \A s \in told.stats : /\ s.metric \in Metrics /\ s.end \in Int /\ EndsBy(s, v, e)
  <2>1. ASSUME NEW s \in told.stats PROVE EndsBy(s, v, e)
    <3>1. EndsBy(s, w, d)
      BY <1>2 DEF BInv, StatsTold
    <3>2. 1 .. w \subseteq 1 .. v /\ 1 .. d + 1 \subseteq 1 .. e + 1
      BY <1>2
    <3>3. QED
      BY <3>1, <3>2 DEF EndsBy
  <2>2. QED
    BY <2>1 DEF BInv, StatsTold
<1>5. StatsTold'
  BY <1>2, <1>4 DEF BInv, StatsTold
<1>6. ASSUME NEW s \in told.stats \ data.stats
      PROVE  \/ s.scope = "window" /\ s.end <= v - Kept
             \/ s.scope = "daily" /\ s.end <= e * Day
  <2>1. s.end \in Int
    BY DEF BInv, StatsTold
  <2>2. \/ s.scope = "window" /\ s.end <= w - Kept
        \/ s.scope = "daily" /\ s.end <= d * Day
    BY <1>2 DEF BInv, StatsLeft
  <2>3. s.end <= w - Kept => s.end <= v - Kept
    BY <1>1, <1>2, <2>1
  <2>4. s.end <= d * Day => s.end <= e * Day
    BY <1>3, <2>1
  <2>5. QED
    BY <2>2, <2>3, <2>4
<1>7. StatsLeft'
  BY <1>2, <1>6 DEF BInv, StatsLeft
<1>8. QED
  BY <1>5, <1>7 DEF BInv

\* A page that was told nothing has nothing to show.
LEMMA NothingLeft ==
  ASSUME AInv', told'.stats = {}, data'.stats = {}, data'.sessionStart \in Int
  PROVE  BInv'
  BY FS_EmptySet DEF BInv, StatsTold, StatsLeft

\* Every step keeps the invariant.
LEMMA StepBInv ==
  ASSUME BInv, [Next]_vars
  PROVE  BInv'
<1>1. AInv'
  BY StepAInv DEF BInv
<1>2. clock \in Int /\ data.sessionStart \in Int /\ AInv
  BY DEF BInv, AInv, Clocks
<1>3. ASSUME NEW m \in Messages, Publish(m) PROVE BInv'
  <2>1. clock' = clock
    BY <1>3 DEF Publish
  <2>2. CASE connected /\ m.kind = "stat"
    <3>1. /\ data' = [data EXCEPT !.stats = RetainStats(UpsertStat(data.stats, m.body))]
          /\ told' = [told EXCEPT !.stats = UpsertStat(told.stats, m.body)]
      BY <1>3, <2>2 DEF Publish, OnMessage, ReduceMessage, Told
    <3>2. /\ data'.stats = RetainStats(UpsertStat(data.stats, m.body))
          /\ told'.stats = UpsertStat(told.stats, m.body)
          /\ data'.sessionStart = data.sessionStart
      BY <1>2, <3>1 DEF AInv, Shapes
    <3>3. m.body \in Stats
      BY <2>2 DEF Messages
    <3>4. QED
      BY <1>1, <2>1, <3>2, <3>3, StatTold
  <2>3. CASE ~ (connected /\ m.kind = "stat")
    <3>1. /\ \/ data' = data
             \/ data' = [data EXCEPT !.alerts = UpsertAlert(data.alerts, m.body, data.now)]
          /\ \/ told' = told
             \/ told' = [told EXCEPT !.alerts = {x \in told.alerts : x.id # m.body.id} \cup {m.body}]
      BY <1>3, <2>3 DEF Publish, OnMessage, ReduceMessage, Told
    <3>2. /\ data'.stats = data.stats /\ told'.stats = told.stats
          /\ data'.sessionStart = data.sessionStart
      BY <1>2, <3>1 DEF AInv, Shapes
    <3>3. QED
      BY <1>1, <1>2, <2>1, <3>2, StatsKept
  <2>4. QED
    BY <2>2, <2>3
<1>4. CASE \/ TokenArrives \/ Connect \/ Disconnect \/ UNCHANGED vars
           \/ \E m \in due : Replay(m)
  <2>1. clock' = clock /\ data' = data /\ told' = told
    BY <1>4 DEF TokenArrives, Connect, Disconnect, Replay, OnMessage, vars
  <2>2. QED
    BY <1>1, <1>2, <2>1, StatsKept
<1>5. CASE Tick \/ Midnight
  <2>1. /\ clock' = clock /\ told' = told
        /\ \/ data' = [data EXCEPT !.now = clock, !.alerts = RetainRecent(data.alerts, clock)]
           \/ data' = [data EXCEPT !.jakartaDay = DayOf(clock)]
    BY <1>5 DEF Tick, Midnight, ReduceTick, ReduceDay
  <2>2. data'.stats = data.stats /\ data'.sessionStart = data.sessionStart
    BY <1>2, <2>1 DEF AInv, Shapes
  <2>3. QED
    BY <1>1, <1>2, <2>1, <2>2, StatsKept
<1>6. CASE Advance
  <2>1. clock' = clock + 1 /\ data' = data /\ told' = told
    BY <1>6 DEF Advance
  <2>2. clock <= clock'
    BY <1>2, <2>1
  <2>3. QED
    BY <1>1, <1>2, <2>1, <2>2, StatsKept
<1>7. CASE ConfirmClear
  <2>1. data' = [data EXCEPT !.stats = {}, !.alerts = {}] /\ told' = NothingTold
    BY <1>7 DEF ConfirmClear, ClearAll, ReduceClear
  <2>2. data'.stats = {} /\ told'.stats = {} /\ data'.sessionStart = data.sessionStart
    BY <1>2, <2>1 DEF AInv, Shapes, NothingTold
  <2>3. QED
    BY <1>1, <1>2, <2>2, NothingLeft
<1>8. CASE Reload
  <2>1. data' = InitialData(clock) /\ told' = NothingTold
    BY <1>8 DEF Reload
  <2>2. data'.stats = {} /\ told'.stats = {} /\ data'.sessionStart = ActiveWindow(clock)
    BY <2>1 DEF InitialData, NothingTold
  <2>3. QED
    BY <1>1, <1>2, <2>2, NothingLeft, Periods
<1>9. QED
  BY <1>3, <1>4, <1>5, <1>6, <1>7, <1>8 DEF Next

\* A page just loaded was told nothing.
LEMMA InitBInv == Init => BInv
<1> SUFFICES ASSUME Init PROVE BInv
  OBVIOUS
<1>1. AInv
  BY InitAInv
<1>2. data.stats = {} /\ told.stats = {} /\ data.sessionStart = ActiveWindow(clock)
  BY DEF Init, InitialData, NothingTold
<1>3. QED
  BY <1>1, <1>2, Periods, FS_EmptySet DEF BInv, StatsTold, StatsLeft

\* A bar is what was told of its window: the windows charted are the latest, but
\* for the oldest when the page's clock is a window behind.
LEMMA BInvBars == BInv => BarsTrue
<1> SUFFICES ASSUME BInv, NEW m \in Metrics, NEW end \in Charted
             PROVE  \/ \E s \in told.stats : /\ s.metric = m /\ s.scope = "window"
                                             /\ s.end = end /\ s.value = Bar(m, end)
                    \/ /\ Bar(m, end) = 0
                       /\ \/ ~ \E s \in told.stats : s.metric = m /\ s.scope = "window" /\ s.end = end
                          \/ /\ ActiveWindow(clock) > ActiveWindow(data.now)
                             /\ end = ActiveWindow(data.now) - (Kept - 1)
  BY DEF BarsTrue
<1>1. PICK found : found = {s \in data.stats : s.metric = m /\ s.scope = "window" /\ s.end = end}
  OBVIOUS
<1>2. CASE found # {}
  <2>1. PICK s : s = CHOOSE x \in found : TRUE
    OBVIOUS
  <2>2. s \in found
    BY <1>2, <2>1
  <2>3. Bar(m, end) = s.value
    BY <1>1, <1>2, <2>1 DEF Bar
  <2>4. s \in told.stats /\ s.metric = m /\ s.scope = "window" /\ s.end = end
    BY <1>1, <2>2 DEF BInv, StatsLeft
  <2>5. QED
    BY <2>3, <2>4
<1>3. CASE found = {}
  <2>1. Bar(m, end) = 0
    BY <1>1, <1>3 DEF Bar
  <2>2. ASSUME NEW s \in told.stats, s.metric = m, s.scope = "window", s.end = end
        PROVE  /\ ActiveWindow(clock) > ActiveWindow(data.now)
               /\ end = ActiveWindow(data.now) - (Kept - 1)
    <3>1. s \notin data.stats
      BY <1>1, <1>3, <2>2
    <3>2. end <= ActiveWindow(clock) - Kept
      BY <2>2, <3>1 DEF BInv, StatsLeft
    <3>3. PICK w \in Int, v \in Int, k \in Nat \ {0}, t \in Int :
            /\ w = ActiveWindow(data.now) /\ v = ActiveWindow(clock) /\ k = Kept
            /\ t = data.sessionStart /\ w <= v /\ v <= w + 1
      BY Periods, DashboardAssumption DEF BInv
    <3>4. end \in Lesser(w, Greater(t, w - (k - 1))) .. w
      BY <3>3 DEF Charted
    <3>5. PICK low \in Int : low = Lesser(w, Greater(t, w - (k - 1))) /\ low >= w - (k - 1)
      BY <3>3 DEF Lesser, Greater
    <3>6. end \in Int /\ end >= low /\ end <= v - k
      BY <3>2, <3>3, <3>4, <3>5
    <3>7. v > w /\ end = w - (k - 1)
      BY <3>3, <3>5, <3>6
    <3>8. QED
      BY <3>3, <3>7
  <2>3. QED
    BY <2>1, <2>2
<1>4. QED
  BY <1>2, <1>3

\* Today is what was told of this day, which is the last one there is.
LEMMA BInvToday == BInv => TodayTrue
<1> SUFFICES ASSUME BInv, DayOf(clock) = data.jakartaDay, NEW m \in Metrics, NEW current,
                    current = {s \in told.stats : /\ s.metric = m /\ s.scope = "daily"
                                                  /\ DayForEnd(s.end) = data.jakartaDay}
             PROVE  IF current = {} THEN Today(m) = 0 ELSE \E s \in current : s.value = Today(m)
  BY DEF TodayTrue
<1>1. PICK found : found = {s \in data.stats : /\ s.metric = m /\ s.scope = "daily"
                                               /\ DayForEnd(s.end) = data.jakartaDay}
  OBVIOUS
<1>2. found \subseteq current
  BY <1>1 DEF BInv, StatsLeft
<1>3. current \subseteq found
  <2>1. ASSUME NEW s \in current PROVE s \in data.stats
    <3>1. s \in told.stats /\ s.scope = "daily" /\ DayForEnd(s.end) = DayOf(clock)
      OBVIOUS
    <3>2. DayOf(clock) \in Int /\ Day \in Nat \ {0}
      BY Periods, DashboardAssumption DEF BInv
    <3>3. PICK d \in 1 .. DayOf(clock) + 1 : s.end = d * Day
      BY <3>1 DEF BInv, StatsTold, EndsBy
    <3>4. d - 1 = DayOf(clock)
      BY <3>1, <3>2, <3>3, BeforeEnd DEF DayForEnd, DayOf
    <3>5. d * Day = DayOf(clock) * Day + Day
      BY <3>2, <3>4
    <3>6. DayOf(clock) * Day \in Int
      BY <3>2
    <3>7. ~ (s.end <= DayOf(clock) * Day)
      BY <3>2, <3>3, <3>5, <3>6
    <3>8. QED
      BY <3>1, <3>7 DEF BInv, StatsLeft
  <2>2. QED
    BY <1>1, <2>1
<1>4. Today(m) = IF found = {} THEN 0 ELSE (CHOOSE s \in found : TRUE).value
  BY <1>1 DEF Today
<1>5. QED
  BY <1>2, <1>3, <1>4

\* Every bar shows the value told last of its window, in whatever order windows
\* fire, also while the page is not connected and while a tick is due (retainStats,
\* metricBuckets); the oldest bar gives way early when the page's clock is behind.
THEOREM BarsAlwaysTrue == Spec => []BarsTrue
  BY InitBInv, StepBInv, BInvBars, PTL DEF Spec

\* Today is the value told last of this very day, across midnights, reloads and
\* firings of past days (retainStats, refreshAndSchedule).
THEOREM TodayAlwaysTrue == Spec => []TodayTrue
  BY InitBInv, StepBInv, BInvToday, PTL DEF Spec

=============================================================================
