----------------------------- MODULE Dashboard -----------------------------
(***************************************************************************)
(* The dashboard in one browser tab: DashboardProvider                     *)
(* (dashboard/DashboardContext.tsx) with its reducer (dashboardState.ts),  *)
(* the views computed from its data (lib/metricBuckets, lib/cepAlerts,     *)
(* lib/jakartaDay) and the button that clears it (DashboardLayout.tsx).    *)
(*                                                                         *)
(* The page has a clock of its own, state.now, which follows the real one  *)
(* in ticks; what is current, recent or today is decided by it.  Messages  *)
(* of Level 2 are about windows, numbered by their ends, or days; an alert *)
(* of Level 3 has an id and a time, and Flink tells it only once its       *)
(* watermark has passed that time; a restarted job may tell an id again    *)
(* with another time.  The way of a message is folded into its             *)
(* publication: it arrives when it arrives.                                *)
(***************************************************************************)
EXTENDS EventFeed, FiniteSets

CONSTANTS
  Metrics,      \* the metrics of Level 2
  Values,       \* the values they can have, above zero
  AlertIds,     \* ids of alerts of Level 3
  FeedEvents,   \* ids of events of Level 1
  TickPeriod,   \* how often state.now is set (5 s in the code)
  Lag,          \* how much later than its time an alert is told at the earliest (5 s)
  Window,       \* the length of a window (5 minutes)
  Kept,         \* how many windows a metric shows (24)
  Day,          \* the length of a day
  Horizon,      \* how long alerts are kept (8 hours)
  MaxTime,      \* bound: the clock stops there
  MaxMessages,  \* bound: how many messages the server publishes
  MaxReloads    \* bound: how often the page is reloaded

ASSUME DashboardAssumption ==
  /\ {TickPeriod, Lag, Window, Kept, Day, Horizon} \subseteq Nat \ {0}
  /\ Lag >= TickPeriod /\ Window >= TickPeriod

VARIABLES
  clock,        \* the real time
  data,         \* the reducer's state: [stats, alerts, sessionStart, jakartaDay, now];
                \*   stats: [metric, scope, end, value], alerts: [id, at]
  events,       \* the feed of Level 1
  nextTick,     \* when the interval timer fires next
  dashToken,    \* a token was received
  connected,    \* the WebSocket is open
  cached,       \* the hub's caches: the stats and the alerts
  due,          \* what the hub still has to replay to this connection
  told,         \* history: the latest live message of each stat and alert since the
                \*   page was loaded or cleared
  published,    \* how many messages the server published
  reloads       \* how often the page was reloaded

serverVars == <<cached, published>>
vars == <<clock, data, events, nextTick, dashToken, connected, due, told, serverVars, reloads>>

-----------------------------------------------------------------------------
(* Windows, days and alerts.                                               *)

\* activeWindowEnd: the window at time t, also dashboardSessionStart.
ActiveWindow(t) == t \div Window + 1

\* jakartaDateKey and jakartaDayForWindowEnd (of an end given as a time).
DayOf(t) == t \div Day
DayForEnd(end) == DayOf(end - 1)

\* Mutant: an alert is dropped at once when it is as old as the clock.
RetainRecentOpen(as, t) == {a \in as : t - Horizon <= a.at /\ a.at < t}

\* retainRecentAlerts: neither too old nor of the future.
RetainRecent(as, t) == {a \in as : t - Horizon <= a.at /\ a.at <= t}

\* upsertCepAlert.
UpsertAlert(as, a, t) == RetainRecent({x \in as : x.id # a.id} \cup {a}, t)

\* The k stats with the latest ends.
Latest(ss, k) == {s \in ss : Cardinality({x \in ss : x.end > s.end}) < k}

\* Mutant: of the days, sorted the other way round, the first is kept.
RetainStatsFirstDay(ss) ==
  (UNION {Latest({s \in ss : s.metric = m /\ s.scope = "window"}, Kept) : m \in Metrics})
  \cup {s \in ss : s.scope = "daily" /\ ~ \E x \in ss :
          x.metric = s.metric /\ x.scope = "daily" /\ x.end < s.end}

\* retainStats: of each metric the last 24 windows and the last day.
RetainStats(ss) ==
  (UNION {Latest({s \in ss : s.metric = m /\ s.scope = "window"}, Kept) : m \in Metrics})
  \cup (UNION {Latest({s \in ss : s.metric = m /\ s.scope = "daily"}, 1) : m \in Metrics})

SameStat(s, x) == s.metric = x.metric /\ s.scope = x.scope /\ s.end = x.end

UpsertStat(ss, s) == {x \in ss : ~ SameStat(s, x)} \cup {s}

-----------------------------------------------------------------------------
(* The reducer.                                                            *)

InitialData(t) ==
  [stats |-> {}, alerts |-> {}, sessionStart |-> ActiveWindow(t), jakartaDay |-> DayOf(t), now |-> t]

\* reduceMessage: a malformed alert and any other message change nothing.
ReduceMessage(d, m) ==
  CASE m.kind = "alert" -> [d EXCEPT !.alerts = UpsertAlert(@, m.body, d.now)]
    [] m.kind = "stat" -> [d EXCEPT !.stats = RetainStats(UpsertStat(@, m.body))]
    [] OTHER -> d

\* dashboardReducer's other actions.
ReduceTick(d, t) == [d EXCEPT !.now = t, !.alerts = RetainRecent(@, t)]
ReduceDay(d, day) == [d EXCEPT !.jakartaDay = day]
ReduceClear(d) == [d EXCEPT !.stats = {}, !.alerts = {}]

\* What the page was told live, whatever it made of it.
Told(t, m) ==
  CASE m.kind = "alert" -> [t EXCEPT !.alerts = {x \in @ : x.id # m.body.id} \cup {m.body}]
    [] m.kind = "stat" -> [t EXCEPT !.stats = UpsertStat(@, m.body)]
    [] OTHER -> t

NothingTold == [stats |-> {}, alerts |-> {}]

-----------------------------------------------------------------------------
(* The server, as far as the page hears of it.                             *)

\* Level 2 fires and fires again for any window and day up to the present ones,
\* Level 3 tells an alert when it is due, perhaps again, and Level 1 goes on.
Stats ==
  [metric : Metrics, scope : {"window"}, end : 1..ActiveWindow(clock), value : Values]
  \cup [metric : Metrics, scope : {"daily"}, end : {d * Day : d \in 1..DayOf(clock) + 1}, value : Values]

Alerts == [id : AlertIds, at : 1..(clock - Lag)]

Messages ==
  [kind : {"stat"}, body : Stats] \cup [kind : {"alert"}, body : Alerts]
  \cup [kind : {"event"}, body : [id : FeedEvents]]

Outdated(m) == m.kind = "alert" /\ m.body.at < clock - Horizon

\* The hub's caches: the latest value per metric and scope, recent alerts by id.
Remember(m) ==
  CASE m.kind = "stat" ->
         {x \in cached : ~ (x.kind = "stat" /\ x.body.metric = m.body.metric /\ x.body.scope = m.body.scope)}
         \cup {m}
    [] m.kind = "alert" /\ ~ Outdated(m) ->
         {x \in cached : ~ (x.kind = "alert" /\ x.body.id = m.body.id)} \cup {m}
    [] OTHER -> cached

-----------------------------------------------------------------------------
Init ==
  /\ clock = 0
  /\ data = InitialData(0) /\ events = <<>>
  /\ nextTick = TickPeriod
  /\ dashToken = FALSE /\ connected = FALSE
  /\ cached = {} /\ due = {} /\ told = NothingTold
  /\ published = 0 /\ reloads = 0

-----------------------------------------------------------------------------
(* Messages.                                                               *)

\* Mutant: replayed messages count like live ones.
OnMessageReplayed(m, replay) ==
  /\ events' = IF m.kind = "event" THEN AppendUnique(events, m.body) ELSE events
  /\ data' = ReduceMessage(data, m)

\* onMessage.
OnMessage(m, replay) ==
  IF replay THEN UNCHANGED <<data, events>>
  ELSE /\ events' = IF m.kind = "event" THEN AppendUnique(events, m.body) ELSE events
       /\ data' = ReduceMessage(data, m)

\* External: the server publishes a message, which a connected page is told.
Publish(m) ==
  /\ published < MaxMessages
  /\ published' = published + 1
  /\ cached' = Remember(m)
  /\ IF connected
     THEN OnMessage(m, FALSE) /\ told' = Told(told, m)
     ELSE UNCHANGED <<data, events, told>>
  /\ UNCHANGED <<clock, nextTick, dashToken, connected, due, reloads>>

\* The page's own token is there (see Tab); no session is needed.
TokenArrives ==
  /\ ~ dashToken /\ dashToken' = TRUE
  /\ UNCHANGED <<clock, data, events, nextTick, connected, due, told, serverVars, reloads>>

\* connectionState.
ConnectionState ==
  IF connected THEN "live" ELSE IF dashToken THEN "reconnecting" ELSE "connecting"

\* The WebSocket opens, also again; the hub replays its caches first.
Connect ==
  /\ ConnectionState = "reconnecting"
  /\ connected' = TRUE
  /\ due' = {m \in cached : ~ Outdated(m)}
  /\ UNCHANGED <<clock, data, events, nextTick, dashToken, told, serverVars, reloads>>

Replay(m) ==
  /\ m \in due
  /\ due' = due \ {m}
  /\ OnMessage(m, TRUE)
  /\ UNCHANGED <<clock, nextTick, dashToken, connected, told, serverVars, reloads>>

Disconnect ==
  /\ connected
  /\ connected' = FALSE /\ due' = {}
  /\ UNCHANGED <<clock, data, events, nextTick, dashToken, told, serverVars, reloads>>

-----------------------------------------------------------------------------
(* Timers.                                                                 *)

Tick ==
  /\ clock = nextTick
  /\ nextTick' = clock + TickPeriod
  /\ data' = ReduceTick(data, clock)
  /\ UNCHANGED <<clock, events, dashToken, connected, due, told, serverVars, reloads>>

\* The timer was set for the next midnight.
MidnightDue == DayOf(clock) > data.jakartaDay

\* refreshAndSchedule.
Midnight ==
  /\ MidnightDue
  /\ data' = ReduceDay(data, DayOf(clock))
  /\ UNCHANGED <<clock, events, nextTick, dashToken, connected, due, told, serverVars, reloads>>

\* Time goes on, but not past a timer (the tab is in the foreground).
Advance ==
  /\ clock < MaxTime /\ clock < nextTick
  /\ ~ MidnightDue
  /\ clock' = clock + 1
  /\ UNCHANGED <<data, events, nextTick, dashToken, connected, due, told, serverVars, reloads>>

-----------------------------------------------------------------------------
(* The user.                                                               *)

ClearAll == events' = <<>> /\ data' = ReduceClear(data)

\* Clear dashboard, confirmed in its dialog.
ConfirmClear ==
  /\ ClearAll
  /\ told' = NothingTold
  /\ UNCHANGED <<clock, nextTick, dashToken, connected, due, serverVars, reloads>>

\* The page is loaded again.
Reload ==
  /\ reloads < MaxReloads /\ reloads' = reloads + 1
  /\ data' = InitialData(clock) /\ events' = <<>>
  /\ nextTick' = clock + TickPeriod
  /\ dashToken' = FALSE /\ connected' = FALSE
  /\ due' = {} /\ told' = NothingTold
  /\ UNCHANGED <<clock, serverVars>>

Next ==
  \/ \E m \in Messages : Publish(m)
  \/ TokenArrives \/ Connect \/ Disconnect
  \/ \E m \in due : Replay(m)
  \/ Tick \/ Midnight \/ Advance
  \/ ConfirmClear \/ Reload

Spec == Init /\ [][Next]_vars

-----------------------------------------------------------------------------
(* The views.                                                              *)

\* recentAlerts.
RecentAlerts == RetainRecent(data.alerts, data.now)

Lesser(a, b) == IF a < b THEN a ELSE b
Greater(a, b) == IF a > b THEN a ELSE b

\* The windows of a metric's chart: those of the session, the last 24 at most.
Charted ==
  LET active == ActiveWindow(data.now)
  IN  Lesser(active, Greater(data.sessionStart, active - (Kept - 1))) .. active

\* metricBuckets: the bar of a window.
Bar(m, end) ==
  LET found == {s \in data.stats : s.metric = m /\ s.scope = "window" /\ s.end = end}
  IN  IF found = {} THEN 0 ELSE (CHOOSE s \in found : TRUE).value

\* DashboardMetricCard's Today, 0 for a dash.
Today(m) ==
  LET found == {s \in data.stats : /\ s.metric = m /\ s.scope = "daily"
                                   /\ DayForEnd(s.end) = data.jakartaDay}
  IN  IF found = {} THEN 0 ELSE (CHOOSE s \in found : TRUE).value

-----------------------------------------------------------------------------
(* Properties.                                                             *)

\* No alert is lost or made up: those shown are the ones told live since the
\* page was loaded or cleared, each as it was told last, and no older than eight
\* hours by the page's clock.
\* (An alert is not taken for one of the future, for Flink's watermark is as
\* late as the page's clock can be.)
AlertsKept == RecentAlerts = {a \in told.alerts : a.at >= data.now - Horizon}

\* Each bar is the value told last of its window, also while the page is not
\* connected and after any order of firings; but the oldest of 24 bars gives way
\* when a window has begun that the page's clock has not reached yet.
BarsTrue ==
  \A m \in Metrics, end \in Charted :
    \/ \E s \in told.stats : s.metric = m /\ s.scope = "window" /\ s.end = end /\ s.value = Bar(m, end)
    \/ /\ Bar(m, end) = 0
       /\ \/ ~ \E s \in told.stats : s.metric = m /\ s.scope = "window" /\ s.end = end
          \/ ActiveWindow(clock) > ActiveWindow(data.now) /\ end = ActiveWindow(data.now) - (Kept - 1)

\* Today is the value told last of this very day, and nothing of another day's.
TodayTrue ==
  DayOf(clock) = data.jakartaDay =>
    \A m \in Metrics :
      LET current == {s \in told.stats : /\ s.metric = m /\ s.scope = "daily"
                                         /\ DayForEnd(s.end) = data.jakartaDay}
      IN  IF current = {} THEN Today(m) = 0 ELSE \E s \in current : s.value = Today(m)

Shows(m) ==
  IF m.kind = "alert" THEN m.body \in RecentAlerts \/ m.body.at < data.now - Horizon
  ELSE \E s \in data.stats : SameStat(s, m.body)

\* A reloaded dashboard recovers the current values and the alerts of the last
\* eight hours that the hub replays to it (README.md:7-8).
RecoversCurrent ==
  [][reloads > 0 /\ connected' => \A m \in due \ due' : Shows(m)']_vars

=============================================================================
