-------------------------------- MODULE Tab --------------------------------
(***************************************************************************)
(* One browser tab of the web application: who is logged in                *)
(* (context/SessionContext, lib/session), which page is shown (App,        *)
(* RequireRole, pages/Landing), the WebSocket of that page                 *)
(* (hooks/useWebSocket) and the feed of the role pages' events             *)
(* (context/EventContext).                                                 *)
(*                                                                         *)
(* React commits a page first and runs its effects later, in one go, and   *)
(* always before it renders again; in StrictMode it runs the effects of a  *)
(* mounted component, cleans them up and runs them once more.  A socket    *)
(* whose close was asked for delivers no message but reports its end some  *)
(* time later, to the handlers of an effect that is long disposed of.      *)
(***************************************************************************)
EXTENDS EventFeed, Integers, Sequences, FiniteSets, SequencesExt

CONSTANTS
  Roles,        \* the roles of Landing: buyer, seller, shipper
  Events,       \* ids of events the server may send to a role page
  Strict,       \* React's StrictMode
  MaxSessions,  \* bound: how many sessions the tab asks the server for
  MaxEffects    \* bound: the user moves on only with fewer effects pending

ASSUME RolesAssumption == {"landing", "dashboard", "none"} \cap Roles = {}

VARIABLES
  session,   \* the session in memory: [id, role]; its token is named like it
  stored,    \* the session in sessionStorage
  page,      \* "landing", a role or "dashboard"
  due,       \* the page was committed, its effects did not run yet
  requests,  \* createSession calls in flight: [n, role, mounted]: the session
             \*   they will get and whether the component that asked is there
  asked,     \* how many were made
  dash,      \* the token of the dashboard page, 0 if it has none
  effects,   \* the runs of useWebSocket's effect that are not over, oldest first:
             \*   [token, mounted, disposed, ws, timer]
  feed,      \* the events, newest first: [id, to], to the session they were sent to
  gone       \* history: the sessions that logged out

vars == <<session, stored, page, due, requests, asked, dash, effects, feed, gone>>

NoSession == [id |-> 0, role |-> "none"]

-----------------------------------------------------------------------------
(* Storage, routes and the effect of useWebSocket.                         *)

\* The session a fresh page finds in the storage.
ReadSession == stored

WriteSession(s) == stored' = s
ClearStoredSession == stored' = NoSession

\* setSession and clearSession of the context: in memory and in the storage.
SetSession(s) == session' = s /\ WriteSession(s)
ClearSession == session' = NoSession /\ ClearStoredSession

\* The server is asked for a session.
CreateSession(role) ==
  /\ asked' = asked + 1
  /\ requests' = requests \cup {[n |-> asked + 1, role |-> role, mounted |-> TRUE]}

\* The dashboard never reuses a token.
RequestFreshDashboardToken == CreateSession("dashboard")

\* RequireRole: where a page's address leads.
RequireRole(p, s) == IF p \in Roles /\ s.role # p THEN "landing" ELSE p

\* Who calls useWebSocket: the role pages and the dashboard's provider.
UsesSocket == page # "landing"

\* resolveWebSocketToken: the dashboard overrides the session's token, even by none.
ResolveToken == IF page = "dashboard" THEN dash ELSE session.id

\* connect: no token, no socket.
Connect(token) == IF token = 0 THEN "none" ELSE "connecting"

Started(token) ==
  [token |-> token, mounted |-> TRUE, disposed |-> FALSE, ws |-> Connect(token), timer |-> FALSE]

\* Mutant: the socket of a disposed effect stays.
DisposeKeepsSocket(e) == [e EXCEPT !.disposed = TRUE, !.timer = FALSE]

\* The effect's cleanup: no timer, and the socket closes.
Dispose(e) ==
  [e EXCEPT !.disposed = TRUE, !.timer = FALSE, !.ws = IF @ = "none" THEN @ ELSE "closing"]

\* Effects of which nothing can be heard any more are forgotten: those left, in order.
Pending(es) ==
  LET left == {i \in DOMAIN es : ~ es[i].disposed \/ es[i].ws # "none" \/ es[i].timer}
      nth(k) == CHOOSE i \in left : Cardinality({j \in left : j <= i}) = k
  IN  [k \in 1..Cardinality(left) |-> es[nth(k)]]

\* Mutant: a new token does not restart the effect.
StaleByMount(e) == ~ e.disposed /\ ~ e.mounted

\* The cleanup is due if the component is gone or its token changed.
Stale(e) == ~ e.disposed /\ (~ e.mounted \/ e.token # ResolveToken)

Running(e) == ~ e.disposed /\ ~ Stale(e)

\* The effects after React ran those of the committed page.
Flushed ==
  LET kept == [i \in DOMAIN effects |-> IF Stale(effects[i]) THEN Dispose(effects[i]) ELSE effects[i]]
      mounting == \A i \in DOMAIN effects : ~ effects[i].mounted \/ effects[i].disposed
      fresh == Started(ResolveToken)
      new == IF ~ UsesSocket \/ \E i \in DOMAIN effects : Running(effects[i]) THEN <<>>
             ELSE IF mounting /\ Strict THEN <<Dispose(fresh), fresh>>
             ELSE <<fresh>>
  IN  Pending(kept \o new)

\* Another component is committed; that of the old page is gone.
Enter(p) ==
  /\ page' = p
  /\ due' = TRUE
  /\ dash' = 0
  /\ effects' = [i \in DOMAIN effects |-> [effects[i] EXCEPT !.mounted = FALSE]]

Left(rs) == {[r EXCEPT !.mounted = FALSE] : r \in rs}

Init ==
  /\ session = NoSession /\ stored = NoSession
  /\ page = "landing" /\ due = FALSE
  /\ requests = {} /\ asked = 0
  /\ dash = 0
  /\ effects = <<>> /\ feed = <<>> /\ gone = {}

-----------------------------------------------------------------------------
(* Logging in and out, moving about.                                       *)

\* handleRoleSelect, with a name given: the form is disabled while it waits.
Submit(role) ==
  /\ page = "landing" /\ ~ due /\ asked < MaxSessions
  /\ ~ \E r \in requests : r.mounted
  /\ CreateSession(role)
  /\ UNCHANGED <<session, stored, page, due, dash, effects, feed, gone>>

\* Its answer, wherever the user went meanwhile.  The session is rendered
\* before the new address: a role page that is not this role's redirects
\* to Landing, and that may be the last word.
LoginAnswers(r) ==
  /\ r \in requests /\ r.role # "dashboard" /\ ~ due
  /\ SetSession([id |-> r.n, role |-> r.role])
  /\ IF page = r.role
     THEN /\ requests' = requests \ {r}
          /\ due' = TRUE
          /\ UNCHANGED <<page, dash, effects>>
     ELSE /\ requests' = Left(requests \ {r})
          /\ \/ Enter(r.role)
             \/ page \in Roles /\ Enter("landing")
  /\ UNCHANGED <<asked, feed, gone>>

\* A request that failed leaves an error line, or a line in the log.
RequestFails(r) ==
  /\ r \in requests
  /\ requests' = requests \ {r}
  /\ UNCHANGED <<session, stored, page, due, asked, dash, effects, feed, gone>>

\* The dashboard's own token; nobody waits for it once its page is gone.
DashAnswers(r) ==
  /\ r \in requests /\ r.role = "dashboard" /\ ~ due
  /\ requests' = requests \ {r}
  /\ IF r.mounted
     THEN dash' = r.n /\ due' = TRUE
     ELSE UNCHANGED <<dash, due>>
  /\ UNCHANGED <<session, stored, page, asked, effects, feed, gone>>

\* Bounds: the dashboard asks for a token once its effects run; sockets close
\* before the user goes on and on.
MayShow(p) == Len(effects) < MaxEffects /\ (p = "dashboard" => asked < MaxSessions)

\* The user follows a link or the browser's history.
GoTo(p) ==
  /\ ~ due /\ MayShow(p)
  /\ LET to == RequireRole(p, session) IN
       /\ to # page
       /\ Enter(to)
  /\ requests' = Left(requests)
  /\ UNCHANGED <<session, stored, asked, feed, gone>>

\* React runs the effects of what it committed.
RunEffects ==
  /\ due
  /\ due' = FALSE
  /\ effects' = Flushed
  /\ IF page = "dashboard" /\ dash = 0
     THEN RequestFreshDashboardToken
     ELSE UNCHANGED <<asked, requests>>
  /\ UNCHANGED <<session, stored, page, dash, feed, gone>>

\* Mutant: the storage is forgotten.
LogoutKeepsStorage ==
  /\ page \in Roles /\ ~ due
  /\ gone' = gone \cup {session.id}
  /\ session' = NoSession
  /\ page' = "landing"
  /\ effects' = Pending([i \in DOMAIN effects |-> Dispose(effects[i])])
  /\ UNCHANGED <<stored, due, requests, asked, dash, feed>>

\* handleLogout of a role page, a click: React runs the effects at once.
Logout ==
  /\ page \in Roles /\ ~ due
  /\ gone' = gone \cup {session.id}
  /\ ClearSession
  /\ page' = "landing"
  /\ effects' = Pending([i \in DOMAIN effects |-> Dispose(effects[i])])
  /\ UNCHANGED <<due, requests, asked, dash, feed>>

\* The browser reloads the page: memory, calls and sockets are gone.
Reload ==
  /\ MayShow(page)
  /\ session' = ReadSession
  /\ page' = RequireRole(page, session')
  /\ due' = TRUE /\ dash' = 0
  /\ requests' = {} /\ effects' = <<>> /\ feed' = <<>>
  /\ UNCHANGED <<stored, asked, gone>>

-----------------------------------------------------------------------------
(* Sockets: what the browser reports to the i-th effect.                   *)

SetEffect(i, e) == effects' = Pending([effects EXCEPT ![i] = e])

onopen(i) ==
  /\ effects[i].ws = "connecting"
  /\ SetEffect(i, [effects[i] EXCEPT !.ws = "open"])
  /\ UNCHANGED <<session, stored, page, due, requests, asked, dash, feed, gone>>

\* Mutant: only after a connection that was open.
ShouldReconnectOpened(e) == ~ e.disposed /\ e.ws = "open"

\* shouldReconnect (a socket is its effect's current one until the cleanup).
ShouldReconnect(e) == ~ e.disposed /\ e.token # 0

\* The socket ends: the server or the network closed it, refused it (onerror
\* closes it) or the close that the cleanup asked for is done.
onclose(i) ==
  /\ effects[i].ws # "none"
  /\ SetEffect(i, [effects[i] EXCEPT !.ws = "none", !.timer = ShouldReconnect(effects[i])])
  /\ UNCHANGED <<session, stored, page, due, requests, asked, dash, feed, gone>>

\* A second later.
Reconnect(i) ==
  /\ effects[i].timer
  /\ SetEffect(i, [effects[i] EXCEPT !.timer = FALSE,
                                     !.ws = IF effects[i].disposed THEN @
                                            ELSE Connect(effects[i].token)])
  /\ UNCHANGED <<session, stored, page, due, requests, asked, dash, feed, gone>>

\* The callback of the role pages.
AddEvent(e) == feed' = AppendUnique(feed, e)

\* A message for the token's session; those of the dashboard's provider are its own.
onmessage(i, id) ==
  /\ effects[i].ws = "open" /\ ~ effects[i].disposed
  /\ effects[i].token # dash
  /\ AddEvent([id |-> id, to |-> effects[i].token])
  /\ UNCHANGED <<session, stored, page, due, requests, asked, dash, effects, gone>>

-----------------------------------------------------------------------------
Next ==
  \/ \E role \in Roles : Submit(role)
  \/ \E r \in requests : LoginAnswers(r) \/ RequestFails(r) \/ DashAnswers(r)
  \/ \E p \in Roles \cup {"landing", "dashboard"} : GoTo(p)
  \/ RunEffects \/ Logout \/ Reload
  \/ \E i \in DOMAIN effects :
       onopen(i) \/ onclose(i) \/ Reconnect(i) \/ \E id \in Events : onmessage(i, id)

\* React runs effects and the browser runs timers in time; nothing is said
\* of the server, the network and the user.
Spec ==
  /\ Init /\ [][Next]_vars
  /\ WF_vars(RunEffects)
  /\ WF_vars(\E i \in DOMAIN effects : Reconnect(i))

-----------------------------------------------------------------------------
(* Properties.                                                             *)

Connection(e) == e.ws \in {"connecting", "open"} \/ e.timer

\* The tab holds one connection, or tries for one, at most; nothing of an
\* effect that was disposed of reconnects, whatever its socket reports late.
OneConnection ==
  /\ \A i \in DOMAIN effects : effects[i].disposed => ~ Connection(effects[i])
  /\ Cardinality({i \in DOMAIN effects : Connection(effects[i])}) <= 1
  /\ \A i \in DOMAIN effects : effects[i].timer => effects[i].ws = "none"

\* A role page is shown to its role, connected with the token of the session
\* on the screen, and a session that logged out never comes back: not by an
\* answer under way, not by the browser's history, not by a reload.
RightIdentity ==
  /\ page \in Roles => session.role = page
  /\ session.id \notin gone /\ stored = session
  /\ ~ due => \A i \in DOMAIN effects :
       Connection(effects[i]) => effects[i].token = ResolveToken

\* What is added to the feed was sent to the session that is logged in, but
\* for the moment between a commit and its effects.
NoStrayEvents ==
  [][feed' \notin {feed, <<>>} /\ ~ due => Head(feed').to = session.id]_vars

\* Once its effects ran, a page that has a token for a socket is connected, is
\* about to be or waits for its next try: no end of a socket, no answer and no
\* change of token leaves it with nothing that will ever try again.
Trying ==
  ~ due /\ UsesSocket /\ ResolveToken # 0 =>
    \E i \in DOMAIN effects : ~ effects[i].disposed /\ Connection(effects[i])

\* A page that wants a connection tries for it again and again.
KeepsTrying ==
  []<> \/ ~ UsesSocket \/ ResolveToken = 0
       \/ \E i \in DOMAIN effects : effects[i].ws \in {"connecting", "open"}

=============================================================================
