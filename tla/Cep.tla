-------------------------------- MODULE Cep --------------------------------
(***************************************************************************)
(* A job of Level 3 (flink level3: CepJob, CepJobSupport): events of one   *)
(* or two topics, deduplicated, put in the order of their timestamps and   *)
(* searched for one of the three shapes its five patterns have:            *)
(*                                                                         *)
(*   absence   a first event that no last event of its key follows in time *)
(*             (SlowDeliveryPattern, AbandonedCartPattern)                 *)
(*   sequence  a first event that a last one of its key follows            *)
(*             (DeliveryCompletedPattern)                                  *)
(*   three     three first events of a key, of distinct actors             *)
(*             (TrendingProductPattern, OrderSurgePattern)                 *)
(*                                                                         *)
(* Event time follows the wall clock; what is older than the watermark is  *)
(* late and dropped.  The job may fail at any time: it then goes on from   *)
(* its last checkpoint, but for the watermark, which starts anew.          *)
(***************************************************************************)
EXTENDS Integers, Sequences, FiniteSets, SequencesExt

CONSTANTS
  Kinds,           \* the shapes looked at
  MayHappen,       \* kind -> the events there can be: [id, type, key, actor],
                   \*   type "first" or "last", ids numbered
  Lateness,        \* how far the watermark is behind the clock (5 s)
  After,           \* absence: how long the last event may take (60 s, 2 minutes)
  Span,            \* the others: how long a match may take, not included
                   \*   (8 hours; 60 s and 30 s)
  LastEvent,       \* bound: no event happens later
  MaxTime,         \* bound: the clock stops there
  MaxDuplicates,   \* bound: shape -> events that are in their topic twice
  MaxCheckpoints,  \* bound: completed checkpoints
  MaxRestarts      \* the restart strategy gives up after three

ASSUME CepAssumption ==
  /\ {Lateness, After, Span} \subseteq Nat \ {0}
  /\ Kinds \subseteq {"absence", "sequence", "three"}
  \* One topic for three.
  /\ \A k \in Kinds : \A e \in MayHappen[k] :
       e.id \in Nat /\ e.type \in {"first", "last"} /\ (k = "three" => e.type = "first")

VARIABLES
  kind,         \* the shape this job looks for
  clock,
  log,          \* type -> its topic: events with their timestamps ts
  duplicates,   \* how many of them are duplicates
  job,          \* the state of the operators, see InitialJob
  saved,        \* the last checkpoint of it
  watermark,    \* 0 before the first of this run
  sourceStarted,\* an event was read in this run
  sink,         \* the alerts in the topic: [id, at, run, epoch]
  failures,     \* history: at which epoch the job failed, each time
  epoch         \* how many checkpoints were completed

worldVars == <<kind, log, duplicates>>
vars == <<clock, worldVars, job, saved, watermark, sourceStarted, sink, failures, epoch>>

Types == {"first", "last"}
Run == Len(failures)

-----------------------------------------------------------------------------
(* The patterns.                                                           *)

\* Mutant: the last instant forgotten.
WithinShort == IF kind = "absence" THEN After ELSE Span

\* within: from there on a match is too old; the last instant of an absence counts.
Within == IF kind = "absence" THEN After + 1 ELSE Span

Earlier(e, f) == e.ts < f.ts \/ (e.ts = f.ts /\ e.id < f.id)

\* External (CEP): the events of a batch are taken one after the other.  This one
\* comes after match p was begun, and in time for it.
Follows(p, e, batch) ==
  /\ e.key = p[1].key
  /\ Last(p) \in batch => Earlier(Last(p), e)
  /\ e.ts - p[1].ts < Within

OfType(es, t) == {e \in es : e.type = t}
Begun(batch) == {<<e>> : e \in OfType(batch, "first")}

\* What the time w leaves of the matches begun, and those of them it completes.
InTime(ps, w) == {p \in ps : w - p[1].ts < Within}

\* notFollowedBy: a last event ends what it follows; what is left is found when
\* its time is over.
Absences(open, batch, w) ==
  LET left == {p \in open \cup Begun(batch) :
                 ~ \E e \in OfType(batch, "last") : Follows(p, e, batch)}
  IN  [open |-> InTime(left, w), found |-> left \ InTime(left, w)]

\* followedBy, under DeliveryAfterCheckoutCondition: the next last event.
Successions(open, batch, w) ==
  LET ps == open \cup Begun(batch)
      after(p) == {e \in OfType(batch, "last") : Follows(p, e, batch) /\ e.ts >= p[1].ts}
      next(p) == {e \in after(p) : ~ \E f \in after(p) : Earlier(f, e)}
  IN  [open |-> InTime({p \in ps : after(p) = {}}, w),
       found |-> UNION {{Append(p, e) : e \in next(p)} : p \in ps}]

\* followedByAny, under DistinctActorCondition: a match goes on with an event and
\* without it.
Threes(open, batch, w) ==
  LET joins(p, e) == Follows(p, e, batch) /\ \A i \in DOMAIN p : p[i].actor # e.actor
      longer(ps) == UNION {{Append(p, e) : e \in {f \in batch : joins(p, f)}} : p \in ps}
      ones == {p \in open : Len(p) = 1} \cup Begun(batch)
      twos == {p \in open : Len(p) = 2} \cup longer(ones)
  IN  [open |-> InTime(ones \cup twos, w), found |-> longer(twos)]

\* The alert of a match: alerts of one cart, order or beginning are the same.
AlertOf(p) ==
  CASE kind = "absence" -> [id |-> <<p[1].key>>, at |-> p[1].ts + After]
    [] kind = "sequence" -> [id |-> <<p[1].key>>, at |-> p[2].ts]
    [] kind = "three" -> [id |-> <<p[1].key, p[1].ts>>, at |-> p[3].ts]

\* What the detector makes of the buffered events up to watermark w.
Detected(w) ==
  LET batch == {e \in job.buffer : e.ts <= w} IN
  CASE kind = "absence" -> Absences(job.open, batch, w)
    [] kind = "sequence" -> Successions(job.open, batch, w)
    [] kind = "three" -> Threes(job.open, batch, w)

-----------------------------------------------------------------------------
InitialJob ==
  [read |-> [t \in Types |-> 0],  \* the offsets in the topics
   seen |-> {},                   \* EventDeduplicator: ids of events
   buffer |-> {},                 \* events ahead of the watermark
   open |-> {},                   \* the matches begun
   emitted |-> {},                \* AlertDeduplicator: ids of alerts
   past |-> 0,                    \* history: the latest watermark of this state
   heard |-> {},                  \* history: the events taken in time
   behind |-> {}]                 \* history: those taken although older than past

Init ==
  /\ kind \in Kinds
  /\ clock = 1
  /\ log = [t \in Types |-> <<>>] /\ duplicates = 0
  /\ job = InitialJob /\ saved = InitialJob
  /\ watermark = 0 /\ sourceStarted = FALSE
  /\ sink = {} /\ failures = <<>> /\ epoch = 0

Happened(t) == {log[t][i] : i \in DOMAIN log[t]}

\* External: an event is stamped and written; nobody is faster than the clock,
\* and ids are given in the order of time.
Happen(e) ==
  /\ clock <= LastEvent
  /\ {f.id : f \in Happened(e.type)} = {f.id : f \in {g \in MayHappen[kind] : g.type = e.type /\ g.id < e.id}}
  /\ e.type = "last" => \E f \in Happened("first") : f.key = e.key /\ f.ts < clock
  /\ log' = [log EXCEPT ![e.type] =
               Append(@, [id |-> e.id, type |-> e.type, key |-> e.key, actor |-> e.actor, ts |-> clock])]
  /\ UNCHANGED <<clock, kind, duplicates, job, saved, watermark, sourceStarted, sink, failures, epoch>>

\* External: the producer's retry writes its latest event twice.
Duplicate(t) ==
  /\ duplicates < MaxDuplicates[kind] /\ duplicates' = duplicates + 1
  /\ log[t] # <<>> /\ log' = [log EXCEPT ![t] = Append(@, Last(@))]
  /\ UNCHANGED <<clock, kind, job, saved, watermark, sourceStarted, sink, failures, epoch>>

\* External: an event that is new goes to the CEP operator, which drops late ones.
Accept(e) ==
  IF e.ts <= watermark THEN [job EXCEPT !.seen = @ \cup {e.id}]
  ELSE [job EXCEPT !.seen = @ \cup {e.id},
                   !.buffer = @ \cup {e},
                   !.heard = IF e.ts > job.past THEN @ \cup {e} ELSE @,
                   !.behind = IF e.ts > job.past THEN @ ELSE @ \cup {e}]

\* EventDeduplicator.
Deduplicated(e) == IF e.id \in job.seen THEN job ELSE Accept(e)

\* The source reads on in one of its topics.
Read(t) ==
  /\ job.read[t] < Len(log[t])
  /\ LET e == log[t][job.read[t] + 1]
     IN  job' = [Deduplicated(e) EXCEPT !.read[t] = @ + 1]
  /\ sourceStarted' = TRUE
  /\ UNCHANGED <<clock, worldVars, saved, watermark, sink, failures, epoch>>

\* Mutant: event time follows the events.
CandidateOfEvents ==
  LET times == {e.ts : e \in job.heard} IN
  IF times = {} THEN 0 ELSE (CHOOSE t \in times : \A u \in times : u <= t) - Lateness

\* LiveClockWatermarkGenerator.
Candidate == clock - Lateness

\* AlertDeduplicator: the first alert of an id, and only once.
NotYetTold(alerts) ==
  {a \in alerts : a.id \notin job.emitted /\ ~ \E b \in alerts : b.id = a.id /\ b.at < a.at}

\* onPeriodicEmit, and all that follows from the watermark.
Watermark ==
  /\ sourceStarted /\ Candidate > watermark
  /\ watermark' = Candidate
  /\ LET d == Detected(Candidate)
         alerts == NotYetTold({AlertOf(p) : p \in d.found})
     IN  /\ job' = [job EXCEPT !.buffer = {e \in @ : e.ts > Candidate},
                               !.open = d.open,
                               !.emitted = @ \cup {a.id : a \in alerts},
                               !.past = IF Candidate > @ THEN Candidate ELSE @]
         /\ sink' = sink \cup {[id |-> a.id, at |-> a.at, run |-> Run, epoch |-> epoch] : a \in alerts}
  /\ UNCHANGED <<clock, worldVars, saved, sourceStarted, failures, epoch>>

\* A checkpoint, before which the sink has written all alerts.
Checkpoint ==
  /\ epoch < MaxCheckpoints /\ epoch' = epoch + 1
  /\ saved' = job
  /\ UNCHANGED <<clock, worldVars, job, watermark, sourceStarted, sink, failures>>

\* Mutant: the alerts told are no part of the checkpoint.
RestoredForgetful == [saved EXCEPT !.emitted = {}]

\* Mutant: they are remembered apart from it.
RestoredRemembering == [saved EXCEPT !.emitted = job.emitted]

Restored == saved

\* The job fails and is restarted.  Alerts on their way to the topic may be lost.
Fail ==
  /\ Run < MaxRestarts /\ failures' = Append(failures, epoch)
  /\ \E lost \in SUBSET {a \in sink : a.run = Run /\ a.epoch = epoch} : sink' = sink \ lost
  /\ job' = Restored
  /\ watermark' = 0 /\ sourceStarted' = FALSE
  /\ UNCHANGED <<clock, worldVars, saved, epoch>>

Advance ==
  /\ clock < MaxTime
  /\ clock' = clock + 1
  /\ UNCHANGED <<worldVars, job, saved, watermark, sourceStarted, sink, failures, epoch>>

Next ==
  \/ \E e \in MayHappen[kind] : Happen(e)
  \/ \E t \in Types : Duplicate(t) \/ Read(t)
  \/ Watermark \/ Checkpoint \/ Fail \/ Advance

\* The job runs while it is up, and time passes; nothing is said of the events,
\* the checkpoints and the failures.
Spec ==
  /\ Init /\ [][Next]_vars
  /\ \A t \in Types : WF_vars(Read(t))
  /\ WF_vars(Watermark) /\ WF_vars(Advance)

-----------------------------------------------------------------------------
(* Properties.                                                             *)

\* The matches that the events es contain, in their order; lasts: the last events known.
Matches(es, lasts) ==
  LET firsts == OfType(es, "first") IN
  CASE kind = "absence" ->
         {<<e>> : e \in {e \in firsts :
            ~ \E f \in lasts : f.key = e.key /\ Earlier(e, f) /\ f.ts - e.ts <= After}}
    [] kind = "sequence" ->
         {p \in {<<e, f>> : e \in firsts, f \in es \cap lasts} :
            p[1].key = p[2].key /\ Earlier(p[1], p[2]) /\ p[2].ts - p[1].ts < Span}
    [] kind = "three" ->
         {p \in {<<e, f, g>> : e, f, g \in firsts} :
            /\ Cardinality({p[i].key : i \in 1..3}) = 1 /\ Cardinality({p[i].actor : i \in 1..3}) = 3
            /\ Earlier(p[1], p[2]) /\ Earlier(p[2], p[3]) /\ p[3].ts - p[1].ts < Span}

\* What is told is a match of the events that were read in time, at its right
\* time, which is as long ago as the watermark lags; only an event that was read
\* again after a restart, older than the checkpoint's watermark, can mislead.
AlertsTrue ==
  [][\A a \in sink' \ sink :
       /\ a.at + Lateness <= clock
       /\ \/ \E p \in Matches(job.heard, OfType(job.heard, "last")) : AlertOf(p) = [id |-> a.id, at |-> a.at]
          \/ \E e \in job.behind : e.key = a.id[1]]_vars

\* An alert is told once, however many matches it has, and again only if the job
\* failed before the next checkpoint.
ToldOnce ==
  \A a, b \in sink :
    /\ a # b /\ a.id = b.id => a.run # b.run
    /\ a.id = b.id /\ a.run < b.run => failures[a.run + 1] = a.epoch

\* An event that is read again after a restart, older than the checkpoint's
\* watermark, ends absences that began after it.
EndedFromBehind(p) ==
  kind = "absence" /\ \E f \in job.behind : f.type = "last" /\ f.key = p[1].key

\* Nothing is missed: a match of events read in time is in the topic as soon as the
\* job's time has reached it (an absence, once its time is over), whatever was
\* read late, came twice, failed or was lost on its way.
NoneMissed ==
  \A p \in Matches(job.heard, Happened("last")) :
    (IF kind = "absence" THEN AlertOf(p).at < job.past ELSE AlertOf(p).at <= job.past) =>
      \/ \E a \in sink : a.id = AlertOf(p).id
      \/ EndedFromBehind(p)

\* Every match of events read in time is told when its time has come, whatever
\* fails, though no other event may ever come: the clock alone goes on.  But a
\* job that was restarted and has read nothing since tells nothing.
EventuallyTold ==
  []<>(sourceStarted =>
         \A p \in Matches(job.heard, Happened("last")) :
           AlertOf(p).at < clock - Lateness =>
             EndedFromBehind(p) \/ \E a \in sink : a.id = AlertOf(p).id)

=============================================================================
