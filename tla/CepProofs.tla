----------------------------- MODULE CepProofs -----------------------------
(***************************************************************************)
(* That a job of Level 3 tells the truth, tells it once and misses nothing,*)
(* for any events in any order, any duplicates, checkpoints and failures,  *)
(* and any periods.                                                        *)
(*                                                                         *)
(* The job in memory and its last checkpoint satisfy the same invariant,   *)
(* JobOK, so that a restart re-establishes it.  What misleads a job after  *)
(* a restart is an event it takes although its state has been further      *)
(* already: it is in behind, and its key is exempt.                        *)
(***************************************************************************)
EXTENDS Cep, TLAPS, FiniteSetTheorems, SequenceTheorems

\* What a topic can hold.
Events ==
  [id : {e.id : e \in MayHappen[kind]}, type : {e.type : e \in MayHappen[kind]},
   key : {e.key : e \in MayHappen[kind]}, actor : {e.actor : e \in MayHappen[kind]}, ts : Nat]

Taken(j) == j.heard \cup j.behind
Misled(j, k) == \E b \in j.behind : b.key = k

\* A match begun by job j: one first event, of three perhaps a second one.
Partial(j, p) ==
  /\ p \in Seq(Events) /\ Len(p) \in {1, 2}
  /\ \A i \in 1..Len(p) :
       /\ p[i] \in Taken(j) /\ p[i].type = "first"
       /\ p[i].key = p[1].key /\ p[i].ts <= j.past
  /\ Len(p) = 2 => /\ kind = "three" /\ p[1].actor # p[2].actor
                   /\ p[2].ts - p[1].ts < Span
                   /\ Earlier(p[1], p[2]) \/ Misled(j, p[1].key)

\* An event that ends match <<e>> of an absence.
Ends(e, f) == f.type = "last" /\ f.key = e.key /\ Earlier(e, f) /\ f.ts - e.ts <= After

\* The buffer holds what the watermark has not reached, the rest was worked
\* through, and an absence still open was not ended by any of it.
JobOK(j) ==
  /\ j = [read |-> j.read, seen |-> j.seen, buffer |-> j.buffer, open |-> j.open,
          emitted |-> j.emitted, past |-> j.past, heard |-> j.heard, behind |-> j.behind]
  /\ j.read \in [Types -> Nat] /\ j.past \in Nat
  /\ Taken(j) \subseteq Events /\ j.buffer \subseteq Taken(j)
  /\ \A e \in j.buffer : e \in j.behind \/ e.ts > j.past
  /\ \A e \in j.heard : e \in j.buffer \/ e.ts <= j.past
  /\ \A p \in j.open : Partial(j, p)
  /\ kind = "absence" => \A p \in j.open, f \in j.heard \ j.buffer :
                           Ends(p[1], f) => Misled(j, p[1].key)

WorldOK ==
  /\ kind \in Kinds /\ clock \in Nat /\ watermark \in Nat
  /\ log \in [Types -> Seq(Events)]

JInv == WorldOK /\ JobOK(job) /\ JobOK(saved)

\* The alerts in the topic: who told them remembers them, unless it failed in
\* the very epoch in which it told them.
SinkOK ==
  /\ epoch \in Nat /\ failures \in Seq(Nat)
  /\ \A r \in 1..Run : failures[r] <= epoch
  /\ \A a \in sink :
       /\ a.run \in 0..Run /\ a.epoch \in 0..epoch
       /\ a.run < Run => a.epoch <= failures[a.run + 1]
       /\ a.run = Run \/ a.epoch < failures[a.run + 1] => a.id \in job.emitted
       /\ (a.run = Run \/ a.epoch < failures[a.run + 1]) /\ a.epoch < epoch => a.id \in saved.emitted

CInv == JInv /\ SinkOK /\ ToldOnce

-----------------------------------------------------------------------------
Batch(w) == {e \in job.buffer : e.ts <= w}

\* An event in a topic or in the buffer has a time and a type, and of three
\* there are first events only.
LEMMA EventFacts ==
  ASSUME kind \in Kinds, NEW e \in Events
  PROVE  /\ e.ts \in Nat /\ e.id \in Nat /\ e.type \in {"first", "last"}
         /\ kind = "three" => e.type = "first"
  BY CepAssumption DEF Events

\* What a match becomes that goes on with an event.
LEMMA AppendTwo ==
  ASSUME NEW S, NEW a \in S, NEW b \in S
  PROVE  /\ Append(<<a>>, b) = <<a, b>> /\ <<a, b>> \in Seq(S) /\ Len(<<a, b>>) = 2
         /\ <<a, b>>[1] = a /\ <<a, b>>[2] = b
<1>1. <<a>> \in Seq(S) /\ Append(<<a>>, b) \in Seq(S) /\ <<a, b>> \in Seq(S)
  OBVIOUS
<1>2. Len(Append(<<a>>, b)) = 2 /\ Append(<<a>>, b)[1] = a /\ Append(<<a>>, b)[2] = b
  OBVIOUS
<1>3. Len(<<a, b>>) = 2 /\ <<a, b>>[1] = a /\ <<a, b>>[2] = b
  OBVIOUS
<1>4. \A i \in 1 .. Len(Append(<<a>>, b)) : Append(<<a>>, b)[i] = <<a, b>>[i]
  BY <1>2, <1>3
<1>5. Append(<<a>>, b) = <<a, b>>
  BY <1>1, <1>2, <1>3, <1>4, SeqEqual
<1>. QED  BY <1>1, <1>3, <1>5

\* Likewise.
LEMMA AppendThree ==
  ASSUME NEW S, NEW a \in S, NEW b \in S, NEW c \in S
  PROVE  Append(<<a, b>>, c) = <<a, b, c>>
<1>1. <<a, b>> \in Seq(S) /\ Append(<<a, b>>, c) \in Seq(S) /\ <<a, b, c>> \in Seq(S)
  OBVIOUS
<1>2. /\ Len(Append(<<a, b>>, c)) = 3 /\ Append(<<a, b>>, c)[1] = a
      /\ Append(<<a, b>>, c)[2] = b /\ Append(<<a, b>>, c)[3] = c
  OBVIOUS
<1>3. Len(<<a, b, c>>) = 3 /\ <<a, b, c>>[1] = a /\ <<a, b, c>>[2] = b /\ <<a, b, c>>[3] = c
  OBVIOUS
<1>4. \A i \in 1 .. Len(Append(<<a, b>>, c)) : Append(<<a, b>>, c)[i] = <<a, b, c>>[i]
  BY <1>2, <1>3
<1>. QED  BY <1>1, <1>2, <1>3, <1>4, SeqEqual

\* What a watermark hands to the detector is new to it, or misleads it.
LEMMA BatchFacts ==
  ASSUME kind \in Kinds, JobOK(job), NEW w \in Nat, NEW e \in Batch(w)
  PROVE  /\ e \in Events /\ e \in Taken(job) /\ e \in job.buffer /\ e.ts \in Nat /\ e.ts <= w
         /\ e.type \in {"first", "last"} /\ (kind = "three" => e.type = "first")
         /\ e \in job.behind \/ e.ts > job.past
<1>1. e \in job.buffer /\ e \in Taken(job) /\ e \in Events /\ e.ts <= w
  BY DEF Batch, JobOK
<1>2. e \in job.behind \/ e.ts > job.past
  BY <1>1 DEF JobOK
<1>. QED  BY <1>1, <1>2, EventFacts

\* A match just begun.
LEMMA BegunFacts ==
  ASSUME kind \in Kinds, JobOK(job), NEW w \in Nat, NEW p \in Begun(Batch(w))
  PROVE  /\ p = <<p[1]>> /\ p[1] \in Batch(w) /\ p[1].type = "first"
         /\ p \in Seq(Events) /\ Len(p) = 1
<1>1. PICK e \in Batch(w) : e.type = "first" /\ p = <<e>>
  BY DEF Begun, OfType
<1>2. e \in Events
  BY BatchFacts
<1>. QED  BY <1>1, <1>2

\* A match begun earlier.
LEMMA OpenFacts ==
  ASSUME kind \in Kinds, JobOK(job), NEW p \in job.open
  PROVE  /\ p \in Seq(Events) /\ Len(p) \in {1, 2} /\ job.past \in Nat
         /\ \A i \in 1..Len(p) :
              /\ p[i] \in Events /\ p[i] \in Taken(job) /\ p[i].type = "first"
              /\ p[i].key = p[1].key /\ p[i].ts \in Nat /\ p[i].ts <= job.past
         /\ Len(p) = 1 => p = <<p[1]>>
         /\ Len(p) = 2 => p = <<p[1], p[2]>>
<1>1. Partial(job, p) /\ job.past \in Nat /\ Taken(job) \subseteq Events
  BY DEF JobOK
<1>2. \A i \in 1..Len(p) : p[i] \in Events /\ p[i].ts \in Nat
  BY <1>1, EventFacts DEF Partial
<1>. QED  BY <1>1, <1>2 DEF Partial

-----------------------------------------------------------------------------
(* Absences: what is left of the matches begun was ended by no event read  *)
(* in time that the watermark has reached.                                 *)

AbsencesLeft(w) ==
  {p \in job.open \cup Begun(Batch(w)) :
     ~ \E e \in OfType(Batch(w), "last") : Follows(p, e, Batch(w))}

\* A wait that no event of the batch ended: one event, and nothing heard ends it.
LEMMA LeftFacts ==
  ASSUME kind \in Kinds, kind = "absence", JobOK(job), NEW w \in Nat, NEW p \in AbsencesLeft(w)
  PROVE  /\ p = <<p[1]>> /\ p \in Seq(Events) /\ Len(p) = 1
         /\ p[1] \in Events /\ p[1] \in Taken(job) /\ p[1].type = "first" /\ p[1].ts \in Nat
         /\ p[1].ts <= job.past \/ p[1].ts <= w
         /\ \A f \in job.heard :
              (f.ts <= w \/ f \notin job.buffer) /\ Ends(p[1], f) => Misled(job, p[1].key)
<1>1. CASE p \in job.open
  <2>1. Partial(job, p)
    BY <1>1 DEF JobOK
  <2>2. Len(p) = 1
    BY <2>1 DEF Partial
  <2>3. /\ p = <<p[1]>> /\ p \in Seq(Events) /\ p[1] \in Events /\ p[1] \in Taken(job)
        /\ p[1].type = "first" /\ p[1].ts \in Nat /\ p[1].ts <= job.past
    BY <1>1, <2>2, OpenFacts
  <2>4. ASSUME NEW f \in job.heard, f.ts <= w \/ f \notin job.buffer, Ends(p[1], f)
        PROVE  Misled(job, p[1].key)
    <3>1. CASE f \in job.buffer
      <4>1. f \in OfType(Batch(w), "last")
        BY <2>4, <3>1 DEF OfType, Batch, Ends
      <4>2. Last(p) = p[1] /\ f.ts \in Nat
        BY <2>2, <2>4, EventFacts DEF Last, JobOK, Taken
      <4>3. Follows(p, f, Batch(w))
        BY <2>3, <2>4, <4>2, CepAssumption DEF Follows, Ends, Within
      <4>. QED  BY <4>1, <4>3 DEF AbsencesLeft
    <3>2. CASE f \notin job.buffer
      BY <1>1, <2>4, <3>2 DEF JobOK
    <3>. QED  BY <3>1, <3>2
  <2>. QED  BY <2>2, <2>3, <2>4
<1>2. CASE p \in Begun(Batch(w))
  <2>1. /\ p = <<p[1]>> /\ p[1] \in Batch(w) /\ p[1].type = "first" /\ p \in Seq(Events) /\ Len(p) = 1
    BY <1>2, BegunFacts
  <2>2. /\ p[1] \in Events /\ p[1] \in Taken(job) /\ p[1].ts \in Nat /\ p[1].ts <= w
        /\ p[1] \in job.behind \/ p[1].ts > job.past
    BY <2>1, BatchFacts
  <2>3. ASSUME NEW f \in job.heard, f.ts <= w \/ f \notin job.buffer, Ends(p[1], f)
        PROVE  Misled(job, p[1].key)
    <3>0. Last(p) = p[1] /\ f.ts \in Nat
      BY <2>1, <2>3, EventFacts DEF Last, JobOK, Taken
    <3>1. CASE f \in job.buffer
      <4>1. f \in OfType(Batch(w), "last")
        BY <2>3, <3>1 DEF OfType, Batch, Ends
      <4>3. Follows(p, f, Batch(w))
        BY <2>2, <2>3, <3>0, CepAssumption DEF Follows, Ends, Within
      <4>. QED  BY <4>1, <4>3 DEF AbsencesLeft
    <3>2. CASE f \notin job.buffer
      <4>1. f.ts <= job.past /\ job.past \in Nat
        BY <2>3, <3>2 DEF JobOK
      <4>2. p[1].ts <= f.ts
        BY <2>2, <2>3, <3>0 DEF Ends, Earlier
      <4>. QED  BY <2>2, <3>0, <4>1, <4>2 DEF Misled
    <3>. QED  BY <3>1, <3>2
  <2>. QED  BY <2>1, <2>2, <2>3
<1>. QED  BY <1>1, <1>2 DEF AbsencesLeft

\* What the detector reports is right, or an event behind the job's state has
\* the key of the alert.
Right(w, p) ==
  LET a == AlertOf(p) IN
  /\ a.at \in Nat /\ a.at <= w
  /\ \/ \E q \in Matches(job.heard, OfType(job.heard, "last")) : AlertOf(q) = a
     \/ Misled(job, a.id[1])

\* Absence: no end of the wait was heard in time, or the job was misled.
LEMMA AbsencesRight ==
  ASSUME kind \in Kinds, kind = "absence", JobOK(job), NEW w \in Nat,
         NEW p \in Absences(job.open, Batch(w), w).found
  PROVE  Right(w, p)
<1>1. p \in AbsencesLeft(w) /\ ~ (w - p[1].ts < Within)
  BY DEF Absences, AbsencesLeft, InTime
<1>2. /\ p = <<p[1]>> /\ p[1] \in Taken(job) /\ p[1].type = "first" /\ p[1].ts \in Nat
      /\ \A f \in job.heard : f.ts <= w /\ Ends(p[1], f) => Misled(job, p[1].key)
  BY <1>1, LeftFacts
<1>3. AlertOf(p) = [id |-> <<p[1].key>>, at |-> p[1].ts + After]
  BY DEF AlertOf
<1>4. p[1].ts + After <= w /\ p[1].ts + After \in Nat
  BY <1>1, <1>2, CepAssumption DEF Within
<1>5. CASE Misled(job, p[1].key)
  BY <1>3, <1>4, <1>5 DEF Right
<1>6. CASE ~ Misled(job, p[1].key)
  <2>1. p[1] \in job.heard
    BY <1>2, <1>6 DEF Taken, Misled
  <2>2. ASSUME NEW f \in OfType(job.heard, "last"),
               f.key = p[1].key, Earlier(p[1], f), f.ts - p[1].ts <= After
        PROVE  FALSE
    <3>1. f \in job.heard /\ Ends(p[1], f)
      BY <2>2 DEF OfType, Ends
    <3>2. f.ts \in Nat
      BY <3>1, EventFacts DEF JobOK, Taken
    <3>. QED  BY <1>2, <1>4, <1>6, <2>2, <3>1, <3>2, CepAssumption
  <2>3. <<p[1]>> \in Matches(job.heard, OfType(job.heard, "last"))
    BY <1>2, <2>1, <2>2 DEF Matches, OfType
  <2>. QED  BY <1>2, <1>3, <1>4, <2>3 DEF Right
<1>. QED  BY <1>5, <1>6

-----------------------------------------------------------------------------
(* Successions.                                                            *)

\* Sequence: the second event followed the first in time.
LEMMA SuccessionsRight ==
  ASSUME kind \in Kinds, kind = "sequence", JobOK(job), NEW w \in Nat,
         NEW p \in Successions(job.open, Batch(w), w).found
  PROVE  Right(w, p)
<1>1. PICK q \in job.open \cup Begun(Batch(w)), e \in OfType(Batch(w), "last") :
        Follows(q, e, Batch(w)) /\ e.ts >= q[1].ts /\ p = Append(q, e)
  BY DEF Successions
<1>2. Len(q) = 1 /\ q = <<q[1]>> /\ q[1] \in Events /\ q[1] \in Taken(job) /\ q[1].type = "first"
  <2>1. CASE q \in job.open
    <3>1. Partial(job, q)
      BY <2>1 DEF JobOK
    <3>2. Len(q) = 1
      BY <3>1 DEF Partial
    <3>. QED  BY <2>1, <3>2, OpenFacts
  <2>2. CASE q \in Begun(Batch(w))
    BY <2>2, BegunFacts, BatchFacts
  <2>. QED  BY <1>1, <2>1, <2>2
<1>3. e \in Events /\ e \in Taken(job) /\ e.ts \in Nat /\ e.ts <= w /\ e.type = "last"
  BY <1>1, BatchFacts DEF OfType
<1>4. p = <<q[1], e>>
  <2>1. Append(<<q[1]>>, e) = <<q[1], e>>
    BY <1>2, <1>3, AppendTwo
  <2>. QED  BY <1>1, <1>2, <2>1
<1>5. p[1] = q[1] /\ p[2] = e
  BY <1>4
<1>6. e.key = q[1].key /\ e.ts - q[1].ts < Span /\ q[1].ts \in Nat
  BY <1>1, <1>2, EventFacts DEF Follows, Within
<1>7. AlertOf(p) = [id |-> <<q[1].key>>, at |-> e.ts]
  BY <1>5 DEF AlertOf
<1>8. CASE q[1] \in job.behind \/ e \in job.behind
  BY <1>3, <1>6, <1>7, <1>8 DEF Right, Misled
<1>9. CASE q[1] \notin job.behind /\ e \notin job.behind
  <2>1. q[1] \in OfType(job.heard, "first") /\ e \in job.heard \cap OfType(job.heard, "last")
    BY <1>2, <1>3, <1>9 DEF OfType, Taken
  <2>2. Earlier(q[1], e)
    <3>1. CASE q \in job.open
      <4>1. q[1].ts <= job.past /\ job.past < e.ts
        BY <1>1, <1>2, <1>9, <3>1, OpenFacts, BatchFacts DEF OfType
      <4>. QED  BY <1>3, <1>6, <4>1 DEF Earlier, JobOK
    <3>2. CASE q \in Begun(Batch(w))
      <4>1. Last(q) = q[1] /\ q[1] \in Batch(w)
        BY <1>2, <3>2, BegunFacts DEF Last
      <4>. QED  BY <1>1, <4>1 DEF Follows
    <3>. QED  BY <1>1, <3>1, <3>2
  <2>3. p \in Matches(job.heard, OfType(job.heard, "last"))
    BY <1>4, <1>5, <1>6, <2>1, <2>2 DEF Matches
  <2>. QED  BY <1>3, <1>7, <2>3 DEF Right
<1>. QED  BY <1>8, <1>9

-----------------------------------------------------------------------------
(* Threes.                                                                 *)

Joins(p, e, w) == Follows(p, e, Batch(w)) /\ \A i \in DOMAIN p : p[i].actor # e.actor
Ones(w) == {p \in job.open : Len(p) = 1} \cup Begun(Batch(w))
Longer(ps, w) == UNION {{Append(p, e) : e \in {f \in Batch(w) : Joins(p, f, w)}} : p \in ps}
Twos(w) == {p \in job.open : Len(p) = 2} \cup Longer(Ones(w), w)

\* The detector's two results for threes.
LEMMA ThreesAre ==
  ASSUME NEW w \in Nat
  PROVE  /\ Threes(job.open, Batch(w), w).open = InTime(Ones(w) \cup Twos(w), w)
         /\ Threes(job.open, Batch(w), w).found = Longer(Twos(w), w)
  BY DEF Threes, Joins, Ones, Longer, Twos

\* The first event of a match of one.
LEMMA OnesFacts ==
  ASSUME kind \in Kinds, JobOK(job), NEW w \in Nat, NEW p \in Ones(w)
  PROVE  /\ p = <<p[1]>> /\ Len(p) = 1 /\ p \in Seq(Events)
         /\ p[1] \in Events /\ p[1] \in Taken(job) /\ p[1].type = "first" /\ p[1].ts \in Nat
         /\ p[1].ts <= job.past \/ (p[1] \in Batch(w) /\ p[1].ts <= w)
<1>1. CASE p \in job.open /\ Len(p) = 1
  BY <1>1, OpenFacts
<1>2. CASE p \in Begun(Batch(w))
  BY <1>2, BegunFacts, BatchFacts
<1>. QED  BY <1>1, <1>2 DEF Ones

\* Both events of a match of two.
LEMMA TwosFacts ==
  ASSUME kind \in Kinds, kind = "three", JobOK(job), NEW w \in Nat, NEW p \in Twos(w)
  PROVE  /\ p = <<p[1], p[2]>> /\ Len(p) = 2 /\ p \in Seq(Events)
         /\ \A i \in {1, 2} : p[i] \in Events /\ p[i] \in Taken(job) /\ p[i].type = "first"
                              /\ p[i].ts \in Nat /\ (p[i].ts <= job.past \/ p[i].ts <= w)
         /\ p[2].key = p[1].key /\ p[1].actor # p[2].actor /\ p[2].ts - p[1].ts < Span
         /\ Earlier(p[1], p[2]) \/ Misled(job, p[1].key)
         /\ p[2].ts <= job.past \/ p[2] \in Batch(w)
<1>1. CASE p \in job.open /\ Len(p) = 2
  <2>1. Partial(job, p)
    BY <1>1 DEF JobOK
  <2>2. /\ p[2].key = p[1].key /\ p[1].actor # p[2].actor /\ p[2].ts - p[1].ts < Span
        /\ Earlier(p[1], p[2]) \/ Misled(job, p[1].key)
    BY <1>1, <2>1 DEF Partial
  <2>. QED  BY <1>1, <2>2, OpenFacts
<1>2. CASE p \in Longer(Ones(w), w)
  <2>1. PICK q \in Ones(w), e \in Batch(w) : p = Append(q, e) /\ Joins(q, e, w)
    BY <1>2 DEF Longer
  <2>2. /\ q = <<q[1]>> /\ Len(q) = 1 /\ q[1] \in Events /\ q[1] \in Taken(job)
        /\ q[1].type = "first" /\ q[1].ts \in Nat /\ q \in Seq(Events)
        /\ q[1].ts <= job.past \/ (q[1] \in Batch(w) /\ q[1].ts <= w)
    BY <2>1, OnesFacts
  <2>3. /\ e \in Events /\ e \in Taken(job) /\ e.ts \in Nat /\ e.ts <= w /\ e.type = "first"
        /\ e \in job.behind \/ e.ts > job.past
    BY <2>1, BatchFacts
  <2>4. p = <<q[1], e>> /\ p[1] = q[1] /\ p[2] = e /\ Len(p) = 2 /\ p \in Seq(Events)
    <3>1. Append(<<q[1]>>, e) = <<q[1], e>>
      BY <2>2, <2>3, AppendTwo
    <3>2. p = <<q[1], e>>
      BY <2>1, <2>2, <3>1
    <3>. QED  BY <2>2, <2>3, <3>2, AppendTwo
  <2>5. e.key = q[1].key /\ q[1].actor # e.actor /\ e.ts - q[1].ts < Span
    BY <2>1, <2>2 DEF Joins, Follows, Within
  <2>6. Earlier(q[1], e) \/ Misled(job, q[1].key)
    <3>1. CASE q[1] \in Batch(w)
      <4>1. Last(q) = q[1]
        BY <2>2 DEF Last
      <4>. QED  BY <2>1, <2>2, <2>3, <3>1, <4>1 DEF Joins, Follows
    <3>2. CASE q[1].ts <= job.past
      BY <2>2, <2>3, <2>5, <3>2 DEF Misled, JobOK, Earlier
    <3>. QED  BY <2>2, <3>1, <3>2
  <2>. QED  BY <2>1, <2>2, <2>3, <2>4, <2>5, <2>6
<1>. QED  BY <1>1, <1>2 DEF Twos

\* Three: the three events of three actors fell within the window.
LEMMA ThreesRight ==
  ASSUME kind \in Kinds, kind = "three", JobOK(job), NEW w \in Nat,
         NEW p \in Threes(job.open, Batch(w), w).found
  PROVE  Right(w, p)
<1>1. PICK q \in Twos(w), g \in Batch(w) : p = Append(q, g) /\ Joins(q, g, w)
  <2>1. p \in Longer(Twos(w), w)
    BY ThreesAre
  <2>. QED  BY <2>1 DEF Longer
<1>2. PICK e, f : e = q[1] /\ f = q[2]
  OBVIOUS
<1>3. /\ q = <<e, f>> /\ Len(q) = 2
      /\ e \in Taken(job) /\ e.type = "first" /\ e.ts \in Nat
      /\ f \in Taken(job) /\ f.type = "first" /\ f.ts \in Nat
      /\ f.key = e.key /\ e.actor # f.actor
      /\ Earlier(e, f) \/ Misled(job, e.key)
      /\ f.ts <= job.past \/ f \in Batch(w)
  BY <1>1, <1>2, TwosFacts
<1>4. /\ g \in Taken(job) /\ g.ts \in Nat /\ g.ts <= w /\ g.type = "first"
      /\ g \in job.behind \/ g.ts > job.past
  BY <1>1, BatchFacts
<1>5. p = <<e, f, g>> /\ p[1] = e /\ p[2] = f /\ p[3] = g
  <2>1. Append(<<e, f>>, g) = <<e, f, g>>
    BY <1>3, <1>4, AppendThree
  <2>. QED  BY <1>1, <1>3, <2>1
<1>6. g.key = e.key /\ g.ts - e.ts < Span /\ e.actor # g.actor /\ f.actor # g.actor
  BY <1>1, <1>2, <1>3 DEF Joins, Follows, Within
<1>7. Earlier(f, g) \/ Misled(job, e.key)
  <2>1. CASE f \in Batch(w)
    <3>1. Last(q) = f
      BY <1>2, <1>3 DEF Last
    <3>. QED  BY <1>1, <1>3, <1>4, <2>1, <3>1 DEF Joins, Follows
  <2>2. CASE f.ts <= job.past
    BY <1>3, <1>4, <1>6, <2>2 DEF Misled, JobOK, Earlier
  <2>. QED  BY <1>3, <2>1, <2>2
<1>8. AlertOf(p) = [id |-> <<e.key, e.ts>>, at |-> g.ts]
  BY <1>5 DEF AlertOf
<1>9. CASE Misled(job, e.key)
  BY <1>4, <1>8, <1>9 DEF Right
<1>10. CASE ~ Misled(job, e.key)
  <2>1. {e, f, g} \subseteq OfType(job.heard, "first")
    BY <1>3, <1>4, <1>6, <1>10 DEF OfType, Taken, Misled
  <2>2. Cardinality({p[i].key : i \in 1..3}) = 1
    <3>1. {p[i].key : i \in 1..3} = {e.key}
      BY <1>3, <1>5, <1>6
    <3>. QED  BY <3>1, FS_Singleton
  <2>3. Cardinality({p[i].actor : i \in 1..3}) = 3
    <3>1. {p[i].actor : i \in 1..3} = {e.actor} \cup {f.actor} \cup {g.actor}
      BY <1>5
    <3>2. IsFiniteSet({e.actor}) /\ Cardinality({e.actor}) = 1
      BY FS_Singleton
    <3>3. IsFiniteSet({e.actor} \cup {f.actor}) /\ Cardinality({e.actor} \cup {f.actor}) = 2
      <4>1. f.actor \notin {e.actor}
        BY <1>3
      <4>. QED  BY <3>2, <4>1, FS_AddElement
    <3>4. g.actor \notin {e.actor} \cup {f.actor}
      BY <1>6
    <3>5. Cardinality(({e.actor} \cup {f.actor}) \cup {g.actor})
            = Cardinality({e.actor} \cup {f.actor}) + 1
      BY <3>3, <3>4, FS_AddElement
    <3>. QED  BY <3>1, <3>3, <3>5
  <2>4. Earlier(p[1], p[2]) /\ Earlier(p[2], p[3]) /\ p[3].ts - p[1].ts < Span
    BY <1>3, <1>5, <1>6, <1>7, <1>10
  <2>5. p \in {<<a, b, c>> : a, b, c \in OfType(job.heard, "first")}
    BY <1>5, <2>1
  <2>6. p \in Matches(job.heard, OfType(job.heard, "last"))
    BY <2>2, <2>3, <2>4, <2>5 DEF Matches
  <2>. QED  BY <1>4, <1>8, <2>6 DEF Right
<1>. QED  BY <1>9, <1>10

\* Whatever the detector finds, it is right.
LEMMA FoundRight ==
  ASSUME kind \in Kinds, JobOK(job), NEW w \in Nat, NEW p \in Detected(w).found
  PROVE  Right(w, p)
<1>1. kind \in {"absence", "sequence", "three"}
  BY CepAssumption
<1>2. CASE kind = "absence"
  BY <1>2, AbsencesRight DEF Detected, Batch
<1>3. CASE kind = "sequence"
  BY <1>3, SuccessionsRight DEF Detected, Batch
<1>4. CASE kind = "three"
  BY <1>4, ThreesRight DEF Detected, Batch
<1>. QED  BY <1>1, <1>2, <1>3, <1>4

-----------------------------------------------------------------------------
(* A watermark moves the job from one good state to the next.              *)

Past(w) == IF w > job.past THEN w ELSE job.past

\* Whatever match stays open is well begun.
LEMMA OpenPartial ==
  ASSUME kind \in Kinds, JobOK(job), NEW w \in Nat, NEW p \in Detected(w).open,
         NEW j, j.past = Past(w), j.heard = job.heard, j.behind = job.behind
  PROVE  Partial(j, p)
<1>0. job.past \in Nat /\ j.past \in Nat /\ j.past >= job.past /\ j.past >= w
  BY DEF JobOK, Past
<1>1. kind \in {"absence", "sequence", "three"}
  BY CepAssumption
<1>2. ASSUME p = <<p[1]>>, p \in Seq(Events), Len(p) = 1, p[1] \in Taken(job), p[1].type = "first",
             p[1].ts <= job.past \/ p[1].ts <= w, p[1].ts \in Nat
      PROVE  Partial(j, p)
  BY <1>0, <1>2 DEF Partial, Taken
<1>3. CASE kind = "absence"
  <2>1. p \in AbsencesLeft(w)
    BY <1>3 DEF Detected, Absences, AbsencesLeft, InTime, Batch
  <2>. QED  BY <1>2, <1>3, <2>1, LeftFacts
<1>4. CASE kind = "sequence"
  <2>1. p \in job.open \cup Begun(Batch(w))
    BY <1>4 DEF Detected, Successions, InTime, Batch
  <2>2. CASE p \in job.open
    <3>1. Partial(job, p)
      BY <2>2 DEF JobOK
    <3>2. Len(p) = 1
      BY <1>4, <3>1 DEF Partial
    <3>. QED  BY <1>2, <2>2, <3>2, OpenFacts
  <2>3. CASE p \in Begun(Batch(w))
    BY <1>2, <2>3, BegunFacts, BatchFacts
  <2>. QED  BY <2>1, <2>2, <2>3
<1>5. CASE kind = "three"
  <2>1. p \in Ones(w) \cup Twos(w)
    <3>1. p \in Threes(job.open, Batch(w), w).open
      BY <1>5 DEF Detected, Batch
    <3>. QED  BY <3>1, ThreesAre DEF InTime
  <2>2. CASE p \in Ones(w)
    BY <1>2, <2>2, OnesFacts
  <2>3. CASE p \in Twos(w)
    <3>1. /\ p = <<p[1], p[2]>> /\ Len(p) = 2 /\ p \in Seq(Events)
          /\ \A i \in {1, 2} : p[i] \in Taken(job) /\ p[i].type = "first"
                               /\ p[i].ts \in Nat /\ (p[i].ts <= job.past \/ p[i].ts <= w)
          /\ p[2].key = p[1].key /\ p[1].actor # p[2].actor /\ p[2].ts - p[1].ts < Span
          /\ Earlier(p[1], p[2]) \/ Misled(job, p[1].key)
      BY <1>5, <2>3, TwosFacts
    <3>2. \A i \in {1, 2} : p[i] \in Taken(j) /\ p[i].ts <= j.past
      BY <1>0, <3>1 DEF Taken
    <3>3. 1..Len(p) = {1, 2}
      BY <3>1
    <3>4. Earlier(p[1], p[2]) \/ Misled(j, p[1].key)
      BY <3>1 DEF Misled
    <3>. QED  BY <1>5, <3>1, <3>2, <3>3, <3>4 DEF Partial
  <2>. QED  BY <2>1, <2>2, <2>3
<1>. QED  BY <1>1, <1>3, <1>4, <1>5

\* The state of the job after watermark w, apart from the alerts it remembers.
AfterWatermark(j, w) ==
  /\ j = [job EXCEPT !.buffer = {e \in @ : e.ts > w}, !.open = Detected(w).open,
                     !.emitted = j.emitted, !.past = Past(w)]

\* The watermark only rises, and what it closes is told as it should be.
LEMMA WatermarkOK ==
  ASSUME kind \in Kinds, JobOK(job), NEW w \in Nat, NEW j, AfterWatermark(j, w)
  PROVE  JobOK(j)
<1>1. job = [read |-> job.read, seen |-> job.seen, buffer |-> job.buffer, open |-> job.open,
             emitted |-> job.emitted, past |-> job.past, heard |-> job.heard, behind |-> job.behind]
  BY DEF JobOK
<1>2. /\ j = [read |-> job.read, seen |-> job.seen, buffer |-> {e \in job.buffer : e.ts > w},
              open |-> Detected(w).open, emitted |-> j.emitted, past |-> Past(w),
              heard |-> job.heard, behind |-> job.behind]
  BY <1>1 DEF AfterWatermark
<1>3. /\ j.read = job.read /\ j.seen = job.seen /\ j.buffer = {e \in job.buffer : e.ts > w}
      /\ j.open = Detected(w).open /\ j.past = Past(w) /\ j.heard = job.heard /\ j.behind = job.behind
  BY <1>2
<1>4. job.past \in Nat /\ j.past \in Nat /\ j.past >= job.past /\ j.past >= w /\ j.past \in {w, job.past}
  BY <1>3 DEF JobOK, Past
<1>5. j.read \in [Types -> Nat] /\ Taken(j) \subseteq Events /\ j.buffer \subseteq Taken(j)
  BY <1>3 DEF JobOK, Taken
<1>6. ASSUME NEW e \in j.buffer
      PROVE  e \in j.behind \/ e.ts > j.past
  BY <1>3, <1>4, EventFacts DEF JobOK, Taken
<1>7. ASSUME NEW e \in j.heard
      PROVE  e \in j.buffer \/ e.ts <= j.past
  <2>1. e \in Events /\ e.ts \in Nat
    BY <1>3, EventFacts DEF JobOK, Taken
  <2>2. e \in job.buffer \/ e.ts <= job.past
    BY <1>3 DEF JobOK
  <2>. QED  BY <1>3, <1>4, <2>1, <2>2
<1>8. ASSUME NEW p \in j.open
      PROVE  Partial(j, p)
  BY <1>3, OpenPartial
<1>9. ASSUME kind = "absence", NEW p \in j.open, NEW f \in j.heard \ j.buffer, Ends(p[1], f)
      PROVE  Misled(j, p[1].key)
  <2>1. p \in AbsencesLeft(w)
    BY <1>3, <1>9 DEF Detected, Absences, AbsencesLeft, InTime, Batch
  <2>2. f \in job.heard /\ (f.ts <= w \/ f \notin job.buffer)
    BY <1>3, EventFacts DEF JobOK, Taken
  <2>3. Misled(job, p[1].key)
    BY <1>9, <2>1, <2>2, LeftFacts
  <2>. QED  BY <1>3, <2>3 DEF Misled
<1>10. j = [read |-> j.read, seen |-> j.seen, buffer |-> j.buffer, open |-> j.open,
            emitted |-> j.emitted, past |-> j.past, heard |-> j.heard, behind |-> j.behind]
  BY <1>2
<1>. QED  BY <1>4, <1>5, <1>6, <1>7, <1>8, <1>9, <1>10 DEF JobOK

-----------------------------------------------------------------------------
(* The steps.                                                              *)

\* A good state of a job is good whatever else changes.
LEMMA JobStays ==
  ASSUME kind' = kind, NEW j, JobOK(j)
  PROVE  JobOK(j)'
  BY DEF JobOK, Partial, Events, Ends, Taken, Misled, Earlier

\* Reading an event keeps the state of the job good.
LEMMA ReadOK ==
  ASSUME kind \in Kinds, JobOK(job), NEW t \in Types, NEW e \in Events, NEW j,
         j = [Deduplicated(e) EXCEPT !.read[t] = @ + 1]
  PROVE  JobOK(j) /\ j.emitted = job.emitted
<1>1. job = [read |-> job.read, seen |-> job.seen, buffer |-> job.buffer, open |-> job.open,
             emitted |-> job.emitted, past |-> job.past, heard |-> job.heard, behind |-> job.behind]
  BY DEF JobOK
<1>2. job.read \in [Types -> Nat] /\ [job.read EXCEPT ![t] = @ + 1] \in [Types -> Nat]
  BY DEF JobOK
<1>3. CASE Deduplicated(e) \in {job, [job EXCEPT !.seen = @ \cup {e.id}]}
  <2>1. j = [read |-> [job.read EXCEPT ![t] = @ + 1], seen |-> j.seen, buffer |-> job.buffer,
             open |-> job.open, emitted |-> job.emitted, past |-> job.past,
             heard |-> job.heard, behind |-> job.behind]
    BY <1>1, <1>3
  <2>2. /\ j.read = [job.read EXCEPT ![t] = @ + 1] /\ j.buffer = job.buffer /\ j.open = job.open
        /\ j.emitted = job.emitted /\ j.past = job.past
        /\ j.heard = job.heard /\ j.behind = job.behind
    BY <2>1
  <2>3. \A p \in j.open : Partial(j, p)
    BY <2>2 DEF JobOK, Partial, Taken, Misled
  <2>. QED  BY <1>2, <2>1, <2>2, <2>3 DEF JobOK, Taken, Misled
<1>4. CASE Deduplicated(e) = Accept(e) /\ ~ (e.ts <= watermark)
  <2>1. j = [read |-> [job.read EXCEPT ![t] = @ + 1], seen |-> j.seen, buffer |-> job.buffer \cup {e},
             open |-> job.open, emitted |-> job.emitted, past |-> job.past,
             heard |-> IF e.ts > job.past THEN job.heard \cup {e} ELSE job.heard,
             behind |-> IF e.ts > job.past THEN job.behind ELSE job.behind \cup {e}]
    BY <1>1, <1>4 DEF Accept
  <2>2. /\ j.read = [job.read EXCEPT ![t] = @ + 1] /\ j.buffer = job.buffer \cup {e}
        /\ j.open = job.open /\ j.emitted = job.emitted /\ j.past = job.past
        /\ j.heard = IF e.ts > job.past THEN job.heard \cup {e} ELSE job.heard
        /\ j.behind = IF e.ts > job.past THEN job.behind ELSE job.behind \cup {e}
    BY <2>1
  <2>7. Taken(j) = Taken(job) \cup {e} /\ job.behind \subseteq j.behind
    BY <2>2 DEF Taken
  <2>3. ASSUME NEW p \in j.open
        PROVE  Partial(j, p)
    <3>1. Partial(job, p)
      BY <2>2 DEF JobOK
    <3>2. \A k : Misled(job, k) => Misled(j, k)
      BY <2>7 DEF Misled
    <3>. QED  BY <2>2, <2>7, <3>1, <3>2 DEF Partial
  <2>4. ASSUME kind = "absence", NEW p \in j.open, NEW f \in j.heard \ j.buffer, Ends(p[1], f)
        PROVE  Misled(j, p[1].key)
    <3>1. f \in job.heard \ job.buffer /\ p \in job.open
      BY <2>2, <2>4
    <3>. QED  BY <2>4, <2>7, <3>1 DEF JobOK, Misled
  <2>5. /\ \A f \in j.buffer : f \in j.behind \/ f.ts > j.past
        /\ \A f \in j.heard : f \in j.buffer \/ f.ts <= j.past
        /\ j.past \in Nat /\ Taken(j) \subseteq Events /\ j.buffer \subseteq Taken(j)
        /\ j.read \in [Types -> Nat] /\ j.emitted = job.emitted
    <3>1. \A f \in j.buffer : f \in j.behind \/ f.ts > j.past
      BY <2>2 DEF JobOK
    <3>2. \A f \in j.heard : f \in j.buffer \/ f.ts <= j.past
      BY <2>2 DEF JobOK
    <3>. QED  BY <1>2, <2>2, <2>7, <3>1, <3>2 DEF JobOK
  <2>6. j = [read |-> j.read, seen |-> j.seen, buffer |-> j.buffer, open |-> j.open,
             emitted |-> j.emitted, past |-> j.past, heard |-> j.heard, behind |-> j.behind]
    BY <2>1
  <2>. QED  BY <2>3, <2>4, <2>5, <2>6 DEF JobOK
<1>. QED  BY <1>3, <1>4 DEF Deduplicated, Accept

\* The initial state is good.
LEMMA InitCInv == Init => CInv
<1>. SUFFICES ASSUME Init PROVE CInv
  OBVIOUS
<1>1. JobOK(InitialJob)
  BY DEF InitialJob, JobOK, Taken
<1>2. JInv
  BY <1>1 DEF Init, JInv, WorldOK
<1>3. SinkOK /\ ToldOnce
  BY DEF Init, SinkOK, ToldOnce, Run
<1>. QED  BY <1>2, <1>3 DEF CInv

\* Events stay events.
LEMMA EventsStay == kind' = kind => Events' = Events
  BY DEF Events

\* Every step keeps the job and its last checkpoint good.
LEMMA NextJInv == JInv /\ [Next]_vars => JInv'
<1>. SUFFICES ASSUME JInv, [Next]_vars PROVE JInv'
  OBVIOUS
<1>. USE DEF worldVars
<1>1. ASSUME NEW e \in MayHappen[kind], Happen(e)
      PROVE  JInv'
  <2>1. [id |-> e.id, type |-> e.type, key |-> e.key, actor |-> e.actor, ts |-> clock] \in Events
    BY DEF JInv, WorldOK, Events
  <2>2. e.type \in Types
    BY CepAssumption DEF JInv, WorldOK, Types
  <2>3. log' \in [Types -> Seq(Events)]
    BY <1>1, <2>1, <2>2 DEF Happen, JInv, WorldOK
  <2>. QED  BY <1>1, <2>3, EventsStay, JobStays DEF Happen, JInv, WorldOK
<1>2. ASSUME NEW t \in Types, Duplicate(t)
      PROVE  JInv'
  <2>1. log[t] \in Seq(Events) /\ log[t] # <<>>
    BY <1>2 DEF Duplicate, JInv, WorldOK
  <2>2. Last(log[t]) \in Events
    BY <2>1 DEF Last
  <2>3. log' \in [Types -> Seq(Events)]
    BY <1>2, <2>1, <2>2 DEF Duplicate, JInv, WorldOK
  <2>. QED  BY <1>2, <2>3, EventsStay, JobStays DEF Duplicate, JInv, WorldOK
<1>3. ASSUME NEW t \in Types, Read(t)
      PROVE  JInv'
  <2>1. log[t][job.read[t] + 1] \in Events
    BY <1>3 DEF Read, JInv, WorldOK, JobOK
  <2>2. JobOK(job')
    BY <1>3, <2>1, ReadOK DEF Read, JInv, WorldOK
  <2>. QED  BY <1>3, <2>2, EventsStay, JobStays DEF Read, JInv, WorldOK
<1>4. CASE Watermark
  <2>1. CepAssumption /\ Candidate \in Nat
    BY <1>4, CepAssumption DEF Watermark, Candidate, JInv, WorldOK
  <2>2. AfterWatermark(job', Candidate)
    BY <1>4 DEF Watermark, AfterWatermark, Past, JInv, JobOK
  <2>3. JobOK(job')
    BY <2>1, <2>2, WatermarkOK DEF JInv, WorldOK
  <2>. QED  BY <1>4, <2>1, <2>3, EventsStay, JobStays DEF Watermark, JInv, WorldOK
<1>5. CASE Checkpoint
  BY <1>5, EventsStay, JobStays DEF Checkpoint, JInv, WorldOK
<1>6. CASE Fail
  BY <1>6, EventsStay, JobStays DEF Fail, Restored, JInv, WorldOK
<1>7. CASE Advance
  BY <1>7, EventsStay, JobStays DEF Advance, JInv, WorldOK
<1>8. CASE UNCHANGED vars
  BY <1>8, EventsStay, JobStays DEF vars, JInv, WorldOK
<1>. QED  BY <1>1, <1>2, <1>3, <1>4, <1>5, <1>6, <1>7, <1>8 DEF Next

-----------------------------------------------------------------------------
(* The alerts of one watermark.                                            *)

\* An alert is an id and a time.
LEMMA AlertShape ==
  ASSUME kind \in Kinds, NEW p
  PROVE  AlertOf(p) = [id |-> AlertOf(p).id, at |-> AlertOf(p).at]
<1>1. kind \in {"absence", "sequence", "three"}
  BY CepAssumption
<1>2. CASE kind = "absence"
  BY <1>2 DEF AlertOf
<1>3. CASE kind = "sequence"
  BY <1>3 DEF AlertOf
<1>4. CASE kind = "three"
  BY <1>4 DEF AlertOf
<1>. QED  BY <1>1, <1>2, <1>3, <1>4

New == NotYetTold({AlertOf(p) : p \in Detected(Candidate).found})

\* No two new alerts have the same id, no new one the id of one remembered, and
\* each is of a match found.
LEMMA NewFacts ==
  ASSUME JInv, Candidate \in Nat
  PROVE  /\ \A a \in New : /\ a = [id |-> a.id, at |-> a.at] /\ a.id \notin job.emitted
                           /\ \E p \in Detected(Candidate).found : a = AlertOf(p) /\ Right(Candidate, p)
         /\ \A a, b \in New : a.id = b.id => a = b
<1>1. ASSUME NEW a \in New
      PROVE  /\ a = [id |-> a.id, at |-> a.at] /\ a.id \notin job.emitted /\ a.at \in Int
             /\ ~ \E b \in New : b.id = a.id /\ b.at < a.at
             /\ \E p \in Detected(Candidate).found : a = AlertOf(p) /\ Right(Candidate, p)
  <2>1. /\ a \in {AlertOf(p) : p \in Detected(Candidate).found} /\ a.id \notin job.emitted
        /\ ~ \E b \in {AlertOf(p) : p \in Detected(Candidate).found} : b.id = a.id /\ b.at < a.at
    BY DEF New, NotYetTold
  <2>2. PICK p \in Detected(Candidate).found : a = AlertOf(p)
    BY <2>1
  <2>3. Right(Candidate, p)
    BY FoundRight DEF JInv, WorldOK
  <2>4. a.at \in Int
    BY <2>2, <2>3 DEF Right
  <2>5. a = [id |-> a.id, at |-> a.at]
    BY <2>2, AlertShape DEF JInv, WorldOK
  <2>. QED  BY <2>1, <2>2, <2>3, <2>4, <2>5 DEF New, NotYetTold
<1>2. ASSUME NEW a \in New, NEW b \in New, a.id = b.id
      PROVE  a = b
  <2>1. a.at \in Int /\ b.at \in Int /\ ~ (a.at < b.at) /\ ~ (b.at < a.at)
    BY <1>1, <1>2
  <2>2. a.at = b.at
    BY <2>1
  <2>3. a = [id |-> a.id, at |-> a.at] /\ b = [id |-> b.id, at |-> b.at]
    BY <1>1
  <2>. QED  BY <1>2, <2>2, <2>3
<1>. QED  BY <1>1, <1>2

\* The record in the topic of an alert told now.
Told(a) == [id |-> a.id, at |-> a.at, run |-> Run, epoch |-> epoch]

\* A watermark's effect, in short.
LEMMA WatermarkFacts ==
  ASSUME JInv, Watermark
  PROVE  /\ Candidate \in Nat
         /\ sink' = sink \cup {Told(a) : a \in New}
         /\ job'.emitted = job.emitted \cup {a.id : a \in New}
         /\ UNCHANGED <<kind, clock, saved, failures, epoch>>
<1>1. Candidate \in Nat
  BY CepAssumption DEF Watermark, Candidate, JInv, WorldOK
<1>2. job = [read |-> job.read, seen |-> job.seen, buffer |-> job.buffer, open |-> job.open,
             emitted |-> job.emitted, past |-> job.past, heard |-> job.heard, behind |-> job.behind]
  BY DEF JInv, JobOK
<1>. QED  BY <1>1, <1>2 DEF Watermark, New, Told, worldVars

\* The alerts are accounted for after a watermark.
LEMMA WatermarkSink ==
  ASSUME CInv, Watermark
  PROVE  SinkOK' /\ ToldOnce'
<1>1. /\ Candidate \in Nat
      /\ sink' = sink \cup {Told(a) : a \in New}
      /\ job'.emitted = job.emitted \cup {a.id : a \in New}
      /\ UNCHANGED <<saved, failures, epoch>>
  BY WatermarkFacts DEF CInv
<1>2. /\ \A a \in New : a = [id |-> a.id, at |-> a.at] /\ a.id \notin job.emitted
      /\ \A a, b \in New : a.id = b.id => a = b
  BY <1>1, NewFacts DEF CInv
<1>3. epoch \in Nat /\ Run \in Nat /\ Run' = Run
  BY <1>1 DEF CInv, SinkOK, Run
<1>4. ASSUME NEW b \in sink', b \notin sink
      PROVE  /\ b.run = Run /\ b.epoch = epoch /\ b.id \in job'.emitted
             /\ b.id \notin job.emitted /\ \E a \in New : b = Told(a) /\ a.id = b.id
  BY <1>1, <1>2, <1>4 DEF Told
<1>5. ASSUME NEW a \in sink'
      PROVE  /\ a.run \in 0..Run' /\ a.epoch \in 0..epoch'
             /\ a.run < Run' => a.epoch <= failures'[a.run + 1]
             /\ a.run = Run' \/ a.epoch < failures'[a.run + 1] => a.id \in job'.emitted
             /\ (a.run = Run' \/ a.epoch < failures'[a.run + 1]) /\ a.epoch < epoch'
                  => a.id \in saved'.emitted
  <2>1. CASE a \in sink
    BY <1>1, <1>3, <2>1 DEF CInv, SinkOK
  <2>2. CASE a \notin sink
    BY <1>1, <1>3, <1>4, <2>2
  <2>. QED  BY <2>1, <2>2
<1>6. SinkOK'
  BY <1>1, <1>3, <1>5 DEF CInv, SinkOK
<1>7. ASSUME NEW a \in sink', NEW b \in sink', a # b, a.id = b.id
      PROVE  a.run # b.run /\ (a.run < b.run => failures[a.run + 1] = a.epoch)
  <2>1. CASE a \in sink /\ b \in sink
    BY <1>7, <2>1 DEF CInv, ToldOnce
  <2>2. ASSUME NEW c \in sink, NEW d \in sink', d \notin sink, c.id = d.id
        PROVE  c.run < Run /\ d.run = Run /\ failures[c.run + 1] = c.epoch
    <3>1. d.run = Run /\ c.id \notin job.emitted
      BY <1>4, <2>2
    <3>2. /\ c.run \in 0..Run /\ c.epoch \in 0..epoch
          /\ c.run < Run => c.epoch <= failures[c.run + 1]
          /\ ~ (c.run = Run \/ c.epoch < failures[c.run + 1])
      BY <3>1 DEF CInv, SinkOK
    <3>3. c.run + 1 \in 1..Len(failures) /\ failures \in Seq(Nat)
      BY <1>3, <3>2 DEF CInv, SinkOK, Run
    <3>4. failures[c.run + 1] \in Nat
      BY <3>3
    <3>. QED  BY <1>3, <3>1, <3>2, <3>4
  <2>3. CASE a \in sink /\ b \notin sink
    BY <1>3, <1>7, <2>2, <2>3
  <2>4. CASE a \notin sink /\ b \in sink
    <3>1. b.run < Run /\ a.run = Run /\ b.run \in Nat
      BY <1>7, <2>2, <2>4 DEF CInv, SinkOK
    <3>. QED  BY <1>3, <3>1
  <2>5. CASE a \notin sink /\ b \notin sink
    BY <1>2, <1>4, <1>7, <2>5
  <2>. QED  BY <2>1, <2>3, <2>4, <2>5
<1>8. ToldOnce'
  <2>1. ASSUME NEW a \in sink', NEW b \in sink', a.id = b.id, a.run < b.run
        PROVE  failures[a.run + 1] = a.epoch
    <3>1. a # b
      BY <1>3, <1>5, <2>1
    <3>. QED  BY <1>7, <2>1, <3>1
  <2>. QED  BY <1>1, <1>7, <2>1 DEF ToldOnce
<1>. QED  BY <1>6, <1>8

\* The alerts are accounted for after a failure.
LEMMA FailSink ==
  ASSUME CInv, Fail
  PROVE  SinkOK' /\ ToldOnce'
<1>1. /\ failures' = Append(failures, epoch) /\ sink' \subseteq sink
      /\ job' = saved /\ saved' = saved /\ epoch' = epoch
  BY DEF Fail, Restored
<1>2. failures \in Seq(Nat) /\ epoch \in Nat /\ Run = Len(failures)
  BY DEF CInv, SinkOK, Run
<1>3. /\ Run \in Nat /\ Run' = Run + 1 /\ failures' \in Seq(Nat)
      /\ \A r \in 1..Run : failures'[r] = failures[r]
      /\ failures'[Run + 1] = epoch
  BY <1>1, <1>2 DEF Run
<1>4. ASSUME NEW a \in sink'
      PROVE  /\ a.run \in 0..Run' /\ a.epoch \in 0..epoch'
             /\ a.run < Run' => a.epoch <= failures'[a.run + 1]
             /\ a.run = Run' \/ a.epoch < failures'[a.run + 1] => a.id \in saved.emitted
  <2>1. /\ a.run \in 0..Run /\ a.epoch \in 0..epoch
        /\ a.run < Run => a.epoch <= failures[a.run + 1]
        /\ (a.run = Run \/ a.epoch < failures[a.run + 1]) /\ a.epoch < epoch => a.id \in saved.emitted
    BY <1>1 DEF CInv, SinkOK
  <2>2. CASE a.run = Run
    BY <1>1, <1>2, <1>3, <2>1, <2>2
  <2>3. CASE a.run < Run
    <3>1. a.run + 1 \in 1..Run
      BY <1>3, <2>1, <2>3
    <3>2. failures'[a.run + 1] = failures[a.run + 1] /\ failures[a.run + 1] \in Nat
          /\ failures[a.run + 1] <= epoch
      BY <1>2, <1>3, <3>1 DEF CInv, SinkOK
    <3>. QED  BY <1>1, <1>2, <1>3, <2>1, <2>3, <3>2
  <2>. QED  BY <1>3, <2>1, <2>2, <2>3
<1>5. SinkOK'
  <2>1. \A r \in 1..Run' : failures'[r] <= epoch'
    BY <1>1, <1>2, <1>3 DEF CInv, SinkOK
  <2>. QED  BY <1>1, <1>2, <1>3, <1>4, <2>1 DEF SinkOK
<1>6. ToldOnce'
  <2>1. ASSUME NEW a \in sink, NEW b \in sink, a.id = b.id, a.run < b.run
        PROVE  failures'[a.run + 1] = a.epoch
    <3>1. a.run \in 0..Run /\ b.run \in 0..Run
      BY DEF CInv, SinkOK
    <3>2. a.run + 1 \in 1..Run
      BY <1>3, <2>1, <3>1
    <3>. QED  BY <1>3, <2>1, <3>2 DEF CInv, ToldOnce
  <2>2. \A a, b \in sink : a # b /\ a.id = b.id => a.run # b.run
    BY DEF CInv, ToldOnce
  <2>. QED  BY <1>1, <2>1, <2>2 DEF ToldOnce
<1>. QED  BY <1>5, <1>6

\* CInv is inductive.
LEMMA NextCInv == CInv /\ [Next]_vars => CInv'
<1>. SUFFICES ASSUME CInv, [Next]_vars PROVE CInv'
  OBVIOUS
<1>0. JInv'
  BY NextJInv DEF CInv
<1>. USE DEF worldVars
<1>1. CASE UNCHANGED <<job, saved, sink, failures, epoch>>
  BY <1>0, <1>1 DEF CInv, SinkOK, ToldOnce, Run
<1>2. ASSUME NEW t \in Types, Read(t)
      PROVE  CInv'
  <2>1. job'.emitted = job.emitted
    <3>1. log[t][job.read[t] + 1] \in Events
      BY <1>2 DEF Read, CInv, JInv, WorldOK, JobOK
    <3>. QED  BY <1>2, <3>1, ReadOK DEF Read, CInv, JInv, WorldOK
  <2>2. UNCHANGED <<saved, sink, failures, epoch>>
    BY <1>2 DEF Read
  <2>. QED  BY <1>0, <2>1, <2>2 DEF CInv, SinkOK, ToldOnce, Run
<1>3. CASE Watermark
  BY <1>0, <1>3, WatermarkSink DEF CInv
<1>4. CASE Checkpoint
  <2>1. saved' = job /\ epoch' = epoch + 1 /\ UNCHANGED <<job, sink, failures>>
    BY <1>4 DEF Checkpoint
  <2>2. SinkOK'
    <3>1. epoch' \in Nat /\ failures' \in Seq(Nat) /\ Run' = Run /\ Run \in Nat
      BY <2>1 DEF CInv, SinkOK, Run
    <3>2. ASSUME NEW r \in 1..Run'
          PROVE  failures'[r] <= epoch'
      <4>1. failures[r] \in Nat /\ failures[r] <= epoch /\ epoch \in Nat
        BY <2>1, <3>1 DEF CInv, SinkOK, Run
      <4>. QED  BY <2>1, <4>1
    <3>3. ASSUME NEW a \in sink'
          PROVE  /\ a.run \in 0..Run' /\ a.epoch \in 0..epoch'
                 /\ a.run < Run' => a.epoch <= failures'[a.run + 1]
                 /\ a.run = Run' \/ a.epoch < failures'[a.run + 1]
                      => a.id \in job'.emitted /\ a.id \in saved'.emitted
      BY <2>1, <3>1 DEF CInv, SinkOK
    <3>. QED  BY <3>1, <3>2, <3>3 DEF SinkOK
  <2>3. ToldOnce'
    BY <2>1 DEF CInv, ToldOnce
  <2>. QED  BY <1>0, <2>2, <2>3 DEF CInv
<1>5. CASE Fail
  BY <1>0, <1>5, FailSink DEF CInv
<1>. QED  BY <1>1, <1>2, <1>3, <1>4, <1>5 DEF Next, vars, Happen, Duplicate, Advance

-----------------------------------------------------------------------------
(* The theorems.                                                           *)

\* The invariant of the jobs and of what they told.
THEOREM SpecCInv == Spec => []CInv
  BY InitCInv, NextCInv, PTL DEF Spec

\* The alert deduplicator of a job (CepJobSupport) and its checkpoints: an alert
\* is in the topic once, unless the job failed before the checkpoint that would
\* have remembered it.
THEOREM SpecToldOnce == Spec => []ToldOnce
<1>1. CInv => ToldOnce
  BY DEF CInv
<1>. QED  BY <1>1, SpecCInv, PTL

\* One step tells only what is right.
LEMMA NextAlertsTrue ==
  ASSUME CInv, [Next]_vars, NEW a \in sink' \ sink
  PROVE  /\ a.at + Lateness <= clock
         /\ \/ \E p \in Matches(job.heard, OfType(job.heard, "last")) :
                 AlertOf(p) = [id |-> a.id, at |-> a.at]
            \/ \E e \in job.behind : e.key = a.id[1]
<1>1. Watermark
  BY DEF Next, vars, Happen, Duplicate, Read, Checkpoint, Fail, Advance, worldVars
<1>2. PICK b \in New : a = Told(b) /\ Candidate \in Nat
  BY <1>1, WatermarkFacts DEF CInv
<1>3. PICK p \in Detected(Candidate).found :
        b = AlertOf(p) /\ Right(Candidate, p) /\ b = [id |-> b.id, at |-> b.at]
  BY <1>2, NewFacts DEF CInv
<1>4. a.id = b.id /\ a.at = b.at
  BY <1>2 DEF Told
<1>5. a.at \in Int /\ a.at <= Candidate
  BY <1>3, <1>4 DEF Right
<1>6. a.at + Lateness <= clock
  BY <1>5, CepAssumption DEF Candidate, CInv, JInv, WorldOK
<1>7. \/ \E q \in Matches(job.heard, OfType(job.heard, "last")) : AlertOf(q) = b
      \/ Misled(job, b.id[1])
  BY <1>3 DEF Right
<1>. QED  BY <1>3, <1>4, <1>6, <1>7 DEF Misled

\* Whatever order and however often events are read, and whatever fails, an alert
\* is of a match of the events read in time and told when its time is over
\* (TrendingProductPattern, AbandonedCartPattern, ... and CepJobSupport).
THEOREM SpecAlertsTrue == Spec => AlertsTrue
<1>1. CInv /\ [Next]_vars =>
        [\A a \in sink' \ sink :
           /\ a.at + Lateness <= clock
           /\ \/ \E p \in Matches(job.heard, OfType(job.heard, "last")) :
                   AlertOf(p) = [id |-> a.id, at |-> a.at]
              \/ \E e \in job.behind : e.key = a.id[1]]_vars
  BY NextAlertsTrue
<1>. QED  BY <1>1, SpecCInv, PTL DEF Spec, AlertsTrue

-----------------------------------------------------------------------------
(* Completeness.  The events a job has worked through are those it heard   *)
(* and no longer keeps in its buffer.  Of each first event among them,     *)
(* and of each beginning of a match, the job still keeps a match open, or  *)
(* has told the alert, or knows why there is none.                         *)

Done(j) == j.heard \ j.buffer

\* Event f goes on with a match that e begins; g completes one.
Pair(e, f) == f.key = e.key /\ Earlier(e, f) /\ f.ts - e.ts < Span
Triple(e, f, g) ==
  /\ Pair(e, f) /\ g.key = e.key /\ Earlier(f, g) /\ g.ts - e.ts < Span
  /\ e.actor # f.actor /\ e.actor # g.actor /\ f.actor # g.actor

WaitsKept(j) ==
  \A e \in Done(j) : e.type = "first" =>
    \/ <<e>> \in j.open \/ <<e.key>> \in j.emitted
    \/ \E f \in Happened("last") : Ends(e, f)
    \/ \E f \in j.behind : f.type = "last" /\ f.key = e.key

SequencesKept(j) ==
  /\ \A e \in Done(j) : e.type = "first" /\ j.past - e.ts < Span =>
       <<e>> \in j.open \/ <<e.key>> \in j.emitted
  /\ \A e, f \in Done(j) : e.type = "first" /\ f.type = "last" /\ Pair(e, f) =>
       <<e.key>> \in j.emitted

ThreesKept(j) ==
  /\ \A e \in Done(j) : j.past - e.ts < Span => <<e>> \in j.open
  /\ \A e, f \in Done(j) : Pair(e, f) /\ e.actor # f.actor /\ j.past - e.ts < Span =>
       <<e, f>> \in j.open
  /\ \A e, f, g \in Done(j) : Triple(e, f, g) => <<e.key, e.ts>> \in j.emitted

\* What was taken happened and will be known again; what was heard in time waits
\* in the buffer until its time has come; no match is kept for longer than it may take.
TimesOK(j) ==
  /\ \A e \in Taken(j) : e.id \in j.seen /\ e \in Happened(e.type)
  /\ \A e \in j.heard \cap j.buffer : e.ts > j.past
  /\ j.past = 0 \/ j.past + Lateness <= clock
  /\ \A p \in j.open : j.past - p[1].ts < Within

KeptOK(j) ==
  /\ kind = "absence" => WaitsKept(j)
  /\ kind = "sequence" => SequencesKept(j)
  /\ kind = "three" => ThreesKept(j)

Topics == \A t \in Types : \A i \in DOMAIN log[t] : log[t][i].type = t

\* An alert that is remembered is in the topic, and one that a checkpoint
\* remembers cannot be lost any more.
SinkAll ==
  /\ \A i \in job.emitted : \E a \in sink : a.id = i
  /\ \A i \in saved.emitted : \E a \in sink : a.id = i /\ (a.run < Run \/ a.epoch < epoch)

DInv == Topics /\ TimesOK(job) /\ KeptOK(job) /\ TimesOK(saved) /\ KeptOK(saved) /\ SinkAll

\* A set of natural numbers has a least one.
LEMMA Least ==
  ASSUME NEW T \in SUBSET Nat, T # {}
  PROVE  \E m \in T : \A n \in T : m <= n
<1>1. PICK top \in T : TRUE
  OBVIOUS
<1>. DEFINE below == {1..n : n \in {k \in T : k <= top}}
<1>2. PICK U \in below : \A V \in below : <<V, U>> \notin StrictSubsetOrdering(1..top)
  <2>1. IsFiniteSet(1..top)
    BY <1>1, FS_Interval
  <2>2. IsWellFoundedOn(StrictSubsetOrdering(1..top), FiniteSubsetsOf(1..top))
    BY <2>1, FS_StrictSubsetOrderingWellFounded
  <2>3. \A V \in below : V \in SUBSET (1..top)
    BY <1>1
  <2>4. below \subseteq FiniteSubsetsOf(1..top)
    <3>1. SUFFICES ASSUME NEW V \in below PROVE V \in FiniteSubsetsOf(1..top)
      OBVIOUS
    <3>. HIDE DEF below
    <3>2. V \in SUBSET (1..top)
      BY <2>3
    <3>3. IsFiniteSet(V)
      BY <2>1, <3>2, FS_Subset
    <3>. QED  BY <3>2, <3>3 DEF FiniteSubsetsOf
  <2>5. below # {}
    <3>1. top \in {k \in T : k <= top}
      BY <1>1
    <3>2. 1..top \in below
      BY <3>1
    <3>. QED  BY <3>2
  <2>. HIDE DEF below
  <2>. QED  BY <2>2, <2>4, <2>5, WFMin
<1>3. PICK m \in T : m <= top /\ U = 1..m
  BY <1>2
<1>4. ASSUME NEW n \in T, n < m PROVE FALSE
  <2>1. n \in Nat /\ m \in Nat /\ top \in Nat /\ n <= top /\ m \in 1..m /\ m \notin 1..n
    BY <1>1, <1>3, <1>4
  <2>2. 1..n \in below
    BY <2>1
  <2>3. 1..n \subseteq 1..m /\ 1..m \subseteq 1..top /\ 1..n # 1..m
    BY <1>3, <1>4, <2>1
  <2>4. <<1..n, 1..m>> \in StrictSubsetOrdering(1..top)
    BY <2>3 DEF StrictSubsetOrdering
  <2>. QED  BY <1>2, <1>3, <2>2, <2>4
<1>. QED  BY <1>3, <1>4

\* A set of events has a first one.
LEMMA FirstEvent ==
  ASSUME kind \in Kinds, NEW S \in SUBSET Events, S # {}
  PROVE  \E e \in S : ~ \E f \in S : Earlier(f, e)
<1>1. PICK t \in {e.ts : e \in S} : \A u \in {e.ts : e \in S} : t <= u
  <2>1. {e.ts : e \in S} \in SUBSET Nat /\ {e.ts : e \in S} # {}
    BY EventFacts
  <2>. QED  BY <2>1, Least
<1>. DEFINE ids == {e.id : e \in {f \in S : f.ts = t}}
<1>2. PICK i \in ids : \A k \in ids : i <= k
  <2>1. ids \in SUBSET Nat /\ ids # {}
    BY <1>1, EventFacts
  <2>. HIDE DEF ids
  <2>. QED  BY <2>1, Least
<1>3. PICK e \in S : e.ts = t /\ e.id = i
  BY <1>2
<1>4. ASSUME NEW f \in S, Earlier(f, e) PROVE FALSE
  <2>1. f.ts \in Nat /\ f.id \in Nat /\ e.ts \in Nat /\ e.id \in Nat /\ e.ts <= f.ts
    BY <1>1, <1>3, EventFacts
  <2>2. f.ts = t /\ f.id < e.id
    BY <1>3, <1>4, <2>1 DEF Earlier
  <2>. QED  BY <1>2, <1>3, <2>1, <2>2
<1>. QED  BY <1>3, <1>4

\* Every alert that a watermark finds was told before or is told now.
LEMMA FoundTold ==
  ASSUME JInv, Watermark, NEW p \in Detected(Candidate).found
  PROVE  AlertOf(p).id \in job'.emitted
<1>. DEFINE all == {AlertOf(q) : q \in Detected(Candidate).found}
            ats == {a.at : a \in {b \in all : b.id = AlertOf(p).id}}
<1>1. Candidate \in Nat /\ job'.emitted = job.emitted \cup {a.id : a \in New}
  BY WatermarkFacts
<1>2. \A a \in all : a.at \in Nat
  BY <1>1, FoundRight DEF JInv, WorldOK, Right
<1>3. PICK m \in ats : \A n \in ats : m <= n
  <2>1. ats \in SUBSET Nat /\ ats # {}
    BY <1>2
  <2>. HIDE DEF ats
  <2>. QED  BY <2>1, Least
<1>4. PICK a \in all : a.id = AlertOf(p).id /\ a.at = m
  BY <1>3
<1>5. ~ \E b \in all : b.id = a.id /\ b.at < a.at
  <2>1. ASSUME NEW b \in all, b.id = a.id, b.at < a.at PROVE FALSE
    <3>1. b.at \in ats
      BY <1>4, <2>1
    <3>. QED  BY <1>2, <1>3, <1>4, <2>1, <3>1
  <2>. QED  BY <2>1
<1>6. a \in New \/ a.id \in job.emitted
  BY <1>4, <1>5 DEF New, NotYetTold
<1>. QED  BY <1>1, <1>4, <1>6

\* Where a watermark leaves the job.
Moved(j, w) ==
  /\ w >= job.past /\ j.past = w
  /\ j.open = Detected(w).open /\ j.buffer = {e \in job.buffer : e.ts > w}
  /\ j.heard = job.heard /\ j.behind = job.behind
  /\ job.emitted \subseteq j.emitted
  /\ \A p \in Detected(w).found : AlertOf(p).id \in j.emitted

\* What it has worked through then, it had before or finds in the batch.
LEMMA DoneAfter ==
  ASSUME kind \in Kinds, JobOK(job), TimesOK(job), NEW w \in Nat, NEW j, Moved(j, w), NEW e \in Done(j)
  PROVE  /\ e \in Events /\ e.ts \in Nat /\ e.id \in Nat /\ e.ts <= w
         /\ e \in job.heard /\ job.past \in Nat
         /\ (kind = "three" => e.type = "first")
         /\ \/ e \in Done(job) /\ e.ts <= job.past
            \/ e \in Batch(w) /\ e.ts > job.past
<1>1. e \in job.heard /\ e \in Events /\ ~ (e \in job.buffer /\ e.ts > w)
  BY DEF Done, Moved, JobOK, Taken
<1>2. e.ts \in Nat /\ e.id \in Nat /\ job.past \in Nat /\ (kind = "three" => e.type = "first")
  BY <1>1, EventFacts DEF JobOK
<1>3. CASE e \in job.buffer
  BY <1>1, <1>2, <1>3 DEF TimesOK, Batch
<1>4. CASE e \notin job.buffer
  <2>1. e.ts <= job.past
    BY <1>1, <1>4 DEF JobOK
  <2>. QED  BY <1>1, <1>2, <1>4, <2>1 DEF Done, Moved
<1>. QED  BY <1>3, <1>4

\* A match that one first event of the batch begins.
LEMMA BegunIn ==
  ASSUME NEW w, NEW e \in Batch(w), e.type = "first"
  PROVE  <<e>> \in Begun(Batch(w))
  BY DEF Begun, OfType

\* When it goes on with an event of the batch.
LEMMA FollowsOne ==
  ASSUME NEW e, NEW f, NEW w, f.key = e.key, Earlier(e, f), f.ts - e.ts < Within
  PROVE  Follows(<<e>>, f, Batch(w))
<1>1. Last(<<e>>) = e /\ <<e>>[1] = e
  BY DEF Last
<1>. QED  BY <1>1 DEF Follows

\* Absence: a wait goes on, is told, or is over.
LEMMA WaitsAfter ==
  ASSUME kind \in Kinds, kind = "absence", JobOK(job), TimesOK(job), WaitsKept(job),
         NEW w \in Nat, NEW j, Moved(j, w)
  PROVE  WaitsKept(j)
<1>. SUFFICES ASSUME NEW e \in Done(j), e.type = "first"
              PROVE  \/ <<e>> \in j.open \/ <<e.key>> \in j.emitted
                     \/ \E f \in Happened("last") : Ends(e, f)
                     \/ \E f \in j.behind : f.type = "last" /\ f.key = e.key
  BY DEF WaitsKept
<1>1. /\ e.ts \in Nat /\ e.ts <= w
      /\ \/ e \in Done(job) /\ e.ts <= job.past
         \/ e \in Batch(w) /\ e.ts > job.past
  BY DoneAfter
<1>2. CASE <<e>> \in AbsencesLeft(w)
  <2>1. /\ Detected(w).open = InTime(AbsencesLeft(w), w)
        /\ Detected(w).found = AbsencesLeft(w) \ InTime(AbsencesLeft(w), w)
    BY DEF Detected, Absences, AbsencesLeft, Batch
  <2>2. AlertOf(<<e>>).id = <<e.key>>
    BY DEF AlertOf
  <2>. QED  BY <1>2, <2>1, <2>2 DEF Moved
<1>3. CASE <<e>> \in job.open \cup Begun(Batch(w)) /\ <<e>> \notin AbsencesLeft(w)
  <2>1. PICK f \in OfType(Batch(w), "last") : Follows(<<e>>, f, Batch(w))
    BY <1>3 DEF AbsencesLeft
  <2>2. /\ f \in Taken(job) /\ f.type = "last" /\ f.ts \in Nat
        /\ f \in job.behind \/ f.ts > job.past
    BY <2>1, BatchFacts DEF OfType
  <2>3. f.key = e.key /\ f.ts - e.ts < After + 1 /\ (e \in Batch(w) => Earlier(e, f))
    <3>1. Last(<<e>>) = e /\ <<e>>[1] = e
      BY DEF Last
    <3>. QED  BY <2>1, <3>1 DEF Follows, Within
  <2>4. CASE f \in job.behind
    BY <2>2, <2>3, <2>4 DEF Moved
  <2>5. CASE f \notin job.behind
    <3>1. f \in Happened("last")
      BY <2>2 DEF TimesOK
    <3>2. Earlier(e, f)
      BY <1>1, <2>2, <2>3, <2>5 DEF Earlier, JobOK
    <3>. QED  BY <1>1, <2>2, <2>3, <3>1, <3>2, CepAssumption DEF Ends
  <2>. QED  BY <2>4, <2>5
<1>4. CASE <<e>> \notin job.open \cup Begun(Batch(w))
  <2>1. e \in Done(job)
    BY <1>1, <1>4, BegunIn
  <2>. QED  BY <1>4, <2>1 DEF WaitsKept, Moved
<1>. QED  BY <1>2, <1>3, <1>4

\* Sequence: a beginning is kept or told, and what follows it is told.
LEMMA SequencesAfter ==
  ASSUME kind \in Kinds, kind = "sequence", JobOK(job), TimesOK(job), SequencesKept(job),
         NEW w \in Nat, NEW j, Moved(j, w)
  PROVE  SequencesKept(j)
<1>. DEFINE ps == job.open \cup Begun(Batch(w))
            after(p) == {e \in OfType(Batch(w), "last") : Follows(p, e, Batch(w)) /\ e.ts >= p[1].ts}
            next(p) == {e \in after(p) : ~ \E f \in after(p) : Earlier(f, e)}
            longer(p) == {Append(p, e) : e \in next(p)}
            found == UNION {longer(p) : p \in ps}
<1>0. Detected(w).found = found
  BY DEF Detected, Successions, Batch
<1>1. ASSUME NEW e, <<e>> \in ps, after(<<e>>) # {}
      PROVE  <<e.key>> \in j.emitted
  <2>1. after(<<e>>) \in SUBSET Events
    BY BatchFacts DEF OfType
  <2>2. PICK f \in after(<<e>>) : ~ \E g \in after(<<e>>) : Earlier(g, f)
    <3>. HIDE DEF after
    <3>. QED  BY <1>1, <2>1, FirstEvent
  <2>3. Append(<<e>>, f) \in Detected(w).found
    <3>1. f \in next(<<e>>)
      BY <2>2
    <3>2. Append(<<e>>, f) \in longer(<<e>>)
      BY <3>1
    <3>. HIDE DEF longer, ps
    <3>3. Append(<<e>>, f) \in found
      BY <1>1, <3>2
    <3>. QED  BY <1>0, <3>3
  <2>4. AlertOf(Append(<<e>>, f)).id = <<e.key>>
    <3>1. Append(<<e>>, f)[1] = e
      OBVIOUS
    <3>. QED  BY <3>1 DEF AlertOf
  <2>. QED  BY <2>3, <2>4 DEF Moved
<1>2. ASSUME NEW e, <<e>> \in ps, after(<<e>>) = {}, w - e.ts < Span
      PROVE  <<e>> \in j.open
  <2>1. <<e>> \in Successions(job.open, Batch(w), w).open
    BY <1>2 DEF Successions, InTime, Within
  <2>. QED  BY <2>1 DEF Detected, Batch, Moved
<1>3. ASSUME NEW e \in Done(j), e.type = "first",
             e \in Batch(w) \/ (e \in Done(job) /\ job.past - e.ts < Span)
      PROVE  <<e>> \in ps \/ <<e.key>> \in j.emitted
  BY <1>3, BegunIn DEF SequencesKept, Moved
<1>4. ASSUME NEW e \in Done(j), e.type = "first", w - e.ts < Span
      PROVE  <<e>> \in j.open \/ <<e.key>> \in j.emitted
  <2>1. e \in Batch(w) \/ (e \in Done(job) /\ job.past - e.ts < Span)
    BY <1>4, DoneAfter, CepAssumption DEF Moved
  <2>. HIDE DEF ps, after
  <2>. QED  BY <1>1, <1>2, <1>3, <1>4, <2>1
<1>5. ASSUME NEW e \in Done(j), NEW f \in Done(j), e.type = "first", f.type = "last", Pair(e, f)
      PROVE  <<e.key>> \in j.emitted
  <2>1. /\ e.ts \in Nat /\ f.ts \in Nat /\ job.past \in Nat
        /\ (e \in Done(job) /\ e.ts <= job.past) \/ (e \in Batch(w) /\ e.ts > job.past)
        /\ (f \in Done(job) /\ f.ts <= job.past) \/ (f \in Batch(w) /\ f.ts > job.past)
    BY DoneAfter
  <2>2. e.ts <= f.ts /\ f.ts - e.ts < Span /\ f.key = e.key /\ Earlier(e, f)
    BY <1>5, <2>1 DEF Pair, Earlier
  <2>3. CASE f \in Done(job) /\ e \in Done(job)
    BY <1>5, <2>3 DEF SequencesKept, Moved
  <2>4. CASE f \in Batch(w) /\ f.ts > job.past
    <3>1. f \in after(<<e>>)
      <4>1. Follows(<<e>>, f, Batch(w))
        BY <2>2, FollowsOne DEF Within
      <4>2. f.ts >= <<e>>[1].ts
        BY <2>1, <2>2
      <4>. QED  BY <1>5, <2>4, <4>1, <4>2 DEF OfType
    <3>2. e \in Batch(w) \/ (e \in Done(job) /\ job.past - e.ts < Span)
      BY <2>1, <2>2, <2>4, CepAssumption
    <3>. HIDE DEF ps, after
    <3>. QED  BY <1>1, <1>3, <1>5, <3>1, <3>2
  <2>. QED  BY <2>1, <2>2, <2>3, <2>4
<1>6. j.past = w
  BY DEF Moved
<1>. QED  BY <1>4, <1>5, <1>6 DEF SequencesKept

\* A match that goes on with an event of the batch.
LEMMA LongerIn ==
  ASSUME NEW ps, NEW w, NEW p \in ps, NEW e \in Batch(w), Joins(p, e, w)
  PROVE  Append(p, e) \in Longer(ps, w)
<1>. DEFINE longer(q) == {Append(q, f) : f \in {g \in Batch(w) : Joins(q, g, w)}}
<1>1. Append(p, e) \in longer(p)
  OBVIOUS
<1>2. Longer(ps, w) = UNION {longer(q) : q \in ps}
  BY DEF Longer
<1>. HIDE DEF longer
<1>. QED  BY <1>1, <1>2

\* Three: beginnings of one and of two events are kept, and threes are told.
LEMMA ThreesAfter ==
  ASSUME kind \in Kinds, kind = "three", JobOK(job), TimesOK(job), ThreesKept(job),
         NEW w \in Nat, NEW j, Moved(j, w)
  PROVE  ThreesKept(j)
<1>1. /\ j.past = w /\ w >= job.past /\ job.emitted \subseteq j.emitted
      /\ j.open = InTime(Ones(w) \cup Twos(w), w)
      /\ \A p \in Longer(Twos(w), w) : AlertOf(p).id \in j.emitted
  BY ThreesAre DEF Moved, Detected, Batch
<1>2. Within = Span /\ Span \in Nat
  BY CepAssumption DEF Within
<1>3. ASSUME NEW e \in Done(j)
      PROVE  /\ e \in Events /\ e.type = "first" /\ e.ts \in Nat /\ e.id \in Nat /\ job.past \in Nat
             /\ \/ e \in Done(job) /\ e.ts <= job.past
                \/ e \in Batch(w) /\ e.ts > job.past
  BY DoneAfter
<1>4. ASSUME NEW e \in Done(j), job.past - e.ts < Span
      PROVE  <<e>> \in Ones(w)
  <2>1. CASE e \in Done(job)
    <3>1. <<e>> \in job.open /\ Len(<<e>>) = 1
      BY <1>4, <2>1 DEF ThreesKept
    <3>. QED  BY <3>1 DEF Ones
  <2>2. CASE e \in Batch(w)
    BY <1>3, <2>2, BegunIn DEF Ones
  <2>. QED  BY <1>3, <2>1, <2>2
<1>5. ASSUME NEW e \in Done(j), NEW f \in Done(j), Pair(e, f), e.actor # f.actor,
             job.past - e.ts < Span
      PROVE  <<e, f>> \in Twos(w)
  <2>1. CASE f \in Done(job) /\ f.ts <= job.past
    <3>1. e.ts <= f.ts
      BY <1>3, <1>5 DEF Pair, Earlier
    <3>2. e \in Done(job)
      BY <1>3, <2>1, <3>1
    <3>3. <<e, f>> \in job.open /\ Len(<<e, f>>) = 2
      BY <1>5, <2>1, <3>2 DEF ThreesKept
    <3>. QED  BY <3>3 DEF Twos
  <2>2. CASE f \in Batch(w)
    <3>1. <<e>> \in Ones(w)
      BY <1>4, <1>5
    <3>2. Follows(<<e>>, f, Batch(w))
      BY <1>2, <1>5, FollowsOne DEF Pair
    <3>3. DOMAIN <<e>> = {1} /\ <<e>>[1] = e
      OBVIOUS
    <3>4. Joins(<<e>>, f, w)
      BY <1>5, <3>2, <3>3 DEF Joins
    <3>5. Append(<<e>>, f) \in Longer(Ones(w), w)
      BY <2>2, <3>1, <3>4, LongerIn
    <3>6. Append(<<e>>, f) = <<e, f>>
      BY <1>3, AppendTwo
    <3>. QED  BY <3>5, <3>6 DEF Twos
  <2>. QED  BY <1>3, <2>1, <2>2
<1>6. ASSUME NEW e \in Done(j), j.past - e.ts < Span
      PROVE  <<e>> \in j.open /\ job.past - e.ts < Span
  <2>1. job.past - e.ts < Span /\ w - e.ts < Span
    BY <1>1, <1>2, <1>3, <1>6
  <2>2. <<e>> \in Ones(w) /\ <<e>>[1] = e
    BY <1>4, <2>1
  <2>. QED  BY <1>1, <1>2, <2>1, <2>2 DEF InTime
<1>7. ASSUME NEW e \in Done(j), NEW f \in Done(j), Pair(e, f), e.actor # f.actor, j.past - e.ts < Span
      PROVE  <<e, f>> \in j.open
  <2>1. <<e, f>> \in Twos(w) /\ <<e, f>>[1] = e
    BY <1>5, <1>6, <1>7
  <2>. QED  BY <1>1, <1>2, <1>7, <2>1 DEF InTime
<1>8. ASSUME NEW e \in Done(j), NEW f \in Done(j), NEW g \in Done(j), Triple(e, f, g)
      PROVE  <<e.key, e.ts>> \in j.emitted
  <2>1. e.ts <= f.ts /\ f.ts <= g.ts
    BY <1>3, <1>8 DEF Triple, Pair, Earlier
  <2>2. CASE g \in Done(job) /\ g.ts <= job.past
    <3>1. e \in Done(job) /\ f \in Done(job)
      BY <1>3, <2>1, <2>2
    <3>. QED  BY <1>1, <1>8, <2>2, <3>1 DEF ThreesKept
  <2>3. CASE g \in Batch(w) /\ g.ts > job.past
    <3>1. <<e, f>> \in Twos(w)
      <4>1. job.past - e.ts < Span
        BY <1>2, <1>3, <1>8, <2>3 DEF Triple
      <4>. QED  BY <1>5, <1>8, <4>1 DEF Triple
    <3>2. <<e, f>>[1] = e /\ <<e, f>>[2] = f /\ DOMAIN <<e, f>> = {1, 2} /\ Last(<<e, f>>) = f
      BY DEF Last
    <3>3. Joins(<<e, f>>, g, w)
      BY <1>2, <1>8, <3>2 DEF Joins, Follows, Triple
    <3>4. Append(<<e, f>>, g) \in Longer(Twos(w), w)
      BY <2>3, <3>1, <3>3, LongerIn
    <3>5. AlertOf(<<e, f, g>>).id = <<e.key, e.ts>>
      BY DEF AlertOf
    <3>6. Append(<<e, f>>, g) = <<e, f, g>>
      BY <1>3, AppendThree
    <3>. QED  BY <1>1, <3>4, <3>5, <3>6
  <2>. QED  BY <1>3, <2>2, <2>3
<1>. QED  BY <1>6, <1>7, <1>8 DEF ThreesKept

\* What stays open is in time.
LEMMA OpenInTime ==
  ASSUME kind \in Kinds, NEW w, NEW p \in Detected(w).open
  PROVE  w - p[1].ts < Within
<1>1. kind \in {"absence", "sequence", "three"}
  BY CepAssumption
<1>2. \E ps : p \in InTime(ps, w)
  BY <1>1 DEF Detected, Absences, Successions, Threes
<1>. QED  BY <1>2 DEF InTime

\* A watermark forgets nothing.
LEMMA WatermarkDInv ==
  ASSUME CInv, DInv, Watermark
  PROVE  TimesOK(job') /\ KeptOK(job') /\ SinkAll'
<1>1. /\ Candidate \in Nat
      /\ sink' = sink \cup {Told(a) : a \in New}
      /\ job'.emitted = job.emitted \cup {a.id : a \in New}
      /\ UNCHANGED <<saved, failures, epoch>>
  BY WatermarkFacts DEF CInv
<1>2. job = [read |-> job.read, seen |-> job.seen, buffer |-> job.buffer, open |-> job.open,
             emitted |-> job.emitted, past |-> job.past, heard |-> job.heard, behind |-> job.behind]
  BY DEF CInv, JInv, JobOK
<1>3. Candidate >= job.past /\ job.past \in Nat /\ Candidate + Lateness <= clock
  BY <1>1, CepAssumption DEF DInv, TimesOK, CInv, JInv, JobOK, WorldOK, Candidate
<1>4. /\ job'.past = Candidate /\ job'.open = Detected(Candidate).open
      /\ job'.buffer = {e \in job.buffer : e.ts > Candidate}
      /\ job'.heard = job.heard /\ job'.behind = job.behind /\ job'.seen = job.seen
  <2>1. AfterWatermark(job', Candidate)
    BY <1>2 DEF Watermark, AfterWatermark, Past
  <2>2. Past(Candidate) = Candidate
    BY <1>1, <1>3 DEF Past
  <2>3. job' = [read |-> job.read, seen |-> job.seen, buffer |-> {e \in job.buffer : e.ts > Candidate},
                open |-> Detected(Candidate).open, emitted |-> job'.emitted, past |-> Candidate,
                heard |-> job.heard, behind |-> job.behind]
    BY <1>2, <2>1, <2>2 DEF AfterWatermark
  <2>. QED  BY <2>3
<1>5. Moved(job', Candidate)
  BY <1>1, <1>3, <1>4, FoundTold DEF Moved, CInv
<1>6. TimesOK(job')
  <2>1. \A p \in job'.open : job'.past - p[1].ts < Within
    BY <1>4, OpenInTime DEF CInv, JInv, WorldOK
  <2>. QED  BY <1>3, <1>4, <2>1 DEF TimesOK, DInv, Taken
<1>7. KeptOK(job')
  BY <1>1, <1>5, WaitsAfter, SequencesAfter, ThreesAfter DEF KeptOK, DInv, CInv, JInv, WorldOK
<1>8. SinkAll'
  <2>1. ASSUME NEW i \in job'.emitted PROVE \E a \in sink' : a.id = i
    <3>1. CASE i \in job.emitted
      BY <1>1, <3>1 DEF DInv, SinkAll
    <3>2. CASE i \notin job.emitted
      <4>1. PICK a \in New : a.id = i
        BY <1>1, <3>2
      <4>2. Told(a) \in sink' /\ Told(a).id = i
        BY <1>1, <4>1 DEF Told
      <4>. QED  BY <4>2
    <3>. QED  BY <3>1, <3>2
  <2>2. ASSUME NEW i \in saved'.emitted
        PROVE  \E a \in sink' : a.id = i /\ (a.run < Run' \/ a.epoch < epoch')
    BY <1>1 DEF DInv, SinkAll, Run
  <2>. QED  BY <2>1, <2>2 DEF SinkAll
<1>. QED  BY <1>6, <1>7, <1>8

\* Reading an event leaves what was worked through as it was.
LEMMA ReadKept ==
  ASSUME kind \in Kinds, JobOK(job), TimesOK(job), KeptOK(job),
         NEW t \in Types, NEW e \in Events, e \in Happened(e.type), NEW j,
         j = [Deduplicated(e) EXCEPT !.read[t] = @ + 1]
  PROVE  TimesOK(j) /\ KeptOK(j)
<1>1. job = [read |-> job.read, seen |-> job.seen, buffer |-> job.buffer, open |-> job.open,
             emitted |-> job.emitted, past |-> job.past, heard |-> job.heard, behind |-> job.behind]
  BY DEF JobOK
<1>2. CASE Deduplicated(e) \in {job, [job EXCEPT !.seen = @ \cup {e.id}]}
  <2>1. /\ job.seen \subseteq j.seen /\ j.buffer = job.buffer /\ j.open = job.open
        /\ j.emitted = job.emitted /\ j.past = job.past
        /\ j.heard = job.heard /\ j.behind = job.behind
    BY <1>1, <1>2
  <2>2. TimesOK(j)
    BY <2>1 DEF TimesOK, Taken
  <2>. QED  BY <2>1, <2>2 DEF KeptOK, WaitsKept, SequencesKept, ThreesKept, Done
<1>3. CASE e.id \notin job.seen /\ Deduplicated(e) = Accept(e) /\ ~ (e.ts <= watermark)
  <2>1. /\ j.seen = job.seen \cup {e.id} /\ j.buffer = job.buffer \cup {e}
        /\ j.open = job.open /\ j.emitted = job.emitted /\ j.past = job.past
        /\ j.heard = IF e.ts > job.past THEN job.heard \cup {e} ELSE job.heard
        /\ j.behind = IF e.ts > job.past THEN job.behind ELSE job.behind \cup {e}
    BY <1>1, <1>3 DEF Accept
  <2>2. e \notin Taken(job)
    BY <1>3 DEF TimesOK
  <2>3. Taken(j) = Taken(job) \cup {e} /\ Done(j) = Done(job) /\ job.behind \subseteq j.behind
    BY <2>1, <2>2 DEF Taken, Done
  <2>4. TimesOK(j)
    <3>1. \A f \in Taken(j) : f.id \in j.seen /\ f \in Happened(f.type)
      BY <2>1, <2>3 DEF TimesOK
    <3>2. \A f \in j.heard \cap j.buffer : f.ts > j.past
      BY <2>1, <2>2 DEF TimesOK, Taken
    <3>. QED  BY <2>1, <3>1, <3>2 DEF TimesOK
  <2>5. KeptOK(j)
    BY <2>1, <2>3 DEF KeptOK, WaitsKept, SequencesKept, ThreesKept
  <2>. QED  BY <2>4, <2>5
<1>. QED  BY <1>2, <1>3 DEF Deduplicated, Accept

\* A state of a job keeps all of this while events happen and time goes on.
LEMMA KeptStays ==
  ASSUME kind \in Kinds, kind' = kind, clock \in Nat, clock' \in Nat, clock' >= clock,
         \A t \in Types : Happened(t) \subseteq Happened(t)',
         NEW j, JobOK(j), TimesOK(j), KeptOK(j)
  PROVE  TimesOK(j)' /\ KeptOK(j)'
<1>1. \A e \in Taken(j) : e.type \in Types
  BY EventFacts DEF JobOK, Types
<1>2. j.past \in Nat
  BY DEF JobOK
<1>3. TimesOK(j)'
  BY <1>1, <1>2, CepAssumption DEF TimesOK, Taken, Within
<1>4. (kind = "absence" => WaitsKept(j))'
  BY DEF KeptOK, WaitsKept, Done, Ends, Earlier, Types
<1>5. (kind = "sequence" => SequencesKept(j))' /\ (kind = "three" => ThreesKept(j))'
  BY DEF KeptOK, SequencesKept, ThreesKept, Done, Pair, Triple, Earlier
<1>. QED  BY <1>3, <1>4, <1>5 DEF KeptOK

\* A topic only grows.
LEMMA HappenedGrows ==
  ASSUME CInv, [Next]_vars
  PROVE  /\ \A t \in Types : Happened(t) \subseteq Happened(t)'
         /\ Topics => Topics'
         /\ kind' = kind /\ clock' >= clock
<1>. USE DEF worldVars
<1>0. log \in [Types -> Seq(Events)] /\ clock \in Nat
  BY DEF CInv, JInv, WorldOK
<1>1. ASSUME NEW t \in Types, NEW e, e.type = t \/ (log[t] # <<>> /\ e = Last(log[t])),
             log' = [log EXCEPT ![t] = Append(@, e)]
      PROVE  (\A u \in Types : Happened(u) \subseteq Happened(u)') /\ (Topics => Topics')
  <2>1. /\ \A u \in Types : u # t => log'[u] = log[u]
        /\ log'[t] = Append(log[t], e) /\ DOMAIN log[t] = 1..Len(log[t]) /\ Len(log[t]) \in Nat
    BY <1>0, <1>1
  <2>2. /\ DOMAIN log'[t] = 1..(Len(log[t]) + 1)
        /\ \A i \in 1..Len(log[t]) : log'[t][i] = log[t][i]
        /\ log'[t][Len(log[t]) + 1] = e
    BY <1>0, <2>1
  <2>3. Topics => e.type = t
    BY <1>0, <1>1 DEF Topics, Last
  <2>4. ASSUME NEW u \in Types PROVE Happened(u) \subseteq Happened(u)'
    <3>1. CASE u = t
      BY <2>1, <2>2, <3>1 DEF Happened
    <3>2. CASE u # t
      BY <2>1, <3>2 DEF Happened
    <3>. QED  BY <3>1, <3>2
  <2>5. ASSUME Topics, NEW u \in Types, NEW i \in DOMAIN log'[u] PROVE log'[u][i].type = u
    <3>1. CASE u = t
      <4>1. i \in 1..Len(log[t]) \/ i = Len(log[t]) + 1
        BY <2>1, <2>2, <2>5, <3>1
      <4>. QED  BY <2>1, <2>2, <2>3, <2>5, <3>1, <4>1 DEF Topics
    <3>2. CASE u # t
      BY <2>1, <2>5, <3>2 DEF Topics
    <3>. QED  BY <3>1, <3>2
  <2>. QED  BY <2>4, <2>5 DEF Topics
<1>2. ASSUME NEW e \in MayHappen[kind], Happen(e)
      PROVE  (\A u \in Types : Happened(u) \subseteq Happened(u)') /\ (Topics => Topics')
  <2>1. e.type \in Types
    BY CepAssumption DEF CInv, JInv, WorldOK, Types
  <2>. DEFINE f == [id |-> e.id, type |-> e.type, key |-> e.key, actor |-> e.actor, ts |-> clock]
  <2>2. log' = [log EXCEPT ![e.type] = Append(@, f)] /\ f.type = e.type
    BY <1>2 DEF Happen
  <2>. HIDE DEF f
  <2>. QED  BY <1>1, <2>1, <2>2
<1>3. ASSUME NEW t \in Types, Duplicate(t)
      PROVE  (\A u \in Types : Happened(u) \subseteq Happened(u)') /\ (Topics => Topics')
  <2>1. log[t] # <<>> /\ log' = [log EXCEPT ![t] = Append(@, Last(log[t]))]
    BY <1>3 DEF Duplicate
  <2>. QED  BY <1>1, <2>1
<1>4. ASSUME UNCHANGED log
      PROVE  (\A u \in Types : Happened(u) \subseteq Happened(u)') /\ (Topics => Topics')
  BY <1>4 DEF Happened, Topics
<1>5. kind' = kind /\ clock' >= clock
  <2>1. kind' = kind /\ (clock' = clock \/ Advance)
    BY DEF Next, vars, Happen, Duplicate, Read, Watermark, Checkpoint, Fail, Advance
  <2>. QED  BY <1>0, <2>1 DEF Advance
<1>6. (\A u \in Types : Happened(u) \subseteq Happened(u)') /\ (Topics => Topics')
  BY <1>2, <1>3, <1>4 DEF Next, vars, Read, Watermark, Checkpoint, Fail, Advance
<1>. QED  BY <1>5, <1>6

\* DInv is inductive, given CInv.
LEMMA NextDInv == CInv /\ DInv /\ [Next]_vars => DInv'
<1>. SUFFICES ASSUME CInv, DInv, [Next]_vars PROVE DInv'
  OBVIOUS
<1>. USE DEF worldVars
<1>0. CInv' /\ Topics' /\ kind \in Kinds /\ JobOK(job) /\ JobOK(saved)
  BY NextCInv, HappenedGrows DEF CInv, JInv, WorldOK, DInv
<1>1. ASSUME NEW j, JobOK(j), TimesOK(j), KeptOK(j) PROVE TimesOK(j)' /\ KeptOK(j)'
  <2>1. clock \in Nat /\ clock' \in Nat
    BY <1>0 DEF CInv, JInv, WorldOK
  <2>. QED  BY <1>0, <1>1, <2>1, HappenedGrows, KeptStays
<1>2. CASE UNCHANGED <<job, saved, sink, failures, epoch>>
  BY <1>0, <1>1, <1>2 DEF DInv, SinkAll, Run
<1>3. ASSUME NEW t \in Types, Read(t)
      PROVE  DInv'
  <2>. DEFINE e == log[t][job.read[t] + 1]
  <2>1. /\ e \in Events /\ e \in Happened(e.type)
    <3>1. log[t] \in Seq(Events) /\ job.read[t] \in Nat /\ job.read[t] < Len(log[t])
      BY <1>3 DEF Read, CInv, JInv, WorldOK, JobOK
    <3>2. job.read[t] + 1 \in DOMAIN log[t]
      BY <3>1
    <3>3. e.type = t
      BY <3>2 DEF DInv, Topics
    <3>. QED  BY <3>1, <3>2, <3>3 DEF Happened
  <2>2. job' = [Deduplicated(e) EXCEPT !.read[t] = @ + 1] /\ UNCHANGED <<saved, sink, failures, epoch>>
    BY <1>3 DEF Read
  <2>. HIDE DEF e
  <2>3. JobOK(job') /\ TimesOK(job') /\ KeptOK(job') /\ job'.emitted = job.emitted
    BY <1>0, <2>1, <2>2, ReadOK, ReadKept DEF DInv
  <2>4. SinkAll'
    BY <2>2, <2>3 DEF DInv, SinkAll, Run
  <2>. QED  BY <1>0, <1>1, <2>2, <2>3, <2>4 DEF DInv
<1>4. CASE Watermark
  <2>1. TimesOK(job') /\ KeptOK(job') /\ SinkAll' /\ saved' = saved
    BY <1>4, WatermarkDInv DEF Watermark
  <2>2. JobOK(job')
    <3>1. Candidate \in Nat
      BY <1>4, WatermarkFacts DEF CInv
    <3>2. AfterWatermark(job', Candidate)
      BY <1>0, <1>4 DEF Watermark, AfterWatermark, Past, JobOK
    <3>. QED  BY <1>0, <3>1, <3>2, WatermarkOK
  <2>. QED  BY <1>0, <1>1, <2>1, <2>2 DEF DInv
<1>5. CASE Checkpoint
  <2>1. saved' = job /\ epoch' = epoch + 1 /\ UNCHANGED <<job, sink, failures>>
    BY <1>5 DEF Checkpoint
  <2>2. SinkAll'
    <3>1. epoch \in Nat /\ \A a \in sink : a.epoch \in 0..epoch
      BY DEF CInv, SinkOK
    <3>2. \A a \in sink : a.epoch < epoch'
      BY <2>1, <3>1
    <3>. QED  BY <2>1, <3>2 DEF DInv, SinkAll
  <2>. QED  BY <1>0, <1>1, <2>1, <2>2 DEF DInv
<1>6. CASE Fail
  <2>1. PICK lost \in SUBSET {a \in sink : a.run = Run /\ a.epoch = epoch} : sink' = sink \ lost
    BY <1>6 DEF Fail
  <2>2. /\ failures' = Append(failures, epoch) /\ job' = saved /\ saved' = saved /\ epoch' = epoch
    BY <1>6 DEF Fail, Restored
  <2>3. SinkAll'
    <3>1. failures \in Seq(Nat) /\ epoch \in Nat /\ Run \in Nat /\ Run' = Run + 1
      BY <2>2 DEF CInv, SinkOK, Run
    <3>2. ASSUME NEW i \in saved.emitted
          PROVE  \E a \in sink' : a.id = i /\ a.run < Run'
      <4>1. PICK a \in sink : a.id = i /\ (a.run < Run \/ a.epoch < epoch)
        BY DEF DInv, SinkAll
      <4>2. a.run \in 0..Run /\ a.epoch \in 0..epoch
        BY DEF CInv, SinkOK
      <4>. QED  BY <2>1, <3>1, <4>1, <4>2
    <3>. QED  BY <2>2, <3>2 DEF SinkAll
  <2>. QED  BY <1>0, <1>1, <2>2, <2>3 DEF DInv
<1>. QED  BY <1>2, <1>3, <1>4, <1>5, <1>6 DEF Next, vars, Happen, Duplicate, Advance

\* Nothing has happened yet.
LEMMA InitDInv == Init => DInv
<1>. SUFFICES ASSUME Init PROVE DInv
  OBVIOUS
<1>1. TimesOK(InitialJob) /\ KeptOK(InitialJob)
  BY DEF InitialJob, TimesOK, KeptOK, WaitsKept, SequencesKept, ThreesKept, Taken, Done
<1>2. Topics
  BY DEF Init, Topics, Types
<1>3. job.emitted = {} /\ saved.emitted = {}
  BY DEF Init, InitialJob
<1>. QED  BY <1>1, <1>2, <1>3 DEF Init, DInv, SinkAll

\* Three members of a set of one are equal, three members that are a set of three differ.
LEMMA OneAndThree ==
  ASSUME NEW a, NEW b, NEW c, NEW S, S = {a, b, c}
  PROVE  /\ Cardinality(S) = 1 => a = b /\ a = c
         /\ Cardinality(S) = 3 => a # b /\ a # c /\ b # c
<1>1. IsFiniteSet({}) /\ Cardinality({}) = 0
  BY FS_EmptySet
<1>2. ASSUME NEW x, NEW y PROVE IsFiniteSet({x, y}) /\ Cardinality({x, y}) <= 2
  <2>1. IsFiniteSet({x}) /\ Cardinality({x}) = 1
    BY FS_Singleton
  <2>2. /\ IsFiniteSet({x} \cup {y})
        /\ Cardinality({x} \cup {y}) = IF y \in {x} THEN Cardinality({x}) ELSE Cardinality({x}) + 1
    BY <2>1, FS_AddElement
  <2>3. {x} \cup {y} = {x, y}
    OBVIOUS
  <2>. QED  BY <2>1, <2>2, <2>3
<1>3. ASSUME Cardinality({a, b, c}) = 1 PROVE a = b /\ a = c
  <2>1. {a, b, c} = {a, b} \cup {c}
    OBVIOUS
  <2>2. IsFiniteSet({a, b, c})
    <3>1. IsFiniteSet({a, b})
      BY <1>2
    <3>2. IsFiniteSet({a, b} \cup {c})
      BY <3>1, FS_AddElement
    <3>. QED  BY <2>1, <3>2
  <2>3. PICK x : {a, b, c} = {x}
    BY <1>3, <2>2, FS_Singleton
  <2>. QED  BY <2>3
<1>4. ASSUME Cardinality({a, b, c}) = 3, a = b \/ a = c \/ b = c PROVE FALSE
  <2>1. {a, b, c} = {a, b} \/ {a, b, c} = {a, c}
    BY <1>4
  <2>2. Cardinality({a, b}) <= 2 /\ Cardinality({a, c}) <= 2
    BY <1>2
  <2>. QED  BY <1>4, <2>1, <2>2
<1>. QED  BY <1>3, <1>4

\* Of every match whose time has come there is an alert.
LEMMA DInvComplete ==
  ASSUME CInv, DInv
  PROVE  NoneMissed
<1>. SUFFICES ASSUME NEW p \in Matches(job.heard, Happened("last")),
                     IF kind = "absence" THEN AlertOf(p).at < job.past ELSE AlertOf(p).at <= job.past
              PROVE  (\E a \in sink : a.id = AlertOf(p).id) \/ EndedFromBehind(p)
  BY DEF NoneMissed
<1>1. /\ kind \in Kinds /\ JobOK(job) /\ TimesOK(job) /\ KeptOK(job) /\ job.past \in Nat
      /\ \A i \in job.emitted : \E a \in sink : a.id = i
  BY DEF CInv, JInv, WorldOK, JobOK, DInv, SinkAll
<1>2. kind \in {"absence", "sequence", "three"}
  BY <1>1, CepAssumption
<1>3. ASSUME NEW e \in job.heard
      PROVE  /\ e \in Events /\ e.ts \in Nat /\ e.id \in Nat
             /\ e.ts <= job.past => e \in Done(job)
  BY <1>1, EventFacts DEF TimesOK, JobOK, Taken, Done
<1>4. CASE kind = "absence"
  <2>1. PICK e \in job.heard : /\ e.type = "first" /\ p = <<e>>
                               /\ ~ \E f \in Happened("last") : Ends(e, f)
    BY <1>4 DEF Matches, OfType, Ends
  <2>2. p[1] = e /\ AlertOf(p).id = <<e.key>> /\ AlertOf(p).at = e.ts + After
    BY <1>4, <2>1 DEF AlertOf
  <2>3. e.ts + After < job.past /\ After \in Nat
    BY <1>4, <2>2, CepAssumption
  <2>4. e \in Done(job)
    BY <1>1, <1>3, <2>3
  <2>5. <<e>> \notin job.open
    BY <1>1, <1>3, <1>4, <2>1, <2>2, <2>3 DEF TimesOK, Within
  <2>6. \/ <<e.key>> \in job.emitted
        \/ \E f \in job.behind : f.type = "last" /\ f.key = e.key
    BY <1>1, <1>4, <2>1, <2>4, <2>5 DEF KeptOK, WaitsKept
  <2>. QED  BY <1>1, <1>4, <2>2, <2>6 DEF EndedFromBehind
<1>5. CASE kind = "sequence"
  <2>1. PICK e \in job.heard, f \in job.heard :
          /\ e.type = "first" /\ f \in Happened("last") /\ p = <<e, f>>
          /\ p[1].key = p[2].key /\ Earlier(p[1], p[2]) /\ p[2].ts - p[1].ts < Span
    BY <1>5 DEF Matches, OfType
  <2>2. p[1] = e /\ p[2] = f /\ AlertOf(p).id = <<e.key>> /\ AlertOf(p).at = f.ts
    BY <1>5, <2>1 DEF AlertOf
  <2>3. f.type = "last"
    BY <2>1 DEF DInv, Topics, Happened, Types
  <2>4. f.ts <= job.past /\ Pair(e, f)
    BY <1>5, <2>1, <2>2 DEF Pair
  <2>5. e.ts <= job.past
    BY <1>1, <1>3, <2>4 DEF Pair, Earlier
  <2>6. <<e.key>> \in job.emitted
    BY <1>1, <1>3, <1>5, <2>1, <2>3, <2>4, <2>5 DEF KeptOK, SequencesKept
  <2>. QED  BY <1>1, <2>2, <2>6
<1>6. CASE kind = "three"
  <2>1. /\ p \in {<<a, b, c>> : a, b, c \in OfType(job.heard, "first")}
        /\ Cardinality({p[i].key : i \in 1..3}) = 1 /\ Cardinality({p[i].actor : i \in 1..3}) = 3
        /\ Earlier(p[1], p[2]) /\ Earlier(p[2], p[3]) /\ p[3].ts - p[1].ts < Span
    BY <1>6 DEF Matches
  <2>2. PICK e \in OfType(job.heard, "first"), f \in OfType(job.heard, "first"),
             g \in OfType(job.heard, "first") : p = <<e, f, g>>
    BY <2>1
  <2>3. e \in job.heard /\ f \in job.heard /\ g \in job.heard
    BY DEF OfType
  <2>4. /\ p[1] = e /\ p[2] = f /\ p[3] = g
        /\ AlertOf(p).id = <<e.key, e.ts>> /\ AlertOf(p).at = g.ts
    BY <1>6, <2>2 DEF AlertOf
  <2>5. /\ {p[i].key : i \in 1..3} = {e.key, f.key, g.key}
        /\ {p[i].actor : i \in 1..3} = {e.actor, f.actor, g.actor}
    BY <2>4
  <2>6. /\ e.key = f.key /\ e.key = g.key
        /\ e.actor # f.actor /\ e.actor # g.actor /\ f.actor # g.actor
    <3>1. Cardinality({e.key, f.key, g.key}) = 1 /\ Cardinality({e.actor, f.actor, g.actor}) = 3
      BY <2>1, <2>5
    <3>2. ASSUME NEW a, NEW b, NEW c, Cardinality({a, b, c}) = 1 PROVE a = b /\ a = c
      BY <3>2, OneAndThree
    <3>3. ASSUME NEW a, NEW b, NEW c, Cardinality({a, b, c}) = 3 PROVE a # b /\ a # c /\ b # c
      BY <3>3, OneAndThree
    <3>4. e.key = f.key /\ e.key = g.key
      BY <3>1, <3>2
    <3>. QED  BY <3>1, <3>3, <3>4
  <2>7. e.ts <= f.ts /\ f.ts <= g.ts /\ g.ts <= job.past
    BY <1>3, <1>6, <2>1, <2>4, <2>3 DEF Earlier
  <2>8. Triple(e, f, g)
    BY <1>3, <2>1, <2>4, <2>6, <2>7, <2>3, CepAssumption DEF Triple, Pair
  <2>9. e \in Done(job) /\ f \in Done(job) /\ g \in Done(job)
    BY <1>1, <1>3, <2>7, <2>3
  <2>10. <<e.key, e.ts>> \in job.emitted
    BY <1>1, <1>6, <2>8, <2>9 DEF KeptOK, ThreesKept
  <2>. QED  BY <1>1, <2>4, <2>10
<1>. QED  BY <1>2, <1>4, <1>5, <1>6

\* No match of events read in time is ever missed, for any events, periods,
\* checkpoints and failures, whatever order they are read in: each is in the topic
\* as soon as the job's time has reached it (the patterns, and the two
\* deduplicators of CepJobSupport, which could swallow one).
THEOREM SpecNoneMissed == Spec => []NoneMissed
<1>1. Init /\ [][Next]_vars => [](CInv /\ DInv)
  BY InitCInv, InitDInv, NextCInv, NextDInv, PTL
<1>. QED  BY <1>1, DInvComplete, PTL DEF Spec

=============================================================================
