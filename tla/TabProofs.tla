----------------------------- MODULE TabProofs -----------------------------
(***************************************************************************)
(* That a tab has one connection at most, is who it says it is and hears   *)
(* nothing that was sent to somebody else, for any roles and events, with  *)
(* and without StrictMode, and however the answers of the server, React's  *)
(* effects, the ends of sockets and the user's moves interleave.           *)
(*                                                                         *)
(* None of the three is inductive.  There is one connection because there  *)
(* is one effect that was not disposed of (One); it has the right token    *)
(* once the effects of the committed page ran (Fresh); and a session that  *)
(* logged out does not come back because each answer under way brings a    *)
(* session of its own (Sessions).                                          *)
(***************************************************************************)
EXTENDS Tab, FiniteSetTheorems, SequenceTheorems, TLAPS

Effect ==
  [token : Nat, mounted : BOOLEAN, disposed : BOOLEAN,
   ws : {"none", "connecting", "open", "closing"}, timer : BOOLEAN]

\* What an effect can be: nothing of it goes on once it was disposed of.
EffectOK(e) ==
  /\ e \in Effect
  /\ e.disposed => e.ws \in {"none", "closing"} /\ ~ e.timer
  /\ ~ e.disposed => e.ws # "closing"
  /\ e.timer => e.ws = "none"

\* One effect at most was not disposed of.
One(es) == \A i, j \in DOMAIN es : ~ es[i].disposed /\ ~ es[j].disposed => i = j

EffectsOK(es) ==
  /\ es \in Seq(Effect)
  /\ \A i \in DOMAIN es : EffectOK(es[i])
  /\ One(es)

\* Every answer is for a session that nobody had so far.
Sessions ==
  /\ asked \in Nat
  /\ session \in {NoSession} \cup [id : 1..asked, role : Roles]
  /\ stored = session
  /\ gone \subseteq 1..asked /\ session.id \notin gone
  /\ requests \subseteq [n : 1..asked, role : Roles \cup {"dashboard"}, mounted : BOOLEAN]
  /\ \A r \in requests : r.n # session.id /\ r.n \notin gone
  /\ \A r, q \in requests : r.n = q.n => r = q

Pages ==
  /\ page \in Roles \cup {"landing", "dashboard"}
  /\ page \in Roles => session.role = page
  /\ dash \in Nat

Feed == feed \in Seq([id : Events, to : Nat])

\* The one effect follows the page, but for effects that are due.
Fresh == ~ due => \A i \in DOMAIN effects : ~ effects[i].disposed => effects[i].token = ResolveToken

TInv == Sessions /\ Pages /\ Feed /\ EffectsOK(effects) /\ due \in BOOLEAN /\ Fresh

-----------------------------------------------------------------------------
(* Effects.                                                                *)

\* How many numbers of a finite set are up to one of them tells it from the others.
LEMMA Ranks ==
  ASSUME NEW S \in SUBSET Nat, IsFiniteSet(S)
  PROVE  /\ \A i \in S : Cardinality({j \in S : j <= i}) \in 1..Cardinality(S)
         /\ \A i, k \in S :
              Cardinality({j \in S : j <= i}) = Cardinality({j \in S : j <= k}) => i = k
<1>1. PICK n \in Nat : n = Cardinality(S)
  BY FS_CardinalityType
<1>2. PICK upto : upto = [i \in S |-> {j \in S : j <= i}]
  OBVIOUS
<1>3. ASSUME NEW i \in S
      PROVE  upto[i] \in SUBSET S /\ i \in upto[i] /\ IsFiniteSet(upto[i]) /\ Cardinality(upto[i]) \in 1..n
  <2>1. upto[i] \in SUBSET S /\ i \in upto[i]
    BY <1>2
  <2>2. IsFiniteSet(upto[i]) /\ Cardinality(upto[i]) <= n
    BY <1>1, <2>1, FS_Subset
  <2>3. Cardinality(upto[i]) \in Nat /\ Cardinality(upto[i]) # 0
    BY <2>1, <2>2, FS_CardinalityType, FS_EmptySet
  <2>4. QED
    BY <2>1, <2>2, <2>3
<1>4. ASSUME NEW i \in S, NEW j \in S, i < j PROVE Cardinality(upto[i]) # Cardinality(upto[j])
  <2>1. upto[i] \subseteq upto[j] /\ j \notin upto[i] /\ j \in upto[j]
    <3>1. i \in Nat /\ j \in Nat /\ \A x \in S : x \in Nat
      OBVIOUS
    <3>2. upto[i] = {x \in S : x <= i} /\ upto[j] = {x \in S : x <= j}
      BY <1>2
    <3>3. \A x \in S : x <= i => x <= j
      BY <1>4, <3>1
    <3>4. ~ (j <= i) /\ j <= j
      BY <1>4, <3>1
    <3>5. upto[i] \subseteq upto[j]
      BY <3>2, <3>3
    <3>6. QED
      BY <3>2, <3>4, <3>5
  <2>2. Cardinality(upto[i]) = Cardinality(upto[j]) => upto[i] = upto[j]
    <3>1. upto[i] \in SUBSET upto[j] /\ IsFiniteSet(upto[j])
      BY <1>3, <2>1
    <3>2. QED
      BY <3>1, FS_Subset
  <2>3. QED
    BY <2>1, <2>2
<1>5. ASSUME NEW i \in S, NEW k \in S, Cardinality(upto[i]) = Cardinality(upto[k]) PROVE i = k
  <2>1. ~ (i < k) /\ ~ (k < i)
    BY <1>4, <1>5
  <2>2. QED
    BY <2>1
<1>6. \A i \in S : upto[i] = {j \in S : j <= i}
  BY <1>2
<1>7. QED
  BY <1>1, <1>3, <1>5, <1>6

\* Each number is the n-th for some n, and there is one for each n.
LEMMA Nth ==
  ASSUME NEW S \in SUBSET Nat, IsFiniteSet(S), NEW k \in 1..Cardinality(S)
  PROVE  \E i \in S : Cardinality({j \in S : j <= i}) = k
<1>1. PICK n \in Nat : n = Cardinality(S)
  BY FS_CardinalityType
<1>2. PICK f : f = [i \in S |-> Cardinality({j \in S : j <= i})]
  OBVIOUS
<1>3. f \in Injection(S, 1..n)
  <2>1. f \in [S -> 1..n]
    BY <1>1, <1>2, Ranks
  <2>2. ASSUME NEW i \in S, NEW j \in S, f[i] = f[j] PROVE i = j
    BY <1>2, <2>2, Ranks
  <2>3. QED
    BY <2>1, <2>2 DEF Injection, IsInjective
<1>4. IsFiniteSet(1..n) /\ Cardinality(1..n) = n
  BY FS_Interval
<1>5. f \in Surjection(S, 1..n)
  BY <1>1, <1>3, <1>4, FS_Injection
<1>6. PICK i \in S : f[i] = k
  BY <1>1, <1>5 DEF Surjection
<1>7. QED
  BY <1>2, <1>6

\* Forgetting effects: those left were there, each once.
LEMMA PendingLeft ==
  ASSUME NEW es \in Seq(Effect)
  PROVE  /\ Pending(es) \in Seq(Effect)
         /\ \E h \in [DOMAIN Pending(es) -> DOMAIN es] :
              /\ \A k \in DOMAIN Pending(es) : Pending(es)[k] = es[h[k]]
              /\ \A k, l \in DOMAIN Pending(es) : h[k] = h[l] => k = l
<1>1. PICK left : left = {i \in DOMAIN es : ~ es[i].disposed \/ es[i].ws # "none" \/ es[i].timer}
  OBVIOUS
<1>2. left \in SUBSET Nat /\ left \subseteq DOMAIN es /\ IsFiniteSet(left)
  <2>1. DOMAIN es = 1..Len(es) /\ Len(es) \in Nat
    OBVIOUS
  <2>2. IsFiniteSet(1..Len(es))
    BY <2>1, FS_Interval
  <2>3. left \subseteq 1..Len(es)
    BY <1>1, <2>1
  <2>4. IsFiniteSet(left)
    BY <2>2, <2>3, FS_Subset
  <2>5. QED
    BY <2>1, <2>3, <2>4
<1>3. PICK n \in Nat : n = Cardinality(left)
  BY <1>2, FS_CardinalityType
<1>4. PICK h : h = [k \in 1..n |-> CHOOSE i \in left : Cardinality({j \in left : j <= i}) = k]
  OBVIOUS
<1>5. ASSUME NEW k \in 1..n PROVE h[k] \in left /\ Cardinality({j \in left : j <= h[k]}) = k
  <2>1. \E i \in left : Cardinality({j \in left : j <= i}) = k
    BY <1>2, <1>3, Nth
  <2>2. h[k] = CHOOSE i \in left : Cardinality({j \in left : j <= i}) = k
    BY <1>4
  <2>3. QED
    BY <2>1, <2>2
<1>6. Pending(es) = [k \in 1..n |-> es[h[k]]]
  <2>1. Pending(es) = [k \in 1..Cardinality(left) |->
                         es[CHOOSE i \in left : Cardinality({j \in left : j <= i}) = k]]
    BY <1>1 DEF Pending
  <2>2. QED
    BY <1>3, <1>4, <2>1
<1>7. \A k \in 1..n : es[h[k]] \in Effect /\ h[k] \in DOMAIN es
  <2>1. \A i \in DOMAIN es : es[i] \in Effect
    OBVIOUS
  <2>2. QED
    BY <1>2, <1>5, <2>1
<1>8. Pending(es) \in Seq(Effect) /\ DOMAIN Pending(es) = 1..n
  BY <1>6, <1>7
<1>9. h \in [1..n -> DOMAIN es]
  BY <1>4, <1>7
<1>10. \A k, l \in 1..n : h[k] = h[l] => k = l
  BY <1>5
<1>11. \A k \in 1..n : Pending(es)[k] = es[h[k]]
  BY <1>6
<1>12. QED
  BY <1>8, <1>9, <1>10, <1>11

\* Forgetting effects forgets none that was not disposed of.
LEMMA PendingKeeps ==
  ASSUME NEW es \in Seq(Effect), NEW i \in DOMAIN es, ~ es[i].disposed
  PROVE  \E k \in DOMAIN Pending(es) : Pending(es)[k] = es[i]
<1>1. PICK left : left = {j \in DOMAIN es : ~ es[j].disposed \/ es[j].ws # "none" \/ es[j].timer}
  OBVIOUS
<1>2. left \in SUBSET Nat /\ IsFiniteSet(left) /\ i \in left
  <2>1. DOMAIN es = 1..Len(es) /\ Len(es) \in Nat
    OBVIOUS
  <2>2. IsFiniteSet(1..Len(es)) /\ left \subseteq 1..Len(es) /\ i \in left
    BY <1>1, <2>1, FS_Interval
  <2>3. IsFiniteSet(left)
    BY <2>2, FS_Subset
  <2>4. QED
    BY <2>1, <2>2, <2>3
<1>3. PICK k : k = Cardinality({j \in left : j <= i})
  OBVIOUS
<1>4. /\ k \in 1..Cardinality(left)
      /\ \A l \in left : Cardinality({j \in left : j <= l}) = k => l = i
  <2>1. /\ \A l \in left : Cardinality({j \in left : j <= l}) \in 1..Cardinality(left)
        /\ \A l, m \in left :
             Cardinality({j \in left : j <= l}) = Cardinality({j \in left : j <= m}) => l = m
    BY <1>2, Ranks
  <2>2. QED
    BY <1>2, <1>3, <2>1
<1>5. (CHOOSE l \in left : Cardinality({j \in left : j <= l}) = k) = i
  BY <1>2, <1>3, <1>4
<1>6. Pending(es) = [n \in 1..Cardinality(left) |->
                       es[CHOOSE l \in left : Cardinality({j \in left : j <= l}) = n]]
  BY <1>1 DEF Pending
<1>7. QED
  BY <1>4, <1>5, <1>6

\* What is left is in order, and it is nothing new.
LEMMA PendingOK ==
  ASSUME NEW es, EffectsOK(es)
  PROVE  /\ EffectsOK(Pending(es))
         /\ \A k \in DOMAIN Pending(es) : \E i \in DOMAIN es : Pending(es)[k] = es[i]
<1>1. es \in Seq(Effect)
  BY DEF EffectsOK
<1>2. PICK h \in [DOMAIN Pending(es) -> DOMAIN es] :
        /\ \A k \in DOMAIN Pending(es) : Pending(es)[k] = es[h[k]]
        /\ \A k, l \in DOMAIN Pending(es) : h[k] = h[l] => k = l
  BY <1>1, PendingLeft
<1>3. Pending(es) \in Seq(Effect)
  BY <1>1, PendingLeft
<1>4. \A k \in DOMAIN Pending(es) : h[k] \in DOMAIN es /\ EffectOK(Pending(es)[k])
  BY <1>2 DEF EffectsOK
<1>5. One(Pending(es))
  BY <1>2, <1>4 DEF EffectsOK, One
<1>6. QED
  BY <1>2, <1>3, <1>4, <1>5 DEF EffectsOK

\* An effect that was disposed of is one.
LEMMA DisposeOK ==
  ASSUME NEW e, EffectOK(e)
  PROVE  EffectOK(Dispose(e)) /\ Dispose(e).disposed
  BY DEF EffectOK, Effect, Dispose

\* The same effects, some of them disposed of or gone from the page.
LEMMA FewerOK ==
  ASSUME EffectsOK(effects), NEW es, DOMAIN es = DOMAIN effects,
         \A i \in DOMAIN effects : EffectOK(es[i]) /\ (~ es[i].disposed => ~ effects[i].disposed),
         es = [i \in DOMAIN es |-> es[i]]
  PROVE  EffectsOK(es)
<1>1. es \in Seq(Effect)
  <2>1. DOMAIN es = 1..Len(effects) /\ Len(effects) \in Nat
    BY DEF EffectsOK
  <2>2. \A i \in 1..Len(effects) : es[i] \in Effect
    BY <2>1 DEF EffectOK
  <2>3. QED
    BY <2>1, <2>2
<1>2. One(es)
  BY DEF EffectsOK, One
<1>3. QED
  BY <1>1, <1>2 DEF EffectsOK

\* Another effect, when all others were disposed of or the new one is.
LEMMA AnotherOK ==
  ASSUME NEW es, EffectsOK(es), NEW e, EffectOK(e),
         e.disposed \/ \A i \in DOMAIN es : es[i].disposed
  PROVE  /\ EffectsOK(es \o <<e>>)
         /\ \A i \in DOMAIN (es \o <<e>>) :
              (es \o <<e>>)[i] = e \/ \E j \in DOMAIN es : (es \o <<e>>)[i] = es[j]
<1>1. es \in Seq(Effect) /\ e \in Effect
  BY DEF EffectsOK, EffectOK
<1>2. /\ es \o <<e>> \in Seq(Effect) /\ Len(es) \in Nat
      /\ DOMAIN es = 1..Len(es) /\ DOMAIN (es \o <<e>>) = 1..Len(es) + 1
      /\ \A i \in 1..Len(es) : (es \o <<e>>)[i] = es[i]
      /\ (es \o <<e>>)[Len(es) + 1] = e
  BY <1>1
<1>3. \A i \in 1..Len(es) + 1 : i \in 1..Len(es) \/ i = Len(es) + 1
  BY <1>2
<1>4. \A i \in DOMAIN (es \o <<e>>) : EffectOK((es \o <<e>>)[i])
  BY <1>2, <1>3 DEF EffectsOK
<1>5. One(es \o <<e>>)
  BY <1>2, <1>3 DEF EffectsOK, One
<1>6. QED
  BY <1>2, <1>3, <1>4, <1>5 DEF EffectsOK

\* The token the page wants is a number.
LEMMA TokenNat == Sessions /\ Pages => ResolveToken \in Nat /\ session.id \in Nat
  BY DEF Sessions, Pages, ResolveToken, NoSession

\* What goes on once React ran the effects: one went on before or was just started.
GoesOn(e) ==
  /\ e.token = ResolveToken
  /\ e = Started(ResolveToken) \/ \E i \in DOMAIN effects : e = effects[i]

\* The effects that are left when React ran all of them, the last one just started.
LEMMA StartedLast ==
  ASSUME NEW es, EffectsOK(es), \A i \in DOMAIN es : es[i].disposed,
         NEW e, EffectOK(e), GoesOn(e), ~ e.disposed
  PROVE  /\ EffectsOK(es \o <<e>>)
         /\ \A i \in DOMAIN (es \o <<e>>) : ~ (es \o <<e>>)[i].disposed => GoesOn((es \o <<e>>)[i])
         /\ \E i \in DOMAIN (es \o <<e>>) : ~ (es \o <<e>>)[i].disposed
<1>1. PICK all : all = es \o <<e>>
  OBVIOUS
<1>2. /\ EffectsOK(all)
      /\ \A i \in DOMAIN all : all[i] = e \/ \E j \in DOMAIN es : all[i] = es[j]
  <2>1. /\ EffectsOK(es \o <<e>>)
        /\ \A i \in DOMAIN (es \o <<e>>) :
             (es \o <<e>>)[i] = e \/ \E j \in DOMAIN es : (es \o <<e>>)[i] = es[j]
    BY AnotherOK
  <2>2. QED
    BY <1>1, <2>1
<1>3. ASSUME NEW i \in DOMAIN all, ~ all[i].disposed PROVE GoesOn(all[i])
  <2>1. all[i] = e
    BY <1>2, <1>3
  <2>2. QED
    BY <2>1
<1>4. \E i \in DOMAIN all : ~ all[i].disposed
  <2>1. es \in Seq(Effect) /\ e \in Effect
    BY DEF EffectsOK, EffectOK
  <2>2. Len(es) + 1 \in DOMAIN all /\ all[Len(es) + 1] = e
    BY <1>1, <2>1
  <2>3. QED
    BY <2>2
<1>5. QED
  BY <1>1, <1>2, <1>3, <1>4

\* Before the effects that are over are forgotten, one at most goes on, it has the
\* page's token, and a page that uses a socket has one.
LEMMA Flushing ==
  ASSUME EffectsOK(effects), ResolveToken \in Nat
  PROVE  \E es : /\ EffectsOK(es) /\ Flushed = Pending(es)
                 /\ \A i \in DOMAIN es : ~ es[i].disposed => GoesOn(es[i])
                 /\ UsesSocket => \E i \in DOMAIN es : ~ es[i].disposed
<1> DEFINE Fit(es) == EffectsOK(es) /\ \A i \in DOMAIN es : ~ es[i].disposed => GoesOn(es[i])
           Some(es) == \E i \in DOMAIN es : ~ es[i].disposed
<1>1. PICK kept : kept = [i \in DOMAIN effects |->
                            IF Stale(effects[i]) THEN Dispose(effects[i]) ELSE effects[i]]
  OBVIOUS
<1>2. \A i \in DOMAIN effects :
        /\ EffectOK(kept[i])
        /\ ~ kept[i].disposed => /\ kept[i] = effects[i] /\ ~ effects[i].disposed
                                 /\ Running(effects[i]) /\ effects[i].token = ResolveToken
  <2>1. ASSUME NEW i \in DOMAIN effects
        PROVE  /\ EffectOK(kept[i])
               /\ ~ kept[i].disposed => /\ kept[i] = effects[i] /\ ~ effects[i].disposed
                                        /\ Running(effects[i]) /\ effects[i].token = ResolveToken
    <3>1. EffectOK(effects[i])
      BY DEF EffectsOK
    <3>2. CASE Stale(effects[i])
      BY <1>1, <3>1, <3>2, DisposeOK
    <3>3. CASE ~ Stale(effects[i])
      BY <1>1, <3>1, <3>3 DEF Stale, Running
    <3>4. QED
      BY <3>2, <3>3
  <2>2. QED
    BY <2>1
<1>3. Fit(kept)
  <2>1. DOMAIN kept = DOMAIN effects /\ kept = [i \in DOMAIN kept |-> kept[i]]
    BY <1>1
  <2>2. EffectsOK(kept)
    BY <1>2, <2>1, FewerOK
  <2>3. QED
    BY <1>2, <2>1, <2>2 DEF GoesOn
<1>4. PICK fresh : fresh = Started(ResolveToken)
  OBVIOUS
<1>5. /\ EffectOK(fresh) /\ GoesOn(fresh) /\ ~ fresh.disposed
      /\ EffectOK(Dispose(fresh)) /\ Dispose(fresh).disposed
  <2>1. EffectOK(fresh) /\ GoesOn(fresh) /\ ~ fresh.disposed
    BY <1>4 DEF Started, Connect, EffectOK, Effect, GoesOn
  <2>2. QED
    BY <2>1, DisposeOK
<1>6. PICK new : /\ Flushed = Pending(kept \o new)
                 /\ \/ new = <<>> /\ (UsesSocket => \E i \in DOMAIN effects : Running(effects[i]))
                    \/ /\ ~ \E i \in DOMAIN effects : Running(effects[i])
                       /\ new \in {<<Dispose(fresh), fresh>>, <<fresh>>}
  <2> DEFINE mounting == \A i \in DOMAIN effects : ~ effects[i].mounted \/ effects[i].disposed
             n == IF ~ UsesSocket \/ \E i \in DOMAIN effects : Running(effects[i]) THEN <<>>
                  ELSE IF mounting /\ Strict THEN <<Dispose(fresh), fresh>>
                  ELSE <<fresh>>
  <2>1. Flushed = Pending(kept \o n)
    BY <1>1, <1>4 DEF Flushed
  <2>2. \/ n = <<>> /\ (UsesSocket => \E i \in DOMAIN effects : Running(effects[i]))
        \/ /\ ~ \E i \in DOMAIN effects : Running(effects[i])
           /\ n \in {<<Dispose(fresh), fresh>>, <<fresh>>}
    OBVIOUS
  <2> HIDE DEF n
  <2>3. QED
    BY <2>1, <2>2
<1>7. Fit(kept \o new) /\ (UsesSocket => Some(kept \o new))
  <2>1. kept \in Seq(Effect)
    BY <1>3 DEF EffectsOK
  <2>2. CASE new = <<>>
    <3>1. kept \o new = kept
      BY <2>1, <2>2
    <3>2. \A i \in DOMAIN effects : Running(effects[i]) => i \in DOMAIN kept /\ ~ kept[i].disposed
      BY <1>1 DEF Running
    <3>3. UsesSocket => Some(kept)
      BY <1>6, <2>2, <3>2
    <3>4. QED
      BY <1>3, <3>1, <3>3
  <2>3. CASE ~ \E i \in DOMAIN effects : Running(effects[i])
    <3>1. \A i \in DOMAIN kept : kept[i].disposed
      BY <1>1, <1>2, <2>3
    <3>2. Fit(kept \o <<fresh>>) /\ Some(kept \o <<fresh>>)
      BY <1>3, <1>5, <3>1, StartedLast
    <3>3. PICK closing : closing = kept \o <<Dispose(fresh)>>
      OBVIOUS
    <3>4. EffectsOK(closing) /\ \A i \in DOMAIN closing : closing[i].disposed
      <4>1. /\ EffectsOK(closing)
            /\ \A i \in DOMAIN closing :
                 closing[i] = Dispose(fresh) \/ \E j \in DOMAIN kept : closing[i] = kept[j]
        <5>1. PICK d : d = Dispose(fresh)
          OBVIOUS
        <5>2. EffectOK(d) /\ d.disposed /\ EffectsOK(kept) /\ closing = kept \o <<d>>
          BY <1>3, <1>5, <3>3, <5>1
        <5>3. /\ EffectsOK(kept \o <<d>>)
              /\ \A i \in DOMAIN (kept \o <<d>>) :
                   (kept \o <<d>>)[i] = d \/ \E j \in DOMAIN kept : (kept \o <<d>>)[i] = kept[j]
          BY <5>2, AnotherOK
        <5>4. QED
          BY <5>1, <5>2, <5>3
      <4>2. QED
        BY <1>5, <3>1, <4>1
    <3>5. Fit(closing \o <<fresh>>) /\ Some(closing \o <<fresh>>)
      BY <1>5, <3>4, StartedLast
    <3>6. closing \o <<fresh>> = kept \o <<Dispose(fresh), fresh>>
      <4>1. fresh \in Effect /\ Dispose(fresh) \in Effect
        BY <1>5 DEF EffectOK
      <4>2. QED
        BY <2>1, <3>3, <4>1
    <3> HIDE DEF Fit, Some
    <3>7. QED
      BY <1>3, <1>6, <2>2, <3>2, <3>5, <3>6
  <2> HIDE DEF Fit, Some
  <2>4. QED
    BY <1>6, <2>2, <2>3
<1>8. QED
  BY <1>6, <1>7

\* After React ran the effects one at most goes on, and it has the page's token.
LEMMA FlushedOK ==
  ASSUME EffectsOK(effects), ResolveToken \in Nat
  PROVE  /\ EffectsOK(Flushed)
         /\ \A k \in DOMAIN Flushed : ~ Flushed[k].disposed => Flushed[k].token = ResolveToken
<1>1. PICK es : /\ EffectsOK(es) /\ Flushed = Pending(es)
                /\ \A i \in DOMAIN es : ~ es[i].disposed => GoesOn(es[i])
  BY Flushing
<1>2. EffectsOK(Flushed) /\ \A k \in DOMAIN Flushed : \E i \in DOMAIN es : Flushed[k] = es[i]
  BY <1>1, PendingOK
<1>3. QED
  BY <1>1, <1>2 DEF GoesOn

\* One effect changed: what the browser reports to it, or its timer.
LEMMA SetEffectOK ==
  ASSUME EffectsOK(effects), NEW i \in DOMAIN effects, NEW e, EffectOK(e),
         e.disposed = effects[i].disposed, e.token = effects[i].token, SetEffect(i, e)
  PROVE  /\ EffectsOK(effects')
         /\ \A k \in DOMAIN effects' : \E j \in DOMAIN effects :
              /\ effects'[k].disposed = effects[j].disposed
              /\ effects'[k].token = effects[j].token
<1>1. PICK es : es = [effects EXCEPT ![i] = e]
  OBVIOUS
<1>2. /\ DOMAIN es = DOMAIN effects /\ es = [j \in DOMAIN es |-> es[j]]
      /\ \A j \in DOMAIN effects : es[j] = IF j = i THEN e ELSE effects[j]
  BY <1>1 DEF EffectsOK
<1>3. EffectsOK(es)
  <2>1. \A j \in DOMAIN effects : EffectOK(es[j]) /\ (~ es[j].disposed => ~ effects[j].disposed)
    BY <1>2 DEF EffectsOK
  <2>2. QED
    BY <1>2, <2>1, FewerOK
<1>4. effects' = Pending(es)
  BY <1>1 DEF SetEffect
<1>5. EffectsOK(effects') /\ \A k \in DOMAIN effects' : \E j \in DOMAIN es : effects'[k] = es[j]
  BY <1>3, <1>4, PendingOK
<1>6. \A j \in DOMAIN es : j \in DOMAIN effects /\ es[j].disposed = effects[j].disposed
                                             /\ es[j].token = effects[j].token
  BY <1>2
<1>7. QED
  BY <1>5, <1>6

\* Another page is committed: its effects are due, those of the old page are gone.
LEMMA EnterOK ==
  ASSUME EffectsOK(effects), NEW p, Enter(p)
  PROVE  EffectsOK(effects')
<1>1. effects' = [i \in DOMAIN effects |-> [effects[i] EXCEPT !.mounted = FALSE]]
  BY DEF Enter
<1>2. PICK es : es = effects'
  OBVIOUS
<1>3. DOMAIN es = DOMAIN effects /\ es = [i \in DOMAIN es |-> es[i]]
  BY <1>1, <1>2
<1>4. \A i \in DOMAIN effects : EffectOK(es[i]) /\ (~ es[i].disposed => ~ effects[i].disposed)
  <2>1. ASSUME NEW i \in DOMAIN effects
        PROVE  EffectOK(es[i]) /\ (~ es[i].disposed => ~ effects[i].disposed)
    <3>1. EffectOK(effects[i]) /\ es[i] = [effects[i] EXCEPT !.mounted = FALSE]
      BY <1>1, <1>2 DEF EffectsOK
    <3>2. QED
      BY <3>1 DEF EffectOK, Effect
  <2>2. QED
    BY <2>1
<1>5. QED
  BY <1>2, <1>3, <1>4, FewerOK

-----------------------------------------------------------------------------
(* The steps.                                                              *)

\* No effects at all.
LEMMA NoEffects == EffectsOK(<<>>)
  BY DEF EffectsOK, One

\* The tab is opened.
LEMMA InitTInv == Init => TInv
<1> SUFFICES ASSUME Init PROVE TInv
  OBVIOUS
<1>1. Sessions
  BY DEF Init, Sessions
<1>2. Pages
  BY RolesAssumption DEF Init, Pages
<1>3. Feed /\ EffectsOK(effects) /\ due \in BOOLEAN /\ Fresh
  <2>1. effects = <<>> /\ feed = <<>> /\ due = FALSE
    BY DEF Init
  <2>2. Feed
    BY <2>1 DEF Feed
  <2>3. Fresh
    BY <2>1 DEF Fresh
  <2>4. QED
    BY <2>1, <2>2, <2>3, NoEffects
<1>4. QED
  BY <1>1, <1>2, <1>3 DEF TInv

\* Some requests that were under way, perhaps with nobody left who waits for them.
LEMMA FewerRequests ==
  ASSUME Sessions, NEW rs \in SUBSET requests
  PROVE  /\ Left(rs) \subseteq [n : 1..asked, role : Roles \cup {"dashboard"}, mounted : BOOLEAN]
         /\ \A q \in Left(rs) : \E r \in rs : q.n = r.n /\ q.role = r.role
         /\ \A q, r \in Left(rs) : q.n = r.n => q = r
<1>1. \A r \in rs : /\ r \in [n : 1..asked, role : Roles \cup {"dashboard"}, mounted : BOOLEAN]
                    /\ \A q \in rs : q.n = r.n => q = r
  BY DEF Sessions
<1>2. \A q \in Left(rs) : \E r \in rs : q = [r EXCEPT !.mounted = FALSE]
  BY DEF Left
<1>3. \A r \in rs : LET q == [r EXCEPT !.mounted = FALSE]
                    IN  /\ q \in [n : 1..asked, role : Roles \cup {"dashboard"}, mounted : BOOLEAN]
                        /\ q.n = r.n /\ q.role = r.role
  BY <1>1
<1>4. QED
  BY <1>1, <1>2, <1>3

\* The server is asked for one more session.
LEMMA AskedOK ==
  ASSUME Sessions, NEW role \in Roles \cup {"dashboard"}, CreateSession(role),
         UNCHANGED <<session, stored, gone>>
  PROVE  Sessions'
<1>1. asked \in Nat /\ asked' = asked + 1 /\ 1..asked \subseteq 1..asked' /\ asked' \in 1..asked'
  BY DEF Sessions, CreateSession
<1>2. PICK new : new = [n |-> asked', role |-> role, mounted |-> TRUE] /\ requests' = requests \cup {new}
  BY <1>1 DEF CreateSession
<1>3. session.id \in 0..asked /\ asked' \notin gone /\ asked' # session.id
      /\ \A r \in requests : r.n # asked'
  BY <1>1 DEF Sessions, NoSession
<1>4. \A r \in requests' : /\ r \in [n : 1..asked', role : Roles \cup {"dashboard"}, mounted : BOOLEAN]
                           /\ r.n # session.id /\ r.n \notin gone
                           /\ r \in requests \/ r = new
  <2>1. ASSUME NEW r \in requests
        PROVE  /\ r \in [n : 1..asked', role : Roles \cup {"dashboard"}, mounted : BOOLEAN]
               /\ r.n # session.id /\ r.n \notin gone
    <3>1. /\ r \in [n : 1..asked, role : Roles \cup {"dashboard"}, mounted : BOOLEAN]
          /\ r.n # session.id /\ r.n \notin gone
      BY DEF Sessions
    <3>2. QED
      BY <1>1, <3>1
  <2>2. /\ new \in [n : 1..asked', role : Roles \cup {"dashboard"}, mounted : BOOLEAN]
        /\ new.n = asked'
    BY <1>1, <1>2
  <2>3. QED
    BY <1>2, <1>3, <2>1, <2>2
<1>5. \A r, q \in requests' : r.n = q.n => r = q
  BY <1>2, <1>3, <1>4 DEF Sessions
<1>6. session \in {NoSession} \cup [id : 1..asked', role : Roles] /\ gone \subseteq 1..asked'
  BY <1>1 DEF Sessions
<1>7. QED
  BY <1>1, <1>4, <1>5, <1>6 DEF Sessions

\* A role is chosen on Landing.
LEMMA SubmitTInv ==
  ASSUME TInv, NEW role \in Roles, Submit(role)
  PROVE  TInv'
<1>1. Sessions'
  BY AskedOK DEF TInv, Submit
<1>2. UNCHANGED <<session, stored, page, due, dash, effects, feed, gone>>
  BY DEF Submit
<1>3. QED
  BY <1>1, <1>2 DEF TInv, Pages, Feed, Fresh, ResolveToken

\* The answer to a log-in: its session was nobody's.
LEMMA LoginTInv ==
  ASSUME TInv, NEW r \in requests, LoginAnswers(r)
  PROVE  TInv'
<1>1. /\ r \in [n : 1..asked, role : Roles \cup {"dashboard"}, mounted : BOOLEAN] /\ r.role \in Roles
      /\ r.n \notin gone
  BY DEF TInv, Sessions, LoginAnswers
<1>2. /\ session' = [id |-> r.n, role |-> r.role] /\ stored' = session'
      /\ UNCHANGED <<asked, feed, gone>>
  BY DEF LoginAnswers, SetSession, WriteSession
<1>3. requests' = requests \ {r} \/ requests' = Left(requests \ {r})
  BY DEF LoginAnswers
<1>4. \A q \in requests \ {r} : q.n # r.n
  BY DEF TInv, Sessions
<1>5. /\ requests' \subseteq [n : 1..asked, role : Roles \cup {"dashboard"}, mounted : BOOLEAN]
      /\ \A q \in requests' : q.n # r.n /\ q.n \notin gone
      /\ \A q, s \in requests' : q.n = s.n => q = s
  <2>1. CASE requests' = requests \ {r}
    BY <1>4, <2>1 DEF TInv, Sessions
  <2>2. CASE requests' = Left(requests \ {r})
    <3>1. /\ requests' \subseteq [n : 1..asked, role : Roles \cup {"dashboard"}, mounted : BOOLEAN]
          /\ \A q \in requests' : \E s \in requests \ {r} : q.n = s.n
          /\ \A q, s \in requests' : q.n = s.n => q = s
      <4>1. requests \ {r} \in SUBSET requests /\ Sessions
        BY DEF TInv
      <4>2. PICK rs \in SUBSET requests : rs = requests \ {r}
        BY <4>1
      <4>3. /\ Left(rs) \subseteq [n : 1..asked, role : Roles \cup {"dashboard"}, mounted : BOOLEAN]
            /\ \A q \in Left(rs) : \E s \in rs : q.n = s.n /\ q.role = s.role
            /\ \A q, s \in Left(rs) : q.n = s.n => q = s
        BY <4>1, FewerRequests
      <4>4. requests' = Left(rs)
        BY <2>2, <4>2
      <4>5. \A q \in requests' : \E s \in requests \ {r} : q.n = s.n
        BY <4>2, <4>3, <4>4
      <4>6. QED
        BY <4>3, <4>4, <4>5, Zenon
    <3>2. QED
      BY <1>4, <3>1 DEF TInv, Sessions
  <2>3. QED
    BY <1>3, <2>1, <2>2
<1>6. Sessions'
  BY <1>1, <1>2, <1>5 DEF TInv, Sessions
<1>7. due'
  BY DEF LoginAnswers, Enter
<1>8. Pages' /\ EffectsOK(effects')
  <2>1. CASE page = r.role
    <3>1. UNCHANGED <<page, dash, effects>>
      BY <2>1 DEF LoginAnswers
    <3>2. QED
      BY <1>2, <2>1, <3>1 DEF TInv, Pages
  <2>2. CASE Enter(r.role)
    <3>1. page' = r.role /\ dash' = 0 /\ EffectsOK(effects')
      BY <2>2, EnterOK DEF TInv, Enter
    <3>2. QED
      BY <1>1, <1>2, <3>1 DEF Pages
  <2>3. CASE Enter("landing")
    <3>1. page' = "landing" /\ dash' = 0 /\ EffectsOK(effects')
      BY <2>3, EnterOK DEF TInv, Enter
    <3>2. QED
      BY <3>1, RolesAssumption DEF Pages
  <2>4. QED
    BY <2>1, <2>2, <2>3 DEF LoginAnswers
<1>9. QED
  BY <1>2, <1>6, <1>7, <1>8 DEF TInv, Feed, Fresh

\* A request failed, or the dashboard has its token.
LEMMA AnswerTInv ==
  ASSUME TInv, NEW r \in requests, RequestFails(r) \/ DashAnswers(r)
  PROVE  TInv'
<1>1. /\ requests' = requests \ {r} /\ UNCHANGED <<session, stored, page, asked, effects, feed, gone>>
      /\ \/ UNCHANGED <<dash, due>>
         \/ dash' = r.n /\ due'
  BY DEF RequestFails, DashAnswers
<1>2. Sessions'
  BY <1>1 DEF TInv, Sessions
<1>3. r.n \in Nat
  BY DEF TInv, Sessions
<1>4. Pages' /\ Fresh' /\ due' \in BOOLEAN
  BY <1>1, <1>3 DEF TInv, Pages, Fresh, ResolveToken, DashAnswers
<1>5. QED
  BY <1>1, <1>2, <1>4 DEF TInv, Feed

\* A link or the browser's history: RequireRole lets nobody in.
LEMMA GoToTInv ==
  ASSUME TInv, NEW p \in Roles \cup {"landing", "dashboard"}, GoTo(p)
  PROVE  TInv'
<1>1. /\ Enter(RequireRole(p, session)) /\ requests' = Left(requests)
      /\ UNCHANGED <<session, stored, asked, feed, gone>>
  BY DEF GoTo
<1>2. page' = RequireRole(p, session) /\ dash' = 0 /\ due'
  BY <1>1 DEF Enter
<1>3. EffectsOK(effects')
  BY <1>1, EnterOK DEF TInv
<1>4. Pages'
  BY <1>1, <1>2, RolesAssumption DEF Pages, RequireRole
<1>5. Sessions'
  <2>1. /\ requests' \subseteq [n : 1..asked, role : Roles \cup {"dashboard"}, mounted : BOOLEAN]
        /\ \A q \in requests' : \E s \in requests : q.n = s.n
        /\ \A q, s \in requests' : q.n = s.n => q = s
    BY <1>1, FewerRequests DEF TInv
  <2>2. QED
    BY <1>1, <2>1 DEF TInv, Sessions
<1>6. QED
  BY <1>1, <1>2, <1>3, <1>4, <1>5 DEF TInv, Feed, Fresh

\* React runs the effects: whatever goes on has the token of the page.
LEMMA RunEffectsTInv ==
  ASSUME TInv, RunEffects
  PROVE  TInv'
<1>1. /\ due' = FALSE /\ effects' = Flushed
      /\ UNCHANGED <<session, stored, page, dash, feed, gone>>
      /\ CreateSession("dashboard") \/ UNCHANGED <<asked, requests>>
  BY DEF RunEffects, RequestFreshDashboardToken
<1>2. Sessions'
  BY <1>1, AskedOK DEF TInv, Sessions
<1>3. EffectsOK(Flushed) /\ \A k \in DOMAIN Flushed : ~ Flushed[k].disposed => Flushed[k].token = ResolveToken
  BY TokenNat, FlushedOK DEF TInv
<1>4. EffectsOK(effects') /\ Fresh'
  BY <1>1, <1>3 DEF Fresh, ResolveToken
<1>5. QED
  BY <1>1, <1>2, <1>4 DEF TInv, Pages, Feed

\* Logging out: the session is gone and everything is disposed of at once.
LEMMA LogoutTInv ==
  ASSUME TInv, Logout
  PROVE  TInv'
<1>1. /\ page \in Roles /\ gone' = gone \cup {session.id} /\ session' = NoSession /\ stored' = NoSession
      /\ page' = "landing"
      /\ effects' = Pending([i \in DOMAIN effects |-> Dispose(effects[i])])
      /\ UNCHANGED <<due, requests, asked, dash, feed>>
  BY DEF Logout, ClearSession, ClearStoredSession
<1>2. session.id \in 1..asked
  <2>1. session.role \in Roles /\ NoSession.role = "none" /\ "none" \notin Roles
    BY <1>1, RolesAssumption DEF TInv, Pages, NoSession
  <2>2. session \in [id : 1..asked, role : Roles]
    BY <2>1 DEF TInv, Sessions
  <2>3. QED
    BY <2>2
<1>3. Sessions'
  <2>1. /\ \A r \in requests : r.n \in 1..asked /\ r.n # session.id /\ r.n \notin gone
        /\ gone \subseteq 1..asked /\ asked \in Nat
    BY DEF TInv, Sessions
  <2>2. gone' \subseteq 1..asked /\ 0 \notin gone' /\ \A r \in requests : r.n \notin gone' /\ r.n # 0
    <3>1. gone' \subseteq 1..asked /\ 0 \notin 1..asked
      <4>1. gone' = gone \cup {session.id} /\ gone \subseteq 1..asked /\ asked \in Nat
        BY <1>1, <2>1
      <4>2. gone' \subseteq 1..asked
        BY <1>2, <4>1, Zenon
      <4>3. 0 \notin 1..asked
        BY <4>1
      <4>4. QED
        BY <4>2, <4>3
    <3>2. ASSUME NEW r \in requests PROVE r.n \notin gone' /\ r.n # 0
      BY <1>1, <2>1, <3>1
    <3>3. QED
      BY <3>1, <3>2
  <2>3. NoSession.id = 0
    BY DEF NoSession
  <2>4. QED
    BY <1>1, <2>2, <2>3 DEF TInv, Sessions
<1>4. Pages'
  BY <1>1, RolesAssumption DEF TInv, Pages
<1>5. EffectsOK(effects') /\ \A k \in DOMAIN effects' : effects'[k].disposed
  <2>1. PICK es : es = [i \in DOMAIN effects |-> Dispose(effects[i])]
    OBVIOUS
  <2>2. DOMAIN es = DOMAIN effects /\ es = [i \in DOMAIN es |-> es[i]]
    BY <2>1
  <2>3. \A i \in DOMAIN effects : EffectOK(es[i]) /\ es[i].disposed
    BY <2>1, DisposeOK DEF TInv, EffectsOK
  <2>4. EffectsOK(es)
    BY <2>2, <2>3, FewerOK DEF TInv
  <2>5. effects' = Pending(es)
    BY <1>1, <2>1
  <2>6. EffectsOK(effects') /\ \A k \in DOMAIN effects' : \E i \in DOMAIN es : effects'[k] = es[i]
    BY <2>4, <2>5, PendingOK
  <2>7. QED
    BY <2>2, <2>3, <2>6
<1>6. QED
  BY <1>1, <1>3, <1>4, <1>5 DEF TInv, Feed, Fresh

\* The page is loaded again: it finds the session in the storage.
LEMMA ReloadTInv ==
  ASSUME TInv, Reload
  PROVE  TInv'
<1>1. /\ session' = session /\ page' = RequireRole(page, session) /\ due' = TRUE /\ dash' = 0
      /\ requests' = {} /\ effects' = <<>> /\ feed' = <<>>
      /\ UNCHANGED <<stored, asked, gone>>
  BY DEF Reload, ReadSession, TInv, Sessions
<1>2. Sessions'
  BY <1>1 DEF TInv, Sessions
<1>3. Pages'
  BY <1>1, RolesAssumption DEF TInv, Pages, RequireRole
<1>4. QED
  BY <1>1, <1>2, <1>3, NoEffects DEF TInv, Feed, Fresh

\* The browser reports something to an effect: it is still for the same token, and
\* one that was disposed of stays so.
LEMMA ReportTInv ==
  ASSUME TInv, NEW i \in DOMAIN effects, onopen(i) \/ onclose(i) \/ Reconnect(i)
  PROVE  TInv'
<1>1. UNCHANGED <<session, stored, page, due, requests, asked, dash, feed, gone>>
  BY DEF onopen, onclose, Reconnect
<1>2. EffectOK(effects[i])
  BY DEF TInv, EffectsOK
<1>3. PICK e : /\ SetEffect(i, e) /\ EffectOK(e)
               /\ e.disposed = effects[i].disposed /\ e.token = effects[i].token
  <2>1. CASE onopen(i)
    <3>1. PICK e : e = [effects[i] EXCEPT !.ws = "open"]
      OBVIOUS
    <3>2. SetEffect(i, e) /\ effects[i].ws = "connecting"
      BY <2>1, <3>1 DEF onopen
    <3>3. EffectOK(e) /\ e.disposed = effects[i].disposed /\ e.token = effects[i].token
      BY <1>2, <3>1, <3>2 DEF EffectOK, Effect
    <3>4. QED
      BY <3>2, <3>3
  <2>2. CASE onclose(i)
    <3>1. PICK e : e = [effects[i] EXCEPT !.ws = "none", !.timer = ShouldReconnect(effects[i])]
      OBVIOUS
    <3>2. SetEffect(i, e)
      BY <2>2, <3>1 DEF onclose
    <3>3. EffectOK(e) /\ e.disposed = effects[i].disposed /\ e.token = effects[i].token
      BY <1>2, <3>1 DEF EffectOK, Effect, ShouldReconnect
    <3>4. QED
      BY <3>2, <3>3
  <2>3. CASE Reconnect(i)
    <3>1. PICK e : e = [effects[i] EXCEPT !.timer = FALSE,
                                          !.ws = IF effects[i].disposed THEN @
                                                 ELSE Connect(effects[i].token)]
      OBVIOUS
    <3>2. SetEffect(i, e)
      BY <2>3, <3>1 DEF Reconnect
    <3>3. EffectOK(e) /\ e.disposed = effects[i].disposed /\ e.token = effects[i].token
      BY <1>2, <3>1 DEF EffectOK, Effect, Connect
    <3>4. QED
      BY <3>2, <3>3
  <2>4. QED
    BY <2>1, <2>2, <2>3
<1>4. /\ EffectsOK(effects')
      /\ \A k \in DOMAIN effects' : \E j \in DOMAIN effects :
           effects'[k].disposed = effects[j].disposed /\ effects'[k].token = effects[j].token
  BY <1>3, SetEffectOK DEF TInv
<1>5. Fresh'
  BY <1>1, <1>4 DEF TInv, Fresh, ResolveToken
<1>6. QED
  BY <1>1, <1>4, <1>5 DEF TInv, Sessions, Pages, Feed

\* The beginning of a list.
LEMMA CutOff ==
  ASSUME NEW S, NEW s \in Seq(S), NEW n \in 1..Len(s)
  PROVE  SubSeq(s, 1, n) \in Seq(S) /\ Len(SubSeq(s, 1, n)) = n /\ SubSeq(s, 1, n)[1] = s[1]
<1>1. n \in Nat /\ n >= 1 /\ \A i \in 1..n : i \in 1..Len(s) /\ s[i] \in S
  OBVIOUS
<1>2. SubSeq(s, 1, n) = [i \in 1..n |-> s[i]]
  BY <1>1
<1>3. QED
  BY <1>1, <1>2

\* An event goes to the front of the feed, if it is new.
LEMMA FeedStep ==
  ASSUME Feed, NEW e \in [id : Events, to : Nat]
  PROVE  /\ AppendUnique(feed, e) \in Seq([id : Events, to : Nat])
         /\ AppendUnique(feed, e) # feed => Head(AppendUnique(feed, e)) = e
<1>1. feed \in Seq([id : Events, to : Nat]) /\ Len(feed) \in Nat /\ FeedCap \in Nat \ {0}
  BY FeedAssumption DEF Feed
<1>2. PICK all, n : /\ all = <<e>> \o feed
                    /\ n = IF Len(feed) < FeedCap THEN Len(feed) + 1 ELSE FeedCap
  OBVIOUS
<1>3. all \in Seq([id : Events, to : Nat]) /\ Len(all) = Len(feed) + 1 /\ all[1] = e
  BY <1>1, <1>2
<1>4. n \in 1..Len(all)
  BY <1>1, <1>2, <1>3
<1>5. PICK cut : cut = SubSeq(all, 1, n)
  OBVIOUS
<1>6. cut \in Seq([id : Events, to : Nat]) /\ Len(cut) = n /\ cut[1] = all[1]
  BY <1>3, <1>4, <1>5, CutOff
<1>7. Head(cut) = e
  BY <1>3, <1>4, <1>6
<1>8. AppendUnique(feed, e) = feed \/ AppendUnique(feed, e) = cut
  BY <1>2, <1>5 DEF AppendUnique
<1>9. QED
  BY <1>1, <1>6, <1>7, <1>8

\* An event arrives.
LEMMA MessageTInv ==
  ASSUME TInv, NEW i \in DOMAIN effects, NEW id \in Events, onmessage(i, id)
  PROVE  TInv'
<1>1. /\ feed' = AppendUnique(feed, [id |-> id, to |-> effects[i].token])
      /\ UNCHANGED <<session, stored, page, due, requests, asked, dash, effects, gone>>
  BY DEF onmessage, AddEvent
<1>2. [id |-> id, to |-> effects[i].token] \in [id : Events, to : Nat]
  BY DEF TInv, EffectsOK, EffectOK, Effect
<1>3. Feed'
  BY <1>1, <1>2, FeedStep DEF TInv, Feed
<1>4. QED
  BY <1>1, <1>3 DEF TInv, Sessions, Pages, Fresh, ResolveToken

\* Every step keeps the invariant.
LEMMA StepTInv ==
  ASSUME TInv, [Next]_vars
  PROVE  TInv'
<1>1. ASSUME NEW role \in Roles, Submit(role) PROVE TInv'
  BY <1>1, SubmitTInv
<1>2. ASSUME NEW r \in requests, LoginAnswers(r) PROVE TInv'
  BY <1>2, LoginTInv
<1>3. ASSUME NEW r \in requests, RequestFails(r) \/ DashAnswers(r) PROVE TInv'
  BY <1>3, AnswerTInv
<1>4. ASSUME NEW p \in Roles \cup {"landing", "dashboard"}, GoTo(p) PROVE TInv'
  BY <1>4, GoToTInv
<1>5. CASE RunEffects
  BY <1>5, RunEffectsTInv
<1>6. CASE Logout
  BY <1>6, LogoutTInv
<1>7. CASE Reload
  BY <1>7, ReloadTInv
<1>8. ASSUME NEW i \in DOMAIN effects, onopen(i) \/ onclose(i) \/ Reconnect(i) PROVE TInv'
  BY <1>8, ReportTInv
<1>9. ASSUME NEW i \in DOMAIN effects, NEW id \in Events, onmessage(i, id) PROVE TInv'
  BY <1>9, MessageTInv
<1>10. CASE UNCHANGED vars
  BY <1>10 DEF vars, TInv, Sessions, Pages, Feed, Fresh, ResolveToken
<1>11. QED
  BY <1>1, <1>2, <1>3, <1>4, <1>5, <1>6, <1>7, <1>8, <1>9, <1>10 DEF Next

-----------------------------------------------------------------------------
(* A page that wants a connection goes on trying.                          *)

\* An effect that goes on and has a token waits for its socket or for its timer.
TriesOn(es) ==
  \A i \in DOMAIN es : ~ es[i].disposed /\ es[i].token # 0 => es[i].ws # "none" \/ es[i].timer

SomeGoesOn(es) == \E i \in DOMAIN es : ~ es[i].disposed

LInv == TriesOn(effects) /\ (~ due /\ UsesSocket => SomeGoesOn(effects))

\* Effects that are forgotten were disposed of.
LEMMA PendingTries ==
  ASSUME NEW es, EffectsOK(es), TriesOn(es)
  PROVE  TriesOn(Pending(es)) /\ (SomeGoesOn(es) => SomeGoesOn(Pending(es)))
<1>1. TriesOn(Pending(es))
  BY PendingOK DEF TriesOn
<1>2. ASSUME NEW i \in DOMAIN es, ~ es[i].disposed PROVE SomeGoesOn(Pending(es))
  <2>1. es \in Seq(Effect)
    BY DEF EffectsOK
  <2>2. PICK k \in DOMAIN Pending(es) : Pending(es)[k] = es[i]
    BY <1>2, <2>1, PendingKeeps
  <2>3. QED
    BY <1>2, <2>2 DEF SomeGoesOn
<1>3. QED
  BY <1>1, <1>2 DEF SomeGoesOn

\* React runs the effects: a page that wants a connection starts one, if none goes on.
LEMMA RunEffectsTries ==
  ASSUME TInv, TriesOn(effects), RunEffects
  PROVE  LInv'
<1>1. due' = FALSE /\ effects' = Flushed /\ UNCHANGED <<session, page, dash>>
  BY DEF RunEffects
<1>2. PICK es : /\ EffectsOK(es) /\ Flushed = Pending(es)
                /\ \A i \in DOMAIN es : ~ es[i].disposed => GoesOn(es[i])
                /\ UsesSocket => \E i \in DOMAIN es : ~ es[i].disposed
  BY TokenNat, Flushing DEF TInv
<1>3. TriesOn(es)
  <2>1. ASSUME NEW i \in DOMAIN es, ~ es[i].disposed, es[i].token # 0
        PROVE  es[i].ws # "none" \/ es[i].timer
    <3>1. CASE es[i] = Started(ResolveToken)
      BY <2>1, <3>1 DEF Started, Connect
    <3>2. ASSUME NEW j \in DOMAIN effects, es[i] = effects[j] PROVE es[i].ws # "none" \/ es[i].timer
      BY <2>1, <3>2 DEF TriesOn
    <3>3. QED
      BY <1>2, <2>1, <3>1, <3>2 DEF GoesOn
  <2>2. QED
    BY <2>1 DEF TriesOn
<1>4. TriesOn(Flushed) /\ (UsesSocket => SomeGoesOn(Flushed))
  BY <1>2, <1>3, PendingTries DEF SomeGoesOn
<1>5. QED
  BY <1>1, <1>4 DEF LInv, UsesSocket, TriesOn, SomeGoesOn

\* The browser reports something to an effect: it goes on trying, if it was not disposed of.
LEMMA ReportTries ==
  ASSUME TInv, LInv, NEW i \in DOMAIN effects, onopen(i) \/ onclose(i) \/ Reconnect(i)
  PROVE  LInv'
<1>1. UNCHANGED <<page, due>>
  BY DEF onopen, onclose, Reconnect
<1>2. EffectOK(effects[i])
  BY DEF TInv, EffectsOK
<1>3. PICK e : /\ SetEffect(i, e) /\ EffectOK(e) /\ e.disposed = effects[i].disposed
               /\ ~ e.disposed /\ e.token # 0 => e.ws # "none" \/ e.timer
  <2>1. CASE onopen(i)
    <3>1. PICK e : e = [effects[i] EXCEPT !.ws = "open"]
      OBVIOUS
    <3>2. SetEffect(i, e) /\ effects[i].ws = "connecting"
      BY <2>1, <3>1 DEF onopen
    <3>3. EffectOK(e) /\ e.disposed = effects[i].disposed /\ e.ws # "none"
      BY <1>2, <3>1, <3>2 DEF EffectOK, Effect
    <3>4. QED
      BY <3>2, <3>3
  <2>2. CASE onclose(i)
    <3>1. PICK e : e = [effects[i] EXCEPT !.ws = "none", !.timer = ShouldReconnect(effects[i])]
      OBVIOUS
    <3>2. SetEffect(i, e)
      BY <2>2, <3>1 DEF onclose
    <3>3. /\ EffectOK(e) /\ e.disposed = effects[i].disposed
          /\ ~ e.disposed /\ e.token # 0 => e.timer
      BY <1>2, <3>1 DEF EffectOK, Effect, ShouldReconnect
    <3>4. QED
      BY <3>2, <3>3
  <2>3. CASE Reconnect(i)
    <3>1. PICK e : e = [effects[i] EXCEPT !.timer = FALSE,
                                          !.ws = IF effects[i].disposed THEN @
                                                 ELSE Connect(effects[i].token)]
      OBVIOUS
    <3>2. SetEffect(i, e)
      BY <2>3, <3>1 DEF Reconnect
    <3>3. /\ EffectOK(e) /\ e.disposed = effects[i].disposed
          /\ ~ e.disposed /\ e.token # 0 => e.ws # "none"
      BY <1>2, <3>1 DEF EffectOK, Effect, Connect
    <3>4. QED
      BY <3>2, <3>3
  <2>4. QED
    BY <2>1, <2>2, <2>3
<1>4. PICK es : es = [effects EXCEPT ![i] = e]
  OBVIOUS
<1>5. /\ DOMAIN es = DOMAIN effects /\ es = [j \in DOMAIN es |-> es[j]]
      /\ \A j \in DOMAIN effects : es[j] = IF j = i THEN e ELSE effects[j]
  BY <1>4 DEF TInv, EffectsOK
<1>6. EffectsOK(es)
  <2>1. \A j \in DOMAIN effects : EffectOK(es[j]) /\ (~ es[j].disposed => ~ effects[j].disposed)
    BY <1>3, <1>5 DEF TInv, EffectsOK
  <2>2. QED
    BY <1>5, <2>1, FewerOK DEF TInv
<1>7. TriesOn(es)
  BY <1>3, <1>5 DEF LInv, TriesOn
<1>8. SomeGoesOn(effects) => SomeGoesOn(es)
  BY <1>3, <1>5 DEF SomeGoesOn
<1>9. effects' = Pending(es)
  BY <1>3, <1>4 DEF SetEffect
<1>10. TriesOn(effects') /\ (SomeGoesOn(effects) => SomeGoesOn(effects'))
  BY <1>6, <1>7, <1>8, <1>9, PendingTries
<1>11. QED
  BY <1>1, <1>10 DEF LInv, UsesSocket, TriesOn, SomeGoesOn

\* Another page is committed: the effects of the old one try on until theirs run.
LEMMA EnterTries ==
  ASSUME TInv, LInv, NEW p, Enter(p)
  PROVE  LInv'
<1>1. due' /\ effects' = [i \in DOMAIN effects |-> [effects[i] EXCEPT !.mounted = FALSE]]
  BY DEF Enter
<1>2. TriesOn(effects')
  <2>1. ASSUME NEW i \in DOMAIN effects
        PROVE  /\ effects'[i].disposed = effects[i].disposed /\ effects'[i].token = effects[i].token
               /\ effects'[i].ws = effects[i].ws /\ effects'[i].timer = effects[i].timer
    <3>1. effects[i] \in Effect
      BY DEF TInv, EffectsOK
    <3>2. QED
      BY <1>1, <3>1 DEF Effect
  <2>2. QED
    BY <1>1, <2>1 DEF LInv, TriesOn
<1>3. QED
  BY <1>1, <1>2 DEF LInv, TriesOn

\* Logging out: nothing goes on, and Landing uses no socket.
LEMMA LogoutTries ==
  ASSUME TInv, LInv, Logout
  PROVE  LInv'
<1>1. page' = "landing" /\ effects' = Pending([i \in DOMAIN effects |-> Dispose(effects[i])])
  BY DEF Logout
<1>2. PICK es : es = [i \in DOMAIN effects |-> Dispose(effects[i])]
  OBVIOUS
<1>3. DOMAIN es = DOMAIN effects /\ es = [i \in DOMAIN es |-> es[i]]
  BY <1>2
<1>4. \A i \in DOMAIN effects : EffectOK(es[i]) /\ es[i].disposed
  BY <1>2, DisposeOK DEF TInv, EffectsOK
<1>5. EffectsOK(es) /\ TriesOn(es)
  <2>1. EffectsOK(es)
    BY <1>3, <1>4, FewerOK DEF TInv
  <2>2. QED
    BY <1>3, <1>4, <2>1 DEF TriesOn
<1>6. TriesOn(effects')
  BY <1>1, <1>2, <1>5, PendingTries
<1>7. QED
  BY <1>1, <1>6 DEF LInv, UsesSocket, TriesOn

\* Every step leaves the page with something that tries.
LEMMA StepLInv ==
  ASSUME TInv, LInv, [Next]_vars
  PROVE  LInv'
<1>1. ASSUME UNCHANGED <<page, due, effects>> PROVE LInv'
  BY <1>1 DEF LInv, UsesSocket, TriesOn, SomeGoesOn
<1>2. ASSUME due', UNCHANGED effects PROVE LInv'
  BY <1>2 DEF LInv, TriesOn
<1>3. ASSUME NEW role \in Roles, Submit(role) PROVE LInv'
  BY <1>1, <1>3 DEF Submit
<1>4. ASSUME NEW r \in requests, LoginAnswers(r) PROVE LInv'
  <2>1. \/ due' /\ UNCHANGED effects
        \/ Enter(r.role) \/ Enter("landing")
    BY <1>4 DEF LoginAnswers
  <2>2. QED
    BY <1>2, <2>1, EnterTries
<1>5. ASSUME NEW r \in requests, RequestFails(r) \/ DashAnswers(r) PROVE LInv'
  <2>1. UNCHANGED <<page, effects>> /\ (due' \/ UNCHANGED due)
    BY <1>5 DEF RequestFails, DashAnswers
  <2>2. QED
    BY <1>1, <1>2, <2>1
<1>6. ASSUME NEW p \in Roles \cup {"landing", "dashboard"}, GoTo(p) PROVE LInv'
  BY <1>6, EnterTries DEF GoTo
<1>7. CASE RunEffects
  BY <1>7, RunEffectsTries DEF LInv
<1>8. CASE Logout
  BY <1>8, LogoutTries
<1>9. CASE Reload
  <2>1. due' /\ effects' = <<>>
    BY <1>9 DEF Reload
  <2>2. QED
    BY <2>1 DEF LInv, TriesOn
<1>10. ASSUME NEW i \in DOMAIN effects, onopen(i) \/ onclose(i) \/ Reconnect(i) PROVE LInv'
  BY <1>10, ReportTries
<1>11. ASSUME NEW i \in DOMAIN effects, NEW id \in Events, onmessage(i, id) PROVE LInv'
  BY <1>1, <1>11 DEF onmessage
<1>12. CASE UNCHANGED vars
  BY <1>1, <1>12 DEF vars
<1>13. QED
  BY <1>3, <1>4, <1>5, <1>6, <1>7, <1>8, <1>9, <1>10, <1>11, <1>12 DEF Next

\* The tab is opened on Landing.
LEMMA InitLInv == Init => LInv
<1> SUFFICES ASSUME Init PROVE LInv
  OBVIOUS
<1>1. effects = <<>> /\ page = "landing"
  BY DEF Init
<1>2. QED
  BY <1>1 DEF LInv, TriesOn, UsesSocket

\* What goes on has the page's token, so it tries.
LEMMA LInvTrying == TInv /\ LInv => Trying
<1> SUFFICES ASSUME TInv, LInv, ~ due, UsesSocket, ResolveToken # 0
             PROVE  \E i \in DOMAIN effects : ~ effects[i].disposed /\ Connection(effects[i])
  BY DEF Trying
<1>1. PICK i \in DOMAIN effects : ~ effects[i].disposed
  BY DEF LInv, SomeGoesOn
<1>2. effects[i].token # 0
  BY <1>1 DEF TInv, Fresh
<1>3. EffectOK(effects[i]) /\ (effects[i].ws # "none" \/ effects[i].timer)
  BY <1>1, <1>2 DEF TInv, EffectsOK, LInv, TriesOn
<1>4. QED
  BY <1>1, <1>3 DEF EffectOK, Effect, Connection

-----------------------------------------------------------------------------
(* The theorems.                                                           *)

\* The invariant of the tab.
LEMMA AlwaysTInv == Spec => []TInv
  BY InitTInv, StepTInv, PTL DEF Spec

\* Who holds a connection was not disposed of, and there is one such effect at most.
LEMMA TInvOne == TInv => OneConnection
<1> SUFFICES ASSUME TInv PROVE OneConnection
  OBVIOUS
<1>1. \A i \in DOMAIN effects : EffectOK(effects[i])
  BY DEF TInv, EffectsOK
<1>2. \A i \in DOMAIN effects : effects[i].disposed => ~ Connection(effects[i])
  BY <1>1 DEF EffectOK, Connection
<1>3. \A i \in DOMAIN effects : effects[i].timer => effects[i].ws = "none"
  BY <1>1 DEF EffectOK
<1>4. PICK S : S = {i \in DOMAIN effects : Connection(effects[i])}
  OBVIOUS
<1>5. \A i, j \in S : i = j
  BY <1>2, <1>4 DEF TInv, EffectsOK, One
<1>6. Cardinality(S) <= 1
  <2>1. CASE S = {}
    BY <2>1, FS_EmptySet
  <2>2. CASE S # {}
    <3>1. PICK i \in S : TRUE
      BY <2>2
    <3>2. S = {i}
      BY <1>5
    <3>3. Cardinality({i}) = 1
      BY FS_Singleton
    <3>4. QED
      BY <3>2, <3>3
  <2>3. QED
    BY <2>1, <2>2
<1>7. QED
  BY <1>2, <1>3, <1>4, <1>6 DEF OneConnection

\* The connection is that of the session on the screen.
LEMMA TInvIdentity == TInv => RightIdentity
<1> SUFFICES ASSUME TInv PROVE RightIdentity
  OBVIOUS
<1>1. \A i \in DOMAIN effects : Connection(effects[i]) => ~ effects[i].disposed
  BY DEF TInv, EffectsOK, EffectOK, Connection
<1>2. QED
  BY <1>1 DEF TInv, Sessions, Pages, Fresh, RightIdentity

\* Outside of the moment between a commit and its effects, an event comes to the
\* session that is logged in.
LEMMA StepNoStray ==
  ASSUME TInv, [Next]_vars, feed' \notin {feed, <<>>}, ~ due
  PROVE  Head(feed').to = session.id
<1>1. PICK i \in DOMAIN effects, id \in Events : onmessage(i, id)
  BY DEF Next, vars, Submit, LoginAnswers, RequestFails, DashAnswers, GoTo, RunEffects, Logout,
         Reload, onopen, onclose, Reconnect
<1>2. PICK e : e = [id |-> id, to |-> effects[i].token]
  OBVIOUS
<1>3. feed' = AppendUnique(feed, e) /\ ~ effects[i].disposed /\ effects[i].token # dash
  BY <1>1, <1>2 DEF onmessage, AddEvent
<1>4. e \in [id : Events, to : Nat]
  BY <1>2 DEF TInv, EffectsOK, EffectOK, Effect
<1>5. Head(feed') = e
  BY <1>3, <1>4, FeedStep DEF TInv
<1>6. effects[i].token = ResolveToken
  BY <1>3 DEF TInv, Fresh
<1>7. effects[i].token = session.id
  BY <1>3, <1>6 DEF ResolveToken
<1>8. QED
  BY <1>2, <1>5, <1>7

\* However quickly the user moves, StrictMode doubles effects and sockets end
\* late: a tab holds one connection and nothing disposed of reconnects
\* (useWebSocket, shouldReconnect).
THEOREM AlwaysOneConnection == Spec => []OneConnection
  BY AlwaysTInv, TInvOne, PTL

\* A page is shown to its role and speaks with the token of the session on the
\* screen, and no answer, history or reload brings back a session that logged out
\* (SessionContext, RequireRole, resolveWebSocketToken).
THEOREM AlwaysRightIdentity == Spec => []RightIdentity
  BY AlwaysTInv, TInvIdentity, PTL

\* No event that was sent to another session is added to the feed, but between
\* a commit and its effects (useWebSocket, EventContext).
THEOREM NeverStrayEvents == Spec => NoStrayEvents
<1>1. TInv /\ [Next]_vars => [feed' \notin {feed, <<>>} /\ ~ due => Head(feed').to = session.id]_vars
  BY StepNoStray
<1>2. QED
  BY <1>1, AlwaysTInv, PTL DEF Spec, NoStrayEvents

\* Once its effects ran, a page that has a token is never left without a socket
\* or a timer: that it tries on is what KeepsTrying needs (shouldReconnect).
THEOREM AlwaysTrying == Spec => []Trying
<1>1. TInv /\ [Next]_vars /\ LInv => LInv'
  BY StepLInv
<1>2. QED
  BY <1>1, AlwaysTInv, InitLInv, LInvTrying, PTL DEF Spec

=============================================================================
