--------------------------- MODULE CcipReadProofs ---------------------------
(***************************************************************************)
(* Theorems about names resolved through the gateway, for every set of     *)
(* names, queries, resolvers and lookups, every feed, and every time to    *)
(* live and clock skew.                                                    *)
(*                                                                         *)
(* A response is held against the moment its version was superseded. The   *)
(* invariant follows that moment through the store: a version that a read  *)
(* has heard was the last one when or after the read began; a cached one   *)
(* was stored at most ReadTime after it was superseded, and is used for    *)
(* less than CacheTtl; and no answer waits for its signature while time    *)
(* passes.                                                                 *)
(***************************************************************************)
EXTENDS CcipRead, TLAPS

\* What stands between a version that was superseded and what is made of it.
Since(n, record, time) == Superseded(n, record) => time =< SupersededAt(n, record)

\* Answers lag behind the feed by less than a read and a cache entry take.
Lags(n, record, time) ==
    Superseded(n, record) => time < SupersededAt(n, record) + ReadTime + CacheTtl

\* The entries, and the calls that are under way or have their answer.
EntriesInv ==
    \A n \in Nodes : cache[n] # NoEntry =>
        /\ cache[n].fetchedAt =< now
        /\ Superseded(n, cache[n].record) => cache[n].fetchedAt =< SupersededAt(n, cache[n].record) + ReadTime

CallOk(call) ==
    /\ call.record =< Len(written[call.node])
    /\ call.cached # NoEntry => call.cached.record =< Len(written[call.node])
    /\ call.phase \in {"reading", "heard"} => call.since =< now /\ now =< call.since + ReadTime
    /\ call.phase = "heard" => Since(call.node, call.record, call.since)
    /\ call.phase = "answered" /\ ~call.fallback => Lags(call.node, call.record, now)

CallsInv == \A g \in Gets : CallOk(get[g])

\* A response at large is what serveLookup signs, for a version of the feed.
ResponseOk(r) ==
    /\ r.query.node \in Nodes /\ r.query.key = EnvelopeKey /\ decodes(r.query)
    /\ r.signature.digest = makeSignatureHash(r.sender, r.expires, r.query, r.result)
    /\ r.result = encodeResult(r.query, r.result.envelope)
    /\ r.result.envelope =< Len(written[r.query.node])
    /\ r.at =< now /\ r.expires =< r.at + SignatureTtl /\ r.expires =< Expiry[r.result.envelope]
    /\ ~r.fallback => Lags(r.query.node, r.result.envelope, r.at)

ResponsesInv == \A r \in responses : ResponseOk(r)

\* What the store promises by itself.
StoreInv ==
    /\ FeedTypeOK
    /\ \A n \in Nodes : Len(written[n]) =< MaxVersion
    /\ EntriesInv /\ CallsInv

IInv == StoreInv /\ ResolverTypeOK /\ responses \subseteq Response /\ ResponsesInv
----------------------------------------------------------------------------
(* The store. *)

LEMMA FeedFacts ==
    ASSUME StoreInv, NEW n \in Nodes
    PROVE  /\ now \in Nat /\ written[n] \in Seq(0..MaxTime) /\ Len(written[n]) \in Nat
           /\ Len(written[n]) =< MaxVersion /\ MaxVersion \in Nat
           /\ \A i \in 1..Len(written[n]) : written[n][i] \in Nat
           /\ cache[n] \in Entry \cup {NoEntry}
           /\ CacheTtl \in Nat /\ CacheTtl > 0 /\ ReadTime \in Nat /\ SignatureTtl \in Nat
  BY FeedConstants, CcipConstants DEF StoreInv, FeedTypeOK, MaxVersion

\* A call takes a step; time stands still and nothing is written.
LEMMA CallStep ==
    ASSUME StoreInv, NEW g \in Gets, NEW call \in Call, get' = [get EXCEPT ![g] = call],
           UNCHANGED <<now, written>>, CallOk(call)
    PROVE  get' \in [Gets -> Call] /\ CallsInv'
<1>1. get \in [Gets -> Call]
  BY DEF StoreInv, FeedTypeOK
<1>2. \A h \in Gets : CallOk(get'[h])
  BY <1>1 DEF StoreInv, CallsInv
<1>3. \A h \in Gets : CallOk(get[h])'
  BY <1>2 DEF CallOk, Since, Lags, Superseded, SupersededAt
<1> QED
  BY <1>1, <1>3 DEF CallsInv

\* ... and nothing is cached.
LEMMA StoreStep ==
    ASSUME StoreInv, NEW g \in Gets, NEW call \in Call, get' = [get EXCEPT ![g] = call],
           UNCHANGED <<now, written, cache>>, CallOk(call)
    PROVE  StoreInv'
<1>1. get' \in [Gets -> Call] /\ CallsInv'
  BY CallStep
<1>2. FeedTypeOK'
  BY <1>1 DEF StoreInv, FeedTypeOK
<1>3. EntriesInv'
  BY DEF StoreInv, EntriesInv, Superseded, SupersededAt
<1> QED
  BY <1>1, <1>2, <1>3 DEF StoreInv

\* What a call that is under way is about.
LEMMA CallFacts ==
    ASSUME StoreInv, NEW g \in Gets
    PROVE  /\ get[g] \in Call /\ CallOk(get[g]) /\ get[g].node \in Nodes
           /\ get[g].since \in Nat /\ get[g].record \in Nat /\ get[g].record =< MaxVersion
           /\ get[g].cached # NoEntry => get[g].cached \in Entry
<1>1. get[g] \in Call /\ CallOk(get[g])
  BY DEF StoreInv, FeedTypeOK, CallsInv
<1>2. get[g].node \in Nodes /\ get[g].since \in Nat /\ get[g].record \in 0..MaxVersion
  BY <1>1 DEF Call, Records
<1> QED
  BY <1>1, <1>2, FeedFacts DEF Call

\* An answer that is a version of the feed.
LEMMA AnsweredOk ==
    ASSUME StoreInv, NEW n \in Nodes, NEW record \in Records, NEW isFallback \in BOOLEAN,
           record =< Len(written[n]), ~isFallback => Lags(n, record, now)
    PROVE  answered(n, record, isFallback) \in Call /\ CallOk(answered(n, record, isFallback))
<1> DEFINE call == answered(n, record, isFallback)
<1>1. call \in Call
  BY DEF answered, Call
<1>2. /\ call.phase = "answered" /\ call.node = n /\ call.record = record /\ call.cached = NoEntry
      /\ call.fallback = isFallback
  BY DEF answered
<1> HIDE DEF call
<1>3. CallOk(call)
  BY <1>2 DEF CallOk
<1> QED
  BY <1>1, <1>3 DEF call

LEMMA GetInv == ASSUME StoreInv, NEW g \in Gets, NEW n \in Nodes, Get(g, n) PROVE StoreInv'
<1>1. UNCHANGED <<now, written, cache>>
  BY DEF Get
<1>2. CASE cache[n] # NoEntry /\ isFresh(cache[n])
  <2>1. cache[n] \in Entry /\ cache[n].record \in Records /\ cache[n].record \in Nat /\ cache[n].fetchedAt \in Nat
    BY <1>2, FeedFacts DEF Entry, Records
  <2>2. cache[n].record =< Len(written[n])
    BY <1>2 DEF StoreInv, FeedTypeOK
  <2>3. Lags(n, cache[n].record, now)
    <3> SUFFICES ASSUME Superseded(n, cache[n].record)
                 PROVE  now < SupersededAt(n, cache[n].record) + ReadTime + CacheTtl
      BY DEF Lags
    <3>1. SupersededAt(n, cache[n].record) \in Nat
      BY <2>1, <2>2, FeedFacts DEF Superseded, SupersededAt
    <3>2. cache[n].fetchedAt =< SupersededAt(n, cache[n].record) + ReadTime
      BY <1>2 DEF StoreInv, EntriesInv
    <3>3. now - cache[n].fetchedAt < CacheTtl
      BY <1>2 DEF isFresh
    <3> QED
      BY <2>1, <3>1, <3>2, <3>3, FeedFacts
  <2>4. get' = [get EXCEPT ![g] = answered(n, cache[n].record, FALSE)]
    BY <1>2 DEF Get
  <2> QED
    BY <1>1, <2>1, <2>2, <2>3, <2>4, AnsweredOk, StoreStep
<1>3. CASE ~(cache[n] # NoEntry /\ isFresh(cache[n]))
  <2> DEFINE call == [phase |-> "reading", node |-> n, cached |-> cache[n], since |-> now, record |-> 0, fallback |-> FALSE]
  <2>1. get' = [get EXCEPT ![g] = call]
    BY <1>3 DEF Get
  <2>2. call \in Call
    BY FeedFacts DEF Call, Records
  <2>3. /\ call.phase = "reading" /\ call.node = n /\ call.cached = cache[n] /\ call.since = now
        /\ call.record = 0 /\ call.fallback = FALSE
    OBVIOUS
  <2> HIDE DEF call
  <2>4. CallOk(call)
    BY <2>3, FeedFacts DEF CallOk, StoreInv, FeedTypeOK
  <2> QED
    BY <1>1, <2>1, <2>2, <2>4, StoreStep
<1> QED
  BY <1>2, <1>3

LEMMA HearInv == ASSUME StoreInv, NEW g \in Gets, Hear(g) PROVE StoreInv'
<1> DEFINE n == get[g].node
           call == [get[g] EXCEPT !.phase = "heard", !.record = Len(written[n])]
<1>1. get' = [get EXCEPT ![g] = call] /\ get[g].phase = "reading" /\ UNCHANGED <<now, written, cache>>
  BY DEF Hear, StoreInv, FeedTypeOK
<1>2. Len(written[n]) \in Records
  BY CallFacts, FeedFacts DEF Records
<1>3. call \in Call
  BY <1>2, CallFacts DEF Call
<1>4. /\ call.phase = "heard" /\ call.node = n /\ call.cached = get[g].cached /\ call.since = get[g].since
      /\ call.record = Len(written[n])
  BY CallFacts DEF Call
<1> HIDE DEF call
<1>5. ~Superseded(n, Len(written[n]))
  BY CallFacts, FeedFacts DEF Superseded
<1>6. CallOk(call)
  BY <1>1, <1>4, <1>5, CallFacts, FeedFacts DEF CallOk, Since
<1> QED
  BY <1>1, <1>3, <1>6, StoreStep

LEMMA FinishInv == ASSUME StoreInv, NEW g \in Gets, Finish(g) PROVE StoreInv'
<1> DEFINE n == get[g].node
           v == get[g].record
           e == [record |-> v, fetchedAt |-> now]
<1>1. /\ get[g].phase = "heard" /\ cache' = [cache EXCEPT ![n] = e]
      /\ get' = [get EXCEPT ![g] = answered(n, v, FALSE)] /\ UNCHANGED <<now, written>>
  BY DEF Finish
<1>2. n \in Nodes /\ v \in Records /\ v \in Nat /\ v =< Len(written[n]) /\ now \in Nat /\ get[g].since \in Nat
  BY CallFacts, FeedFacts DEF CallOk, Records
<1>3. Superseded(n, v) => SupersededAt(n, v) \in Nat /\ now =< SupersededAt(n, v) + ReadTime
  <2> SUFFICES ASSUME Superseded(n, v) PROVE SupersededAt(n, v) \in Nat /\ now =< SupersededAt(n, v) + ReadTime
    OBVIOUS
  <2>1. SupersededAt(n, v) \in Nat
    BY <1>2, FeedFacts DEF Superseded, SupersededAt
  <2>2. get[g].since =< SupersededAt(n, v) /\ now =< get[g].since + ReadTime
    BY <1>1, CallFacts DEF CallOk, Since
  <2> QED
    BY <1>2, <2>1, <2>2, FeedConstants
<1>4. Lags(n, v, now)
  BY <1>2, <1>3, FeedFacts DEF Lags
<1>5. get' \in [Gets -> Call] /\ CallsInv'
  BY <1>1, <1>2, <1>4, AnsweredOk, CallStep
<1>6. cache \in [Nodes -> Entry \cup {NoEntry}] /\ e \in Entry /\ e.record = v /\ e.fetchedAt = now
  BY <1>2 DEF StoreInv, FeedTypeOK, Entry
<1> HIDE DEF e
<1>7. cache' \in [Nodes -> Entry \cup {NoEntry}] /\ cache'[n] = e /\ \A m \in Nodes : m # n => cache'[m] = cache[m]
  BY <1>1, <1>2, <1>6
<1>8. FeedTypeOK'
  BY <1>1, <1>2, <1>5, <1>6, <1>7 DEF StoreInv, FeedTypeOK
<1>9. EntriesInv'
  BY <1>1, <1>2, <1>3, <1>6, <1>7 DEF StoreInv, EntriesInv, Superseded, SupersededAt
<1> QED
  BY <1>1, <1>5, <1>8, <1>9 DEF StoreInv

LEMMA FailInv == ASSUME StoreInv, NEW g \in Gets, Fail(g) PROVE StoreInv'
<1>1. /\ get' = [get EXCEPT ![g] = answered(get[g].node, fallback(g), TRUE)]
      /\ UNCHANGED <<now, written, cache>>
  BY DEF Fail
<1>2. fallback(g) \in Records /\ fallback(g) =< Len(written[get[g].node])
  BY CallFacts, FeedFacts DEF fallback, CallOk, Entry, Records
<1> QED
  BY <1>1, <1>2, CallFacts, AnsweredOk, StoreStep

LEMMA IdleOk ==
    ASSUME StoreInv \/ written = [n \in Nodes |-> <<>>], NEW g \in Gets
    PROVE  idle(g) \in Call /\ CallOk(idle(g))
<1> DEFINE n == CHOOSE n \in Nodes : TRUE
<1>1. n \in Nodes
  BY FeedConstants
<1>2. 0 =< Len(written[n])
  BY <1>1, FeedFacts
<1>3. idle(g) \in Call
  BY <1>1, FeedConstants DEF idle, Call, Records, MaxVersion
<1>4. CallOk(idle(g))
  BY <1>2 DEF idle, CallOk
<1> QED
  BY <1>3, <1>4

LEMMA ReturnInv == ASSUME StoreInv, NEW g \in Gets, Return(g) PROVE StoreInv'
  BY IdleOk, StoreStep DEF Return

\* What a new version does to the versions before it.
LEMMA WriteFacts ==
    ASSUME StoreInv, NEW n \in Nodes, WriteFeed(n), NEW m \in Nodes, NEW v \in Nat, v =< Len(written[m])
    PROVE  /\ v =< Len(written'[m]) /\ Len(written'[m]) =< MaxVersion /\ written'[m] \in Seq(0..MaxTime)
           /\ Superseded(m, v)' => \/ Superseded(m, v) /\ SupersededAt(m, v)' = SupersededAt(m, v)
                                   \/ SupersededAt(m, v)' = now
<1>1. now \in 0..MaxTime /\ written \in [Nodes -> Seq(0..MaxTime)]
  BY DEF StoreInv, FeedTypeOK
<1>2. written'[m] = IF m = n THEN Append(written[n], now) ELSE written[m]
  BY <1>1 DEF WriteFeed
<1>3. CASE m # n
  BY <1>2, <1>3, FeedFacts DEF Superseded, SupersededAt
<1>4. CASE m = n
  <2>1. /\ written[m] \in Seq(0..MaxTime) /\ written'[m] = Append(written[m], now) /\ Len(written[m]) \in Nat
        /\ Len(written[m]) < MaxVersion /\ MaxVersion \in Nat
    BY <1>2, <1>4, FeedFacts DEF WriteFeed
  <2>2. /\ Len(written'[m]) = Len(written[m]) + 1 /\ written'[m] \in Seq(0..MaxTime)
        /\ written'[m][Len(written[m]) + 1] = now
        /\ \A i \in 1..Len(written[m]) : written'[m][i] = written[m][i]
    BY <1>1, <2>1
  <2>3. CASE v = Len(written[m])
    BY <2>1, <2>2, <2>3 DEF SupersededAt
  <2>4. CASE v < Len(written[m])
    BY <2>1, <2>2, <2>4 DEF Superseded, SupersededAt
  <2> QED
    BY <2>1, <2>2, <2>3, <2>4
<1> QED
  BY <1>3, <1>4

\* A time that is no later than a version's end by some delay, or than now.
LEMMA DelayKept ==
    ASSUME StoreInv, NEW n \in Nodes, WriteFeed(n), NEW m \in Nodes, NEW v \in Nat, v =< Len(written[m]),
           NEW t \in Nat, NEW d \in Nat, t =< now + d,
           Superseded(m, v) => t =< SupersededAt(m, v) + d
    PROVE  v =< Len(written'[m]) /\ (Superseded(m, v)' => t =< SupersededAt(m, v)' + d)
  BY WriteFacts

LEMMA WriteFeedInv == ASSUME StoreInv, NEW n \in Nodes, WriteFeed(n) PROVE StoreInv'
<1>1. UNCHANGED <<now, cache, get>> /\ now \in Nat
  BY FeedFacts DEF WriteFeed
<1>2. \A m \in Nodes : Len(written'[m]) =< MaxVersion /\ written'[m] \in Seq(0..MaxTime)
  BY WriteFacts, FeedFacts
<1>3. written' \in [Nodes -> Seq(0..MaxTime)]
  BY <1>2 DEF StoreInv, FeedTypeOK, WriteFeed
<1>4. ASSUME NEW m \in Nodes, cache[m] # NoEntry
      PROVE  /\ cache[m].record =< Len(written'[m])
             /\ Superseded(m, cache[m].record)' =>
                    cache[m].fetchedAt =< SupersededAt(m, cache[m].record)' + ReadTime
  <2>1. /\ cache[m].record \in Nat /\ cache[m].fetchedAt \in Nat /\ cache[m].record =< Len(written[m])
        /\ cache[m].fetchedAt =< now
        /\ Superseded(m, cache[m].record) => cache[m].fetchedAt =< SupersededAt(m, cache[m].record) + ReadTime
    BY <1>4, FeedFacts DEF StoreInv, FeedTypeOK, EntriesInv, Entry, Records
  <2> DEFINE v == cache[m].record
             t == cache[m].fetchedAt
  <2>2. v' = v /\ t' = t
    BY <1>1
  <2> HIDE DEF v, t
  <2>3. v =< Len(written'[m]) /\ (Superseded(m, v)' => t =< SupersededAt(m, v)' + ReadTime)
    BY <1>1, <2>1, FeedFacts, DelayKept DEF v, t
  <2> QED
    BY <2>2, <2>3 DEF Superseded, SupersededAt, v, t
<1>5. EntriesInv'
  BY <1>1, <1>4 DEF StoreInv, EntriesInv, Superseded, SupersededAt
<1>6. CallsInv'
  <2> SUFFICES ASSUME NEW g \in Gets PROVE CallOk(get[g])'
    BY DEF CallsInv
  <2> DEFINE call == get[g]
             m == call.node
             v == call.record
             since == call.since
  <2>1. /\ m \in Nodes /\ v \in Nat /\ since \in Nat /\ CallOk(call) /\ v =< Len(written[m])
        /\ call' = call /\ (call.cached # NoEntry => call.cached \in Entry)
    BY <1>1, CallFacts DEF CallOk
  <2> HIDE DEF call
  <2>2. v =< Len(written'[m])
    BY <2>1, WriteFacts
  <2>3. call.cached # NoEntry => call.cached.record =< Len(written'[m])
    BY <2>1, WriteFacts DEF CallOk, Entry, Records
  <2>4. call.phase = "heard" => Since(m, v, since)'
    <3> SUFFICES ASSUME call.phase = "heard", Superseded(m, v)' PROVE since =< SupersededAt(m, v)'
      BY <2>1 DEF Since, Superseded, SupersededAt
    <3>1. since =< now /\ (Superseded(m, v) => since =< SupersededAt(m, v))
      BY <2>1 DEF CallOk, Since
    <3> QED
      BY <1>1, <2>1, <3>1, WriteFacts
  <2>5. call.phase = "answered" /\ ~call.fallback => Lags(m, v, now)'
    <3> SUFFICES ASSUME call.phase = "answered", ~call.fallback, Superseded(m, v)'
                 PROVE  now < SupersededAt(m, v)' + ReadTime + CacheTtl
      BY <1>1, <2>1 DEF Lags, Superseded, SupersededAt
    <3>1. Superseded(m, v) => now < SupersededAt(m, v) + ReadTime + CacheTtl
      BY <2>1 DEF CallOk, Lags
    <3> QED
      BY <1>1, <2>1, <3>1, WriteFacts, FeedFacts
  <2> QED
    <3>1. /\ (call.record =< Len(written[call.node]))'
          /\ (call.cached # NoEntry => call.cached.record =< Len(written[call.node]))'
      BY <2>1, <2>2, <2>3
    <3>2. /\ (call.phase \in {"reading", "heard"} => call.since =< now /\ now =< call.since + ReadTime)'
          /\ (call.phase = "heard" => Since(call.node, call.record, call.since))'
          /\ (call.phase = "answered" /\ ~call.fallback => Lags(call.node, call.record, now))'
      BY <1>1, <2>1, <2>4, <2>5 DEF CallOk, Since, Lags, Superseded, SupersededAt
    <3> QED
      BY <3>1, <3>2 DEF CallOk, call
<1> QED
  BY <1>1, <1>2, <1>3, <1>4, <1>5, <1>6 DEF StoreInv, FeedTypeOK

\* Time passes only when every answer is given and no read has run out of it.
LEMMA TickInv == ASSUME StoreInv, Tick PROVE StoreInv'
<1>1. /\ now' = now + 1 /\ now < MaxTime /\ now \in 0..MaxTime /\ UNCHANGED <<written, cache, get>>
      /\ \A g \in Gets : /\ get[g].phase # "answered"
                         /\ get[g].phase \in {"reading", "heard"} => now < get[g].since + ReadTime
  BY DEF Tick, StoreInv, FeedTypeOK
<1>2. now' \in 0..MaxTime
  BY <1>1, FeedConstants
<1>3. FeedTypeOK'
  BY <1>1, <1>2 DEF StoreInv, FeedTypeOK
<1>4. EntriesInv'
  <2>1. \A n \in Nodes : cache[n] # NoEntry => cache[n].fetchedAt =< now'
    BY <1>1, FeedFacts DEF StoreInv, EntriesInv, Entry
  <2> QED
    BY <1>1, <2>1 DEF StoreInv, EntriesInv, Superseded, SupersededAt
<1>5. CallsInv'
  <2>1. ASSUME NEW g \in Gets, get[g].phase \in {"reading", "heard"}
        PROVE  get[g].since =< now' /\ now' =< get[g].since + ReadTime
    BY <1>1, <2>1, CallFacts, FeedConstants DEF CallOk
  <2> QED
    BY <1>1, <2>1 DEF StoreInv, CallsInv, CallOk, Since, Lags, Superseded, SupersededAt
<1> QED
  BY <1>1, <1>3, <1>4, <1>5 DEF StoreInv
----------------------------------------------------------------------------
(* The responses. *)

LEMMA ResponseFacts ==
    ASSUME IInv, NEW r \in responses
    PROVE  /\ r \in Response /\ ResponseOk(r)
           /\ r.query.node \in Nodes /\ r.result.envelope \in 1..MaxVersion /\ r.result.envelope \in Nat
           /\ r.at \in Nat /\ r.expires \in Nat /\ Expiry[r.result.envelope] \in Nat
<1>1. r \in Response /\ ResponseOk(r)
  BY DEF IInv, ResponsesInv
<1>2. r.result.envelope \in 1..MaxVersion /\ MaxVersion \in Nat
  BY <1>1, CcipConstants, FeedConstants DEF Response, Result, MaxVersion
<1>3. Expiry[r.result.envelope] \in Nat
  BY <1>2, FeedConstants DEF MaxVersion
<1> QED
  BY <1>1, <1>2, <1>3 DEF Response, ResponseOk

\* Responses stay what they were while nothing is written.
LEMMA ResponsesStay ==
    ASSUME IInv, responses' \subseteq responses, written' = written, now' \in Nat, now =< now'
    PROVE  responses' \subseteq Response /\ ResponsesInv'
<1> SUFFICES ASSUME NEW r \in responses' PROVE r \in Response /\ ResponseOk(r)'
  BY DEF ResponsesInv
<1>1. r \in responses /\ now \in Nat
  BY DEF IInv, StoreInv, FeedTypeOK
<1>2. r \in Response /\ ResponseOk(r) /\ r.at \in Nat
  BY <1>1, ResponseFacts
<1> QED
  BY <1>1, <1>2 DEF ResponseOk, Lags, Superseded, SupersededAt

LEMMA ResponsesAfterWrite ==
    ASSUME IInv, NEW n \in Nodes, WriteFeed(n), responses' = responses
    PROVE  ResponsesInv'
<1> SUFFICES ASSUME NEW r \in responses PROVE ResponseOk(r)'
  BY DEF ResponsesInv
<1> DEFINE m == r.query.node
           v == r.result.envelope
<1>1. /\ ResponseOk(r) /\ m \in Nodes /\ v \in Nat /\ r.at \in Nat /\ v =< Len(written[m]) /\ r.at =< now
      /\ now' = now
  BY ResponseFacts DEF ResponseOk, WriteFeed
<1>2. StoreInv
  BY DEF IInv
<1>3. v =< Len(written'[m])
  BY <1>1, <1>2, WriteFacts
<1>4. ~r.fallback => Lags(m, v, r.at)'
  <2> SUFFICES ASSUME ~r.fallback, Superseded(m, v)'
               PROVE  r.at < SupersededAt(m, v)' + ReadTime + CacheTtl
    BY DEF Lags, Superseded, SupersededAt
  <2>1. Superseded(m, v) => r.at < SupersededAt(m, v) + ReadTime + CacheTtl
    BY <1>1 DEF ResponseOk, Lags
  <2>2. now \in Nat /\ ReadTime \in Nat /\ CacheTtl \in Nat /\ CacheTtl > 0
    BY <1>1, <1>2, FeedFacts
  <2>3. \/ Superseded(m, v) /\ SupersededAt(m, v)' = SupersededAt(m, v)
        \/ SupersededAt(m, v)' = now
    BY <1>1, <1>2, WriteFacts
  <2> QED
    BY <1>1, <2>1, <2>2, <2>3
<1> QED
  BY <1>1, <1>3, <1>4 DEF ResponseOk, Lags, Superseded, SupersededAt

\* What serveLookup signs.
LEMMA SignedOk ==
    ASSUME IInv, NEW g \in Gets, get[g].phase = "answered", NEW sender \in Resolvers, NEW query \in Query,
           <<sender, query>> \in Asked, Servable(sender, query), query.node = get[g].node,
           get[g].record # 0, unexpired(get[g].record)
    PROVE  LET r == signedResponse(sender, query, get[g].record, get[g].fallback)
           IN  r \in Response /\ ResponseOk(r)
<1> DEFINE v == get[g].record
           r == signedResponse(sender, query, v, get[g].fallback)
           end == expiresOf(v)
<1> USE CcipConstants, FeedConstants
<1>1. StoreInv /\ now \in Nat
  BY DEF IInv, StoreInv, FeedTypeOK
<1>2. /\ get[g].node \in Nodes /\ v \in 1..MaxVersion /\ v \in Envelopes /\ v \in Nat
      /\ v =< Len(written[get[g].node]) /\ get[g].fallback \in BOOLEAN
      /\ ~get[g].fallback => Lags(get[g].node, v, now)
  BY <1>1, CallFacts DEF CallOk, Call, Records, MaxVersion
<1>3. Expiry[v] \in Nat /\ Expiry[v] > now
  BY <1>2 DEF unexpired, MaxVersion
<1>4. end \in Nat /\ now =< end /\ end =< now + SignatureTtl /\ end =< Expiry[v]
  BY <1>1, <1>3 DEF expiresOf, least
<1>5. maxAge(end) \in Nat
  BY <1>1, <1>4 DEF maxAge, least
<1>6. encodeResult(query, v) \in Result /\ encodeResult(query, v).envelope = v
  BY <1>2 DEF encodeResult, plain, wrapped, Result
<1>7. /\ r.sender = sender /\ r.query = query /\ r.result = encodeResult(query, v) /\ r.expires = end
      /\ r.signature = [signer |-> Gateway, digest |-> makeSignatureHash(sender, end, query, encodeResult(query, v))]
      /\ r.maxAge = maxAge(end) /\ r.at = now /\ r.fallback = get[g].fallback
      /\ r = [sender |-> r.sender, query |-> r.query, result |-> r.result, expires |-> r.expires,
              signature |-> r.signature, maxAge |-> r.maxAge, at |-> r.at, fallback |-> r.fallback]
  BY DEF signedResponse
<1> HIDE DEF r, end
<1>8. r.signature \in [signer : {Gateway}, digest : Resolvers \X Nat \X Query \X Result]
  BY <1>4, <1>6, <1>7 DEF makeSignatureHash
<1>9. r \in Response
  BY <1>1, <1>2, <1>4, <1>5, <1>6, <1>7, <1>8 DEF Response
<1>10. ResponseOk(r)
  <2>1. /\ r.query.node \in Nodes /\ r.query.key = EnvelopeKey /\ decodes(r.query)
        /\ r.result = encodeResult(r.query, r.result.envelope) /\ r.result.envelope = v
        /\ r.query.node = get[g].node
    BY <1>2, <1>6, <1>7 DEF Servable
  <2>2. r.signature.digest = makeSignatureHash(r.sender, r.expires, r.query, r.result)
    BY <1>7
  <2>3. r.at =< now /\ r.expires =< r.at + SignatureTtl /\ r.expires =< Expiry[v]
    BY <1>1, <1>4, <1>7
  <2>4. ~r.fallback => Lags(r.query.node, v, r.at)
    BY <1>2, <1>7, <2>1
  <2> QED
    BY <1>2, <2>1, <2>2, <2>3, <2>4 DEF ResponseOk
<1> QED
  BY <1>9, <1>10 DEF r

LEMMA RespondInv == ASSUME IInv, NEW g \in Gets, Respond(g) PROVE IInv'
<1>1. Return(g) /\ UNCHANGED resolverVars /\ get[g].phase = "answered" /\ UNCHANGED <<now, written>>
  BY DEF Respond, Return
<1>2. StoreInv'
  BY <1>1, ReturnInv DEF IInv
<1>3. ResolverTypeOK'
  BY <1>1 DEF IInv, ResolverTypeOK, resolverVars
<1>4. responses' \subseteq Response /\ ResponsesInv'
  <2>1. ASSUME NEW r \in responses PROVE r \in Response /\ ResponseOk(r)'
    BY <1>1, <2>1, ResponseFacts DEF ResponseOk, Lags, Superseded, SupersededAt
  <2>2. CASE responses' = responses
    BY <2>1, <2>2 DEF ResponsesInv
  <2>3. CASE responses' # responses
    <3>1. PICK a \in Asked :
             /\ Servable(a[1], a[2]) /\ a[2].node = get[g].node
             /\ get[g].record # 0 /\ unexpired(get[g].record)
             /\ responses' = responses \cup {signedResponse(a[1], a[2], get[g].record, get[g].fallback)}
      BY <2>3 DEF Respond
    <3>2. a[1] \in Resolvers /\ a[2] \in Query /\ a = <<a[1], a[2]>>
      BY CcipConstants
    <3> DEFINE r == signedResponse(a[1], a[2], get[g].record, get[g].fallback)
    <3>3. r \in Response /\ ResponseOk(r)
      BY <1>1, <3>1, <3>2, SignedOk
    <3>4. responses' = responses \cup {r}
      BY <3>1
    <3> HIDE DEF r
    <3>5. \A s \in responses' : s \in Response /\ (s = r \/ s \in responses)
      BY <2>1, <3>3, <3>4
    <3>6. ASSUME NEW s \in responses' PROVE ResponseOk(s)'
      <4>1. ResponseOk(s)
        BY <3>3, <3>5, ResponseFacts
      <4> QED
        BY <1>1, <4>1 DEF ResponseOk, Lags, Superseded, SupersededAt
    <3> QED
      BY <3>5, <3>6 DEF ResponsesInv
  <2> QED
    BY <2>2, <2>3
<1> QED
  BY <1>2, <1>3, <1>4 DEF IInv

LEMMA InitInv == Init => IInv
<1> SUFFICES ASSUME Init PROVE IInv
  OBVIOUS
<1> USE FeedConstants, CcipConstants
<1>1. /\ now = 0 /\ written = [n \in Nodes |-> <<>>] /\ cache = [n \in Nodes |-> NoEntry]
      /\ get = [g \in Gets |-> idle(g)] /\ responses = {}
      /\ signers = Signers /\ envelopes = [n \in Storable |-> NoEnvelope]
  BY DEF Init, FeedInit, ResolverInit
<1>2. \A g \in Gets : get[g] \in Call /\ CallOk(get[g])
  BY <1>1, IdleOk
<1>3. get \in [Gets -> Call] /\ CallsInv
  BY <1>1, <1>2 DEF CallsInv
<1>4. FeedTypeOK
  BY <1>1, <1>3 DEF FeedTypeOK
<1>5. \A n \in Nodes : Len(written[n]) =< MaxVersion
  BY <1>1 DEF MaxVersion
<1>6. EntriesInv
  BY <1>1 DEF EntriesInv
<1>7. ResolverTypeOK
  BY <1>1 DEF ResolverTypeOK
<1> QED
  BY <1>1, <1>3, <1>4, <1>5, <1>6, <1>7 DEF IInv, StoreInv, ResponsesInv

\* A step of the store by itself.
LEMMA StoreOnly ==
    ASSUME IInv, StoreInv', UNCHANGED <<resolverVars, responses, now, written>>
    PROVE  IInv'
<1>1. now \in Nat
  BY DEF IInv, StoreInv, FeedTypeOK
<1>2. responses' \subseteq Response /\ ResponsesInv'
  BY <1>1, ResponsesStay
<1> QED
  BY <1>2 DEF IInv, ResolverTypeOK, resolverVars

LEMMA AdministerInv == ASSUME IInv, Administer, UNCHANGED <<feedVars, responses>> PROVE IInv'
<1>1. ResolverTypeOK'
  BY DEF Administer, setSigner, setEnvelope, IInv, ResolverTypeOK
<1>2. UNCHANGED <<now, written, cache, get, responses>>
  BY DEF feedVars
<1>3. StoreInv'
  BY <1>2 DEF IInv, StoreInv, FeedTypeOK, EntriesInv, CallsInv, CallOk, Since, Lags, Superseded, SupersededAt
<1>4. responses' \subseteq Response /\ ResponsesInv'
  BY <1>2, <1>3, ResponsesStay DEF StoreInv, FeedTypeOK
<1> QED
  BY <1>1, <1>3, <1>4 DEF IInv

LEMMA PassInv == ASSUME IInv, Pass PROVE IInv'
<1>1. StoreInv' /\ now \in Nat /\ now' = now + 1 /\ UNCHANGED <<written, resolverVars>> /\ responses' \subseteq responses
  BY TickInv DEF IInv, Pass, Tick, StoreInv, FeedTypeOK
<1>2. responses' \subseteq Response /\ ResponsesInv'
  BY <1>1, ResponsesStay
<1> QED
  BY <1>1, <1>2 DEF IInv, ResolverTypeOK, resolverVars

LEMMA NextInv == ASSUME IInv, [Next]_vars PROVE IInv'
<1>1. StoreInv
  BY DEF IInv
<1>2. CASE UNCHANGED vars
  <2>1. UNCHANGED <<now, written, cache, get, resolverVars, responses>>
    BY <1>2 DEF vars, feedVars
  <2>2. StoreInv'
    BY <1>1, <2>1 DEF StoreInv, FeedTypeOK, EntriesInv, CallsInv, CallOk, Since, Lags, Superseded, SupersededAt
  <2> QED
    BY <2>1, <2>2, StoreOnly
<1>3. ASSUME NEW g \in Gets, NEW n \in Nodes, Lookup(g, n) PROVE IInv'
  BY <1>1, <1>3, GetInv, StoreOnly DEF Lookup, Get
<1>4. ASSUME NEW g \in Gets, Hear(g) \/ Finish(g) \/ Fail(g), UNCHANGED <<resolverVars, responses>> PROVE IInv'
  <2>1. UNCHANGED <<now, written>>
    BY <1>4 DEF Hear, Finish, Fail
  <2> QED
    BY <1>1, <1>4, <2>1, HearInv, FinishInv, FailInv, StoreOnly
<1>5. ASSUME NEW n \in Nodes, WriteFeed(n), UNCHANGED <<resolverVars, responses>> PROVE IInv'
  BY <1>1, <1>5, WriteFeedInv, ResponsesAfterWrite DEF IInv, ResolverTypeOK, resolverVars
<1> QED
  BY <1>2, <1>3, <1>4, <1>5, RespondInv, AdministerInv, PassInv DEF Next

THEOREM Invariant == Spec => []IInv
<1>1. IInv /\ [Next]_vars => IInv'
  BY NextInv
<1> QED
  BY InitInv, <1>1, PTL DEF Spec
----------------------------------------------------------------------------
(* The properties. *)

\* Every reachable state is of its types.
THEOREM TypeCorrect == Spec => []TypeOK
<1>1. IInv => TypeOK
  BY DEF IInv, StoreInv, TypeOK
<1> QED
  BY Invariant, <1>1, PTL

\* An accepted answer rests on a response to that very query, for this contract.
LEMMA AcceptedFacts ==
    ASSUME IInv, NEW query, NEW result, NEW expires, NEW t, Accepted(query, result, expires, t)
    PROVE  /\ expires >= t
           /\ \E r \in responses : r.sender = This /\ r.query = query /\ r.result = result /\ r.expires = expires
<1>1. PICK sender \in Resolvers, r \in responses : resolveWithProof(query, sender, result, expires, r.signature, t)
  BY DEF Accepted
<1>2. <<This, expires, query, result>> = <<r.sender, r.expires, r.query, r.result>> /\ expires >= t
  BY <1>1, ResponseFacts DEF resolveWithProof, ResponseOk, makeSignatureHash
<1>3. r.sender = This /\ r.query = query /\ r.result = result /\ r.expires = expires
  BY <1>2
<1> QED
  BY <1>2, <1>3

\* A response is bound to its contract, query, result and expiry, and an
\* accepted answer decodes like one from storage (signing.ts, ZegelResolver.sol).
THEOREM ResponsesAreBound == Spec => []ProofIsBound
<1>1. IInv => ProofIsBound
  <2> SUFFICES ASSUME IInv PROVE ProofIsBound
    OBVIOUS
  <2>1. ASSUME NEW query \in Query, NEW result \in Result, NEW expires \in now..(now + SignatureTtl),
               Accepted(query, result, expires, now)
        PROVE  /\ \E r \in responses : r.sender = This /\ r.query = query /\ r.result = result /\ r.expires = expires
               /\ query.kind = "resolve" => query.name = query.node
               /\ result.wrapped <=> query.kind = "resolve"
    <3>1. PICK r \in responses : r.sender = This /\ r.query = query /\ r.result = result /\ r.expires = expires
      BY <2>1, AcceptedFacts
    <3>2. decodes(query) /\ result = encodeResult(query, result.envelope)
      BY <3>1, ResponseFacts DEF ResponseOk
    <3>3. CASE query.kind = "resolve"
      <4>1. result = wrapped(result.envelope) /\ query.name = query.node
        BY <3>2, <3>3 DEF Query, encodeResult, decodes
      <4>2. result.wrapped
        BY <4>1 DEF wrapped
      <4> QED
        BY <3>1, <3>3, <4>1, <4>2
    <3>4. CASE query.kind = "data"
      <4>1. result = plain(result.envelope)
        BY <3>2, <3>4 DEF encodeResult
      <4>2. ~result.wrapped
        BY <4>1 DEF plain
      <4> QED
        BY <3>1, <3>4, <4>2
    <3> QED
      BY <3>3, <3>4 DEF Query
  <2>2. ASSUME NEW query \in Query
        PROVE  storedAnswer(query).wrapped <=> query.kind = "resolve"
    BY DEF storedAnswer, wrapped, plain
  <2> QED
    BY <2>1, <2>2 DEF ProofIsBound
<1> QED
  BY Invariant, <1>1, PTL

\* No block accepts an envelope past its own expiry (app.ts, serveLookup).
THEOREM EnvelopesLapse == Spec => []NoEnvelopeOutlivesItself
<1>1. IInv => NoEnvelopeOutlivesItself
  <2> SUFFICES ASSUME IInv, NEW r \in responses, NEW t \in BlockTimes, Accepted(r.query, r.result, r.expires, t)
               PROVE  t =< Expiry[r.result.envelope]
    BY DEF NoEnvelopeOutlivesItself
  <2>1. r.expires >= t
    BY AcceptedFacts
  <2>2. r.expires =< Expiry[r.result.envelope] /\ r.expires \in Nat /\ Expiry[r.result.envelope] \in Nat
    BY ResponseFacts DEF ResponseOk
  <2>3. t \in Nat
    BY DEF BlockTimes
  <2> QED
    BY <2>1, <2>2, <2>3
<1> QED
  BY Invariant, <1>1, PTL

\* A superseded version is accepted for less than the time of a read and the two
\* times to live after it was superseded (config.ts, store/swarm-feed.ts).
THEOREM StaleForSoLong == Spec => []StalenessIsBounded
<1>1. IInv => StalenessIsBounded
  <2> SUFFICES ASSUME IInv, NEW r \in responses, NEW t \in BlockTimes,
                      Accepted(r.query, r.result, r.expires, t), ~r.fallback,
                      Superseded(r.query.node, r.result.envelope)
               PROVE  t < SupersededAt(r.query.node, r.result.envelope) + ReadTime + CacheTtl + SignatureTtl
    BY DEF StalenessIsBounded
  <2> DEFINE end == SupersededAt(r.query.node, r.result.envelope)
  <2>1. r.expires >= t /\ t \in Nat
    BY AcceptedFacts DEF BlockTimes
  <2>2. /\ r.expires =< r.at + SignatureTtl /\ r.expires \in Nat /\ r.at \in Nat
        /\ r.at < end + ReadTime + CacheTtl
    BY ResponseFacts DEF ResponseOk, Lags
  <2>3. r.query.node \in Nodes /\ r.result.envelope \in Nat /\ StoreInv
    BY ResponseFacts DEF IInv
  <2>4. end \in Nat /\ SignatureTtl \in Nat /\ ReadTime \in Nat /\ CacheTtl \in Nat
    <3> DEFINE n == r.query.node
               v == r.result.envelope
    <3>1. Len(written[n]) > v
      BY DEF Superseded
    <3> HIDE DEF n, v
    <3>2. n \in Nodes /\ v \in Nat /\ StoreInv
      BY <2>3 DEF n, v
    <3>3. v + 1 \in 1..Len(written[n]) /\ SignatureTtl \in Nat /\ ReadTime \in Nat /\ CacheTtl \in Nat
      BY <3>1, <3>2, FeedFacts
    <3>4. written[n][v + 1] \in Nat
      BY <3>2, <3>3, FeedFacts
    <3> QED
      BY <3>3, <3>4 DEF SupersededAt, n, v
  <2> QED
    BY <2>1, <2>2, <2>4
<1> QED
  BY Invariant, <1>1, PTL
=============================================================================
