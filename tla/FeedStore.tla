----------------------------- MODULE FeedStore ------------------------------
(***************************************************************************)
(* The gateway's read-only store: Swarm feeds read through a short cache   *)
(* (gateway/src/store/swarm-feed.ts). One process serves many reads at     *)
(* once; a read takes the cache entry as it was when it began, awaits the  *)
(* node once or twice, and may fail at either.                             *)
(*                                                                         *)
(* A record is the feed index it was read at, 0 for none. All envelopes of *)
(* one index expire together. The failure a read leaves behind for /health *)
(* is left out.                                                            *)
(***************************************************************************)
EXTENDS Naturals, Sequences, FiniteSets

CONSTANTS
    Nodes,       \* names, by namehash: the feeds
    Gets,        \* the calls of get() that can be under way
    Expiry,      \* Expiry[v]: expiresAtSeconds of the envelope at index v
    NoEntry,     \* nothing cached
    CacheTtl,    \* #cacheTtl
    ReadTime,    \* how long a read can take: the timeouts of its two requests
    MaxTime      \* bound: the last instant of the model

MaxVersion == Len(Expiry)
Records == 0..MaxVersion

ASSUME FeedConstants ==
    /\ Nodes # {}
    /\ Expiry \in Seq(Nat)
    /\ CacheTtl \in Nat /\ ReadTime \in Nat /\ MaxTime \in Nat

VARIABLES
    now,       \* #now()
    written,   \* written[n]: when each version of the feed was written
    cache,     \* #cache
    get        \* get[g]: where call g stands

feedVars == <<now, written, cache, get>>

Entry == [record : Records, fetchedAt : Nat]

Call == [phase : {"idle", "reading", "heard", "answered"}, node : Nodes, cached : Entry \cup {NoEntry},
         since : Nat, record : Records, fallback : BOOLEAN]
----------------------------------------------------------------------------
unexpired(record) == Expiry[record] > now

\* Mutant: an entry is used for a second longer than its time to live.
isFresh_Late(entry) ==
    /\ now - entry.fetchedAt =< CacheTtl
    /\ entry.record # 0 => unexpired(entry.record)

isFresh(entry) ==
    /\ now - entry.fetchedAt < CacheTtl
    /\ entry.record # 0 => unexpired(entry.record)

\* A call with its answer; what it began with does not matter any more.
answered(n, record, isFallback) ==
    [phase |-> "answered", node |-> n, cached |-> NoEntry, since |-> 0, record |-> record, fallback |-> isFallback]

\* A call begins: it is answered from the cache, or it asks the node.
Get(g, n) ==
    LET hit == cache[n] # NoEntry /\ isFresh(cache[n])
    IN  /\ get[g].phase = "idle"
        /\ get' = [get EXCEPT ![g] =
              IF hit THEN answered(n, cache[n].record, FALSE)
              ELSE [phase |-> "reading", node |-> n, cached |-> cache[n], since |-> now, record |-> 0, fallback |-> FALSE]]
        /\ UNCHANGED <<now, written, cache>>

\* The node answers with the feed as it is, 404 if nothing is written. The body
\* and what a pointer leads to are still to be read.
Hear(g) ==
    /\ get[g].phase = "reading"
    /\ get' = [get EXCEPT ![g].phase = "heard", ![g].record = Len(written[get[g].node])]
    /\ UNCHANGED <<now, written, cache>>

\* The record is cached whatever has been cached since the call began.
Finish(g) ==
    /\ get[g].phase = "heard"
    /\ cache' = [cache EXCEPT ![get[g].node] = [record |-> get[g].record, fetchedAt |-> now]]
    /\ get' = [get EXCEPT ![g] = answered(get[g].node, get[g].record, FALSE)]
    /\ UNCHANGED <<now, written>>

\* What a failed read answers: the entry the call began with, if it holds an
\* envelope that has not expired.
fallback(g) ==
    LET cached == get[g].cached
    IN  IF cached # NoEntry /\ cached.record # 0 /\ unexpired(cached.record) THEN cached.record ELSE 0

\* The node cannot be reached, answers badly or too late, or with something
\* that is not an envelope.
Fail(g) ==
    /\ get[g].phase \in {"reading", "heard"}
    /\ get' = [get EXCEPT ![g] = answered(get[g].node, fallback(g), TRUE)]
    /\ UNCHANGED <<now, written, cache>>

\* The caller has its answer. Idle calls are all alike.
idle(g) == [phase |-> "idle", node |-> CHOOSE n \in Nodes : TRUE, cached |-> NoEntry, since |-> 0,
            record |-> 0, fallback |-> FALSE]

Return(g) ==
    /\ get[g].phase = "answered"
    /\ get' = [get EXCEPT ![g] = idle(g)]
    /\ UNCHANGED <<now, written, cache>>
----------------------------------------------------------------------------
\* The publisher writes the next version.
WriteFeed(n) ==
    /\ Len(written[n]) < MaxVersion
    /\ written' = [written EXCEPT ![n] = Append(@, now)]
    /\ UNCHANGED <<now, cache, get>>

\* A read is aborted when its time is up, and an answer is used as it is given.
Tick ==
    /\ now < MaxTime
    /\ \A g \in Gets : get[g].phase # "answered"
    /\ \A g \in Gets : get[g].phase \in {"reading", "heard"} => now < get[g].since + ReadTime
    /\ now' = now + 1
    /\ UNCHANGED <<written, cache, get>>

FeedInit ==
    /\ now = 0
    /\ written = [n \in Nodes |-> <<>>]
    /\ cache = [n \in Nodes |-> NoEntry]
    /\ get = [g \in Gets |-> idle(g)]
----------------------------------------------------------------------------
FeedTypeOK ==
    /\ now \in 0..MaxTime
    /\ written \in [Nodes -> Seq(0..MaxTime)]
    /\ cache \in [Nodes -> Entry \cup {NoEntry}]
    /\ \A n \in Nodes : cache[n] # NoEntry => cache[n].record =< Len(written[n])
    /\ get \in [Gets -> Call]

\* A version is superseded when the next one is written.
Superseded(n, record) == Len(written[n]) > record
SupersededAt(n, record) == written[n][record + 1]
=============================================================================
