------------------------- MODULE EvidenceCollection -------------------------
(* buildEvidence() of packages/evidence/src/collect.ts over the client of       *)
(* client.ts: a plan of requests worked off by a few workers that share a slot  *)
(* counter, each request retried by the client, then a second plan for the      *)
(* assets that were traded, then the bundle and its claims. Afterwards the      *)
(* bundle may be edited before a reader re-runs the derivation.                 *)
(*                                                                              *)
(* The upstream is not under src/: it may answer any request with any body of   *)
(* its kind, so two responses can overlap or disagree. Requests whose bodies no *)
(* claim reads are of the kind "other".                                         *)
EXTENDS ClaimDerivation

CONSTANTS
  Chains,             \* the chains, as the sorted sequence buildEvidence makes
  PerChain,           \* kinds of request made for each chain, in order
  PerWallet,          \* kinds of request made once
  Bodies,             \* kind -> what the upstream may answer
  From, To,           \* the window
  Concurrency,
  MaxAttempts,
  MaxSecurityLookups,
  MaxEdits            \* bound: edits of a finished bundle

Workers == 1..Concurrency
Window == [from |-> From, to |-> To]
Assets == {c.asset : c \in Cycles}

ASSUME CollectionAssumption ==
  /\ Concurrency \in Nat \ {0} /\ MaxAttempts \in Nat \ {0} /\ MaxSecurityLookups \in Nat
  /\ IsFiniteSet(Assets)

(* What can be read is a body: no JSON text parses to undefined. The date of a  *)
(* first funding is a time, or it is not told.                                  *)
ASSUME BodiesAssumption ==
  /\ Len(Chains) \in Nat /\ Len(PerChain) \in Nat /\ Len(PerWallet) \in Nat
  /\ \A k \in 1..Len(PerChain) : Null \notin Bodies[PerChain[k]]
  /\ \A k \in 1..Len(PerWallet) : Null \notin Bodies[PerWallet[k]]
  /\ Null \notin Bodies["security"]
  /\ \A body \in Bodies["funding"] : body.date \in Int \cup {Null}

Request(kind, of) == [kind |-> kind, of |-> of]

(* The plan of the first phase: the requests of each chain, chain by chain, and *)
(* those about the wallet.                                                      *)
Plan ==
  [slot \in 1..(Len(Chains) * Len(PerChain)) |->
     Request(PerChain[((slot - 1) % Len(PerChain)) + 1], Chains[((slot - 1) \div Len(PerChain)) + 1])]
  \o [k \in 1..Len(PerWallet) |-> Request(PerWallet[k], "wallet")]

VARIABLES
  phase,      \* "planned", "security", "done", "rejected"
  plan,       \* the plan being worked off
  next,       \* the slot counter the workers share
  results,    \* results by slot; Null until the slot is settled
  worker,     \* worker -> what it awaits
  collected,  \* the results of the first phase
  bundle,     \* the bundle, or Null
  answers,    \* history variable: request -> the answer it was settled with
  issued,     \* history variable: the bundle as it was assembled
  edits, verdict

collectionVars == <<phase, plan, next, results, worker, collected, bundle, answers, issued, edits, verdict>>

Stopped == [slot |-> 0, attempt |-> 0, waiting |-> FALSE]
------------------------------------------------------------------------------
(* runPlan(). A worker starts, or goes on after a result, without giving up     *)
(* control between taking a slot and asking.                                    *)

Taking(slot, p) ==
  IF slot =< Len(p) THEN [slot |-> slot, attempt |-> 1, waiting |-> FALSE] ELSE Stopped

start(p) ==
  /\ plan' = p
  /\ results' = [slot \in 1..Len(p) |-> Null]
  /\ worker' = [w \in Workers |-> Taking(w, p)]
  /\ next' = Concurrency + 1

(* The result is stored in the slot of its request and the next slot is taken.  *)
settle(w, result) ==
  LET slot == worker[w].slot IN
  /\ worker' = [worker EXCEPT ![w] = Taking(next, plan)]
  /\ results' = [results EXCEPT ![slot] = result]
  /\ next' = next + 1
  /\ answers' = [r \in DOMAIN answers \cup {plan[slot]} |->
                   IF r = plan[slot] THEN result ELSE answers[r]]

Asking(w) == worker[w].slot # 0 /\ ~worker[w].waiting

(* The source that toSource() makes of a result; the index is its place in the  *)
(* bundle.                                                                      *)
Got(w, body) ==
  [request |-> plan[worker[w].slot], unavailable |-> FALSE, body |-> body, digest |-> body]
Failed(w) ==
  [request |-> plan[worker[w].slot], unavailable |-> TRUE, body |-> Null, digest |-> Null]

answered(w) ==
  /\ Asking(w)
  /\ \E body \in Bodies[plan[worker[w].slot].kind] : settle(w, Got(w, body))
  /\ UNCHANGED <<phase, plan, collected, bundle, issued, edits, verdict>>

(* A status that is not worth a retry.                                          *)
refused(w) ==
  /\ Asking(w) /\ settle(w, Failed(w))
  /\ UNCHANGED <<phase, plan, collected, bundle, issued, edits, verdict>>

(* A network failure, a timeout, 408, 429 or 5xx: tried again after a pause, up *)
(* to MaxAttempts.                                                              *)
unanswered(w) ==
  /\ Asking(w)
  /\ IF worker[w].attempt < MaxAttempts
       THEN /\ worker' = [worker EXCEPT ![w].waiting = TRUE]
            /\ UNCHANGED <<next, results, answers>>
       ELSE settle(w, Failed(w))
  /\ UNCHANGED <<phase, plan, collected, bundle, issued, edits, verdict>>

(* Mutant: the attempt is not counted.                                          *)
retry_Uncounted(w) ==
  /\ worker[w].waiting
  /\ worker' = [worker EXCEPT ![w].waiting = FALSE]
  /\ UNCHANGED <<phase, plan, next, results, collected, bundle, answers, issued, edits, verdict>>

retry(w) ==
  /\ worker[w].waiting
  /\ worker' = [worker EXCEPT ![w].waiting = FALSE, ![w].attempt = @ + 1]
  /\ UNCHANGED <<phase, plan, next, results, collected, bundle, answers, issued, edits, verdict>>

(* A 200 whose body cannot be read: the error is no MobulaError, so tryGet lets *)
(* it through and runPlan rejects. The other workers go on.                     *)
unreadable(w) ==
  /\ Asking(w)
  /\ phase' = "rejected"
  /\ worker' = [worker EXCEPT ![w] = Stopped]
  /\ UNCHANGED <<plan, next, results, collected, bundle, answers, issued, edits, verdict>>

AllStopped == \A w \in Workers : worker[w] = Stopped
------------------------------------------------------------------------------
(* The second phase and the bundle.                                             *)

(* Assets by traded volume, the busiest first. Every response counts here, the  *)
(* ones that repeat a cycle included.                                           *)
rankTradedAssets(sources) ==
  LET traded == {p \in usable(sources, "history") \X Cycles :
                   p[2] \in sources[p[1]].body /\ InWindow(p[2].exit, Window)}
      volume(a) == MapThenSumSet(LAMBDA p : p[2].volume, {p \in traded : p[2].asset = a})
      assets == {p[2].asset : p \in traded}
      busier(a) == {b \in assets : volume(b) > volume(a) \/ (volume(b) = volume(a) /\ b < a)}
  IN  [k \in 1..Min({MaxSecurityLookups, Cardinality(assets)}) |->
         CHOOSE a \in assets : Cardinality(busier(a)) = k - 1]

Rank ==
  /\ phase = "planned" /\ AllStopped
  /\ LET assets == rankTradedAssets(results) IN
     start([k \in 1..Len(assets) |-> Request("security", assets[k])])
  /\ collected' = results
  /\ phase' = "security"
  /\ UNCHANGED <<bundle, answers, issued, edits, verdict>>

Assemble ==
  /\ phase = "security" /\ AllStopped
  /\ bundle' = [schema |-> "ours", derivationId |-> "ours", subject |-> "ours", window |-> Window,
                sources |-> collected \o results, claims |-> deriveClaims(collected \o results, Window),
                repeated |-> {}]
  /\ issued' = bundle'
  /\ phase' = "done"
  /\ UNCHANGED <<plan, next, results, worker, collected, answers, edits, verdict>>
------------------------------------------------------------------------------
(* What may happen to a bundle on its way. Its sources keep their places: one    *)
(* that is left out is to the derivation as one without a body. A claim may be  *)
(* stated once more, ahead of the one that is there: "repeated" holds these.    *)

(* The answer of a source: nudged, taken out or put in, with the digest that was *)
(* there or the one that goes with it, noted as unavailable or not.             *)
EditAnswer(i) ==
  LET source == bundle.sources[i] IN
  \E body \in Bodies[issued.sources[i].request.kind] \cup {Null}, unavailable \in BOOLEAN :
    \E digest \in {body, source.digest} :
      bundle' = [bundle EXCEPT !.sources[i] =
                   [request |-> @.request, unavailable |-> unavailable, body |-> body, digest |-> digest]]

(* Its endpoint, to one that no claim reads, or its parameters.                 *)
EditRequest(i) ==
  \/ bundle' = [bundle EXCEPT !.sources[i].request.kind = "other"]
  \/ \E of \in IF bundle.sources[i].request.kind = "security" THEN Assets ELSE {"other"} :
       bundle' = [bundle EXCEPT !.sources[i].request.of = of]

(* A window that begins or ends earlier or later, the rules it is said to be     *)
(* derived by, and what no claim is derived from: the subject, the reference,   *)
(* the date, the proof of control. All of these are the model's subject.        *)
EditFrame ==
  \/ \E d \in {-1, 1} : \/ bundle' = [bundle EXCEPT !.window.from = @ + d]
                         \/ bundle' = [bundle EXCEPT !.window.to = @ + d]
  \/ bundle' = [bundle EXCEPT !.subject = "other"]
  \/ bundle' = [bundle EXCEPT !.schema = "foreign"]
  \/ bundle' = [bundle EXCEPT !.derivationId = "foreign"]

Replace(old, new) == bundle' = [bundle EXCEPT !.claims = (@ \ old) \cup new]

EditClaim(c) ==
  \/ bundle' = [bundle EXCEPT !.repeated = @ \cup {[c EXCEPT !.passed = ~@]}]
  \/ Replace({c}, {[c EXCEPT !.passed = ~@]})
  \/ Replace({c}, {[c EXCEPT !.actual[1] = @ + 1]})
  \/ Replace({c}, {[c EXCEPT !.terms = "other"]})
  \/ Replace({c}, {[c EXCEPT !.sources = {}]})
  \/ Replace({c}, {})

InventClaim(id) ==
  Replace({}, {[id |-> id, terms |-> "spec", passed |-> TRUE, actual |-> <<1, 1>>, sources |-> {1}]})

ClaimsMade == {c.id : c \in bundle.claims}

Edit ==
  /\ phase = "done" /\ verdict = "none" /\ edits < MaxEdits
  /\ \/ \E i \in DOMAIN bundle.sources : EditAnswer(i) \/ EditRequest(i)
     \/ EditFrame
     \/ \E c \in bundle.claims : EditClaim(c)
     \/ \E id \in ClaimIds \ ClaimsMade : InventClaim(id)
  /\ edits' = edits + 1
  /\ UNCHANGED <<phase, plan, next, results, worker, collected, answers, issued, verdict>>

VerifyBundle ==
  /\ phase = "done" /\ verdict = "none"
  /\ verdict' = IF verifyClaims(bundle) THEN "ok" ELSE "mismatch"
  /\ UNCHANGED <<phase, plan, next, results, worker, collected, bundle, answers, issued, edits>>
------------------------------------------------------------------------------
CollectionInit ==
  /\ phase = "planned"
  /\ plan = Plan
  /\ next = Concurrency + 1
  /\ results = [slot \in 1..Len(Plan) |-> Null]
  /\ worker = [w \in Workers |-> Taking(w, Plan)]
  /\ collected = <<>> /\ bundle = Null
  /\ answers = <<>>
  /\ issued = Null
  /\ edits = 0 /\ verdict = "none"

Work(w) == answered(w) \/ refused(w) \/ unanswered(w) \/ retry(w) \/ unreadable(w)

CollectionNext == (\E w \in Workers : Work(w)) \/ Rank \/ Assemble \/ Edit \/ VerifyBundle

(* A request settles or times out (AbortSignal.timeout), a pause ends, and a    *)
(* promise whose workers have returned goes on.                                 *)
CollectionFairness == (\A w \in Workers : WF_collectionVars(Work(w))) /\ WF_collectionVars(Rank) /\ WF_collectionVars(Assemble)

CollectionSpec == CollectionInit /\ [][CollectionNext]_collectionVars
CollectionFairSpec == CollectionSpec /\ CollectionFairness
------------------------------------------------------------------------------
Assembled == phase = "done" /\ edits = 0

(* What the claims about closed cycles say, in other words than the code: over  *)
(* the cycles themselves, whichever responses carry them.                       *)
HistoryOf(c) == answers[Request("history", c)]
Heard == {i \in 1..Len(Chains) : ~HistoryOf(Chains[i]).unavailable}
Reported(i) == {d \in HistoryOf(Chains[i]).body : Counts(d, Window)}
Key(d) == <<d.exit, At(d.entry), d.asset>>
Keys == {Key(d) : d \in UNION {Reported(i) : i \in Heard}}
PnlOf(k) ==
  LET first == Min({i \in Heard : \E d \in Reported(i) : Key(d) = k})
  IN  (CHOOSE d \in Reported(first) : Key(d) = k).pnl
TotalOf(ks) == MapThenSumSet(PnlOf, ks)
NotAfter(k, l) ==
  \/ k = l \/ k[1] < l[1]
  \/ k[1] = l[1] /\ (k[2] < l[2] \/ (k[2] = l[2] /\ k[3] < l[3]))
WorstStretch ==
  Max({0} \cup {-TotalOf({m \in Keys : NotAfter(k, m) /\ NotAfter(m, l)}) : k \in Keys, l \in Keys})

Says(id, present, actual) ==
  {c.actual : c \in {d \in bundle.claims : d.id = id}} = IF present THEN {actual} ELSE {}

\* packages/evidence/README.md:22-27: whatever the order, the overlap and the
\* failures of the answers, the claims are those of the cycles reported: each
\* counted once, the drawdown the worst loss over consecutive cycles; and a
\* claim cites sources that answered, or is absent.
ClaimsAreReproducible ==
  Assembled =>
    /\ Says("realized-pnl-usd", Heard # {}, <<TotalOf(Keys), 1>>)
    /\ Says("closed-position-cycles", Heard # {}, <<Cardinality(Keys), 1>>)
    /\ Says("max-drawdown-usd", Keys # {}, <<WorstStretch, 1>>)
    /\ Says("win-rate", Keys # {}, <<Cardinality({k \in Keys : PnlOf(k) > 0}), Cardinality(Keys)>>)
    /\ \A c \in bundle.claims :
         /\ c.sources # {}
         /\ \A i \in c.sources : ~answers[(Plan \o plan)[i]].unavailable

\* packages/evidence/src/verify.ts:8: a bundle is confirmed as it was issued. An
\* edited one is confirmed only if no response was changed under the digest it
\* was issued with - one whose body is gone has none to compare - and if, where
\* the answers, the endpoints, the parameters and the window are the ones
\* issued, so are the claims, of each the one that is stated last. What no claim
\* rests on may be taken out or changed unseen, the subject included.
EditsAreSeen ==
  /\ verdict = "ok" =>
       /\ bundle.schema = "ours" /\ bundle.derivationId = "ours"
       /\ \A i \in DOMAIN bundle.sources :
            \/ bundle.sources[i].body \in {issued.sources[i].body, Null}
            \/ bundle.sources[i].digest # issued.sources[i].digest
       /\ bundle.sources = issued.sources /\ bundle.window = issued.window => bundle.claims = issued.claims
  /\ verdict = "mismatch" => edits > 0

\* packages/evidence/src/client.ts:167: every request is given up after
\* MaxAttempts, so the collection ends, with a bundle or with an error.
CollectionSettles == <>(phase \in {"done", "rejected"})
=============================================================================
