-------------------------- MODULE ClaimDerivation --------------------------
(* The pure half of packages/evidence: the claims of a bundle (derive.ts), and *)
(* the re-run that a reader holds against them (verify.ts).                    *)
(*                                                                             *)
(* A body is what an upstream answered: a set of trade cycles, a set of trades,*)
(* the date of the first funding, a security reading, which may name its asset *)
(* itself. A window is [from, to]. Sums, products and                          *)
(* ratios are exact, a ratio being a pair <<numerator, denominator>>: the code *)
(* rounds to two, four or six digits, and no property is about the digits. A   *)
(* digest is injective, so a body stands for its own.                          *)
EXTENDS Integers, Sequences, FiniteSets, FiniteSetsExt, SequencesExt

CONSTANTS
  Cycles,     \* [asset, open, entry, exit, pnl, fees, volume]; entry and exit may be Null
  Trades,     \* [date, total, mev]
  Floor,      \* securityScoreFloor
  Thresholds, \* claim id -> ratio
  Null        \* an absent date, score, body or claim

AtMost  == {"max-drawdown-usd", "trading-cost-ratio", "mev-fee-share", "risk-quality-ratio",
            "position-concentration"}
AtLeast == {"realized-pnl-usd", "closed-position-cycles", "win-rate",
            "median-holding-period-days", "wallet-age-days"}
ClaimIds == AtMost \cup AtLeast

ASSUME ThresholdsAssumption ==
  Thresholds \in [ClaimIds -> Int \X (Nat \ {0})]
------------------------------------------------------------------------------
(* Sources are the bundle's, in order; the index of one is its position.       *)

usable(sources, kind) ==
  {i \in DOMAIN sources : /\ sources[i].request.kind = kind
                          /\ ~sources[i].unavailable
                          /\ sources[i].body # Null}

InWindow(t, window) == t # Null /\ window.from =< t /\ t =< window.to

Counts(c, window) == ~c.open /\ InWindow(c.exit, window)
SameCycle(c, d) == c.asset = d.asset /\ c.entry = d.entry /\ c.exit = d.exit

(* Mutant: a cycle that two responses carry counts twice.                      *)
counted_Twice(sources, window) ==
  {p \in usable(sources, "history") \X Cycles : p[2] \in sources[p[1]].body /\ Counts(p[2], window)}

(* A cycle that several responses carry is taken from the first of them. (One   *)
(* response names a cycle once.)                                               *)
counted(sources, window) ==
  LET histories == usable(sources, "history") IN
  {p \in histories \X Cycles :
     /\ p[2] \in sources[p[1]].body /\ Counts(p[2], window)
     /\ ~\E i \in histories : i < p[1] /\ \E d \in sources[i].body : Counts(d, window) /\ SameCycle(d, p[2])}

At(t) == IF t = Null THEN 0 ELSE t

Before(p, q) ==
  LET c == p[2]  d == q[2] IN
  \/ At(c.exit) < At(d.exit)
  \/ /\ At(c.exit) = At(d.exit)
     /\ At(c.entry) < At(d.entry) \/ (At(c.entry) = At(d.entry) /\ c.asset < d.asset)

(* The walk over the closed cycles: the profit so far, its peak, its fall.      *)
Upto(closed, p) == {q \in closed : q = p \/ Before(q, p)}
cumulative(closed, p) == MapThenSumSet(LAMBDA q : q[2].pnl, Upto(closed, p))
peak(closed, p) == Max({0} \cup {cumulative(closed, q) : q \in Upto(closed, p)})
maxDrawdown(closed) ==
  Max({0} \cup {peak(closed, p) - cumulative(closed, p) : p \in closed})

heldFor(p) == p[2].exit - p[2].entry

median(held) ==
  LET sorted == SetToSortSeq(held, LAMBDA p, q : \/ heldFor(p) < heldFor(q)
                                                \/ (heldFor(p) = heldFor(q) /\ Before(p, q)))
      mid == Len(sorted) \div 2
  IN  IF Len(sorted) % 2 = 1 THEN <<heldFor(sorted[mid + 1]), 1>>
      ELSE <<heldFor(sorted[mid]) + heldFor(sorted[mid + 1]), 2>>

(* A security response is about the asset it names, and if it names none about *)
(* the one in the parameters of its request.                                   *)
ratedAsset(source) == IF source.body.asset # Null THEN source.body.asset ELSE source.request.of

(* The source that holds the security response of an asset: of several, the    *)
(* last.                                                                       *)
securityByAsset(sources) ==
  [a \in {ratedAsset(sources[i]) : i \in usable(sources, "security")} |->
     Max({i \in usable(sources, "security") : ratedAsset(sources[i]) = a})]

Measured(id, known, actual, sources) ==
  IF known THEN {[id |-> id, actual |-> actual, sources |-> sources]} ELSE {}

(* deriveMetrics() and the list of deriveClaims(): what the claims measure, and *)
(* the sources they cite. A claim that cannot be measured is absent.            *)
deriveMetrics(sources, window) ==
  LET histories == usable(sources, "history")
      closed == counted(sources, window)
      assets == {p[2].asset : p \in closed}
      volumeOf(a) == MapThenSumSet(LAMBDA p : p[2].volume, {p \in closed : p[2].asset = a})
      volume == MapThenSumSet(LAMBDA p : p[2].volume, closed)
      held == {p \in closed : p[2].entry # Null /\ p[2].entry =< p[2].exit}
      sampled(i) == {t \in sources[i].body : InWindow(t.date, window)}
      traded == {i \in usable(sources, "trades") : sampled(i) # {}}
      sumOf(field(_)) == MapThenSumSet(LAMBDA i : MapThenSumSet(field, sampled(i)), traded)
      fees == sumOf(LAMBDA t : t.total)
      security == securityByAsset(sources)
      scored == {a \in assets \cap DOMAIN security : sources[security[a]].body.score # Null}
      risky == {a \in scored : LET s == sources[security[a]].body IN s.killed \/ s.score < Floor}
      funded == {i \in usable(sources, "funding") : sources[i].body.date # Null}
      oldest == Min({sources[i].body.date : i \in funded})
  IN UNION {
       Measured("realized-pnl-usd", histories # {},
                <<MapThenSumSet(LAMBDA p : p[2].pnl, closed), 1>>, histories),
       Measured("closed-position-cycles", histories # {}, <<Cardinality(closed), 1>>, histories),
       Measured("win-rate", closed # {},
                <<Cardinality({p \in closed : p[2].pnl > 0}), Cardinality(closed)>>, histories),
       Measured("max-drawdown-usd", closed # {}, <<maxDrawdown(closed), 1>>, histories),
       Measured("median-holding-period-days", held # {}, median(held), histories),
       Measured("trading-cost-ratio", volume > 0,
                <<MapThenSumSet(LAMBDA p : p[2].fees, closed), volume>>, histories),
       Measured("mev-fee-share", fees > 0, <<sumOf(LAMBDA t : t.mev), fees>>, traded),
       Measured("risk-quality-ratio", scored # {},
                <<Cardinality(risky), Cardinality(scored)>>, {security[a] : a \in scored}),
       Measured("position-concentration", volume > 0,
                <<Max({volumeOf(a) : a \in assets}), volume>>, histories),
       Measured("wallet-age-days", funded # {}, <<window.to - oldest, 1>>,
                {Min({i \in funded : sources[i].body.date = oldest})})}

evaluate(id, actual) ==
  LET bar == Thresholds[id] IN
  IF id \in AtLeast THEN actual[1] * bar[2] >= bar[1] * actual[2]
                    ELSE actual[1] * bar[2] =< bar[1] * actual[2]

(* Claims are a set of records, one for an id. "terms" are the statement, the   *)
(* operator, the unit and the threshold.                                        *)
deriveClaims(sources, window) ==
  {[id |-> m.id, terms |-> "spec", passed |-> evaluate(m.id, m.actual),
    actual |-> m.actual, sources |-> m.sources] : m \in deriveMetrics(sources, window)}
------------------------------------------------------------------------------
(* verifyClaims(): whether nothing was found that does not match. A source with *)
(* no body and no note that it is unavailable is passed over, and so is a claim *)
(* that is stated again further on.                                             *)
digestsHold(sources) ==
  \A i \in DOMAIN sources :
    IF sources[i].unavailable THEN sources[i].body = Null
    ELSE sources[i].body # Null => sources[i].digest = sources[i].body

(* Mutant: only the claims that can be derived are compared.                    *)
verifyClaims_OneWay(bundle) ==
  /\ bundle.schema = "ours" /\ bundle.derivationId = "ours"
  /\ digestsHold(bundle.sources)
  /\ deriveClaims(bundle.sources, bundle.window) \subseteq bundle.claims

verifyClaims(bundle) ==
  /\ bundle.schema = "ours" /\ bundle.derivationId = "ours"
  /\ digestsHold(bundle.sources)
  /\ bundle.claims = deriveClaims(bundle.sources, bundle.window)
=============================================================================
