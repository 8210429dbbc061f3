------------------------------ MODULE Verdicts ------------------------------
(***************************************************************************)
(* What a counterparty concludes about a reference. Two tools read the     *)
(* same envelope, the same sealed tiers and the same anchor contract: the  *)
(* inspection desk of the web app (app/src/components/verify.tsx over      *)
(* app/src/app/api/verify/route.ts) and the command `zegel verify`         *)
(* (cli/src/commands/verify.ts over cli/src/core/status.ts). Both go       *)
(* through @zegel/sdk for the name and for the contract.                   *)
(*                                                                         *)
(* ZegelAnchor is the contract and its clock, which is also the wall clock *)
(* of the readers. A verification reads several things one after another   *)
(* while references are anchored, withdrawn and expire under it. A claim   *)
(* set is its digest: two claim sets with one commitment are one.          *)
(***************************************************************************)
EXTENDS ZegelAnchor, Mrz

CONSTANTS
    Readers,        \* verifications that may be under way at once
    Documents,      \* parsed JSON documents: [zegel, envelope], some of them no envelope
    Objects,        \* what reading a sealed tier can bring: [sealed, payload]
    Held,           \* the reference this browser holds: [envelope, claims]
    NoEnvelope, Malformed, Failed,   \* outcomes of a lookup that are no envelope
    Refused         \* the outcome of a read that opened nothing

VARIABLES
    runs,   \* runs[r]: a verification, from its inputs to its answer
    desk    \* the page: the document selected, whether it is busy, and what it shows

readerVars == <<runs, desk>>
verdictVars == <<vars, readerVars>>

Claims == Commitments \ {ZeroCommitment}
NoClaims == "none"
Shapes == {d.envelope : d \in Documents}

\* The contracts an envelope's revocation hint can name: the anchor, none, or a
\* contract of its author's own.
Hints == {"anchor", "none", "other"}

\* An envelope has at most the two tiers that are ever issued, a payload holds
\* claims or none, and the reference a browser holds is one it was shown by the
\* issuer: its claims are those its envelope commits to, and there are others.
ASSUME VerdictConstants ==
    /\ \A e \in Shapes : e.referenceId \in ReferenceIds /\ e.expiresAt \in Nat /\ Len(e.tiers) \in 0..2 /\ e.hint \in Hints
    /\ \A o \in Objects : o.payload.claims \in Claims \cup {NoClaims}
    /\ Held.claims \in Claims /\ Held.envelope.commitment = Held.claims
    /\ \E other \in Claims : other # Held.claims
    /\ NoClaims \notin Claims

\* What the contract answers, and what stands for no answer.
Statuses == {"NeverAnchored", "Valid", "Expired", "Revoked", "CommitmentMismatch"}
Unread == "unreadable"

\* A verification under way. `asks` is the contract it puts the reference to and
\* `reads` the outcome over the sealed tiers; `withdrawn` remembers whether the reference had been revoked when it started.
\* An answer keeps its verdict alone.
NoRun == [tool |-> "none", phase |-> "idle", kind |-> "none", envelope |-> NoEnvelope,
          claims |-> NoClaims, rederived |-> "not-run", reads |-> "not-attempted",
          asks |-> "none", anchor |-> Unread, verdict |-> "none", withdrawn |-> FALSE]
----------------------------------------------------------------------------
(* @zegel/sdk: an envelope from an ENS name. *)

\* The shape check of anything that was published or handed over.
assertEnvelope(document) ==
    IF ~document.zegel \/ document.envelope.tiers = <<>> THEN Malformed ELSE document.envelope

\* What resolving a name can run into: no resolver, a resolver of either
\* interface with its record under it, or a call that reverts or is not answered.
Lookup == [resolver : BOOLEAN, answers : BOOLEAN, record : Documents \cup {NoEnvelope}]

resolveEnvelope(lookup) ==
    IF ~lookup.resolver THEN NoEnvelope
    ELSE IF ~lookup.answers THEN Failed
    ELSE IF lookup.record = NoEnvelope THEN NoEnvelope
    ELSE assertEnvelope(lookup.record)

\* The commitment put to the contract: what the claims at hand hash to, and the
\* envelope's own only when there are none.
commitmentFor(envelope, claims) == IF claims = NoClaims THEN envelope.commitment ELSE claims

\* The contract's verify, now.
verifyAnchor(envelope, claims) == verify(envelope.referenceId, commitmentFor(envelope, claims))

\* What comes back of it: the status, or nothing when the chain cannot be read.
\* The record that is read beside it is a courtesy and decides nothing.
readAnchor(envelope, claims) == {verifyAnchor(envelope, claims), Unread}
----------------------------------------------------------------------------
(* app/src/lib/server/swarm.ts: reading a sealed tier. *)

OtherPayload == [schema |-> "other", claims |-> NoClaims, bodies |-> TRUE, agree |-> TRUE, terms |-> TRUE]

\* Bytes that are not JSON are not a read, and neither is an error or silence of
\* the node. A sealed envelope whose payload does
\* not hash to its digest is opened as if it were a bare payload.
readable(answer) == answer # Refused /\ answer.sealed # "junk"
openPayload(object) == IF object.sealed = "swapped" THEN OtherPayload ELSE object.payload

\* The payload of the last tier that opened to the given schema: an object is
\* what its schema says, whichever tier it was filed under.
opened(reads, schema) ==
    LET found == {i \in DOMAIN reads : readable(reads[i]) /\ openPayload(reads[i]).schema = schema}
    IN  IF found = {} THEN OtherPayload ELSE openPayload(reads[CHOOSE i \in found : \A j \in found : j =< i])

\* What the re-derivation of a bundle reports: what its claims come to against
\* the recorded bodies, the bodies against their digests, and the terms: a claim
\* left out, its statement, threshold or sources, a body with an unavailable source.
rederive(bundle) ==
    IF bundle.schema = "other" THEN "not-run"
    ELSE IF ~bundle.agree THEN "claims-differ"
    ELSE IF ~bundle.bodies THEN "bodies-differ"
    ELSE IF ~bundle.terms THEN "terms-differ" ELSE "ok"

rederivationFailed(f) == f.rederived \notin {"not-run", "ok"}

\* What the tiers can have opened to, by the number of tiers: whether any was
\* granted, the claims that were opened (else the projection of an opened bundle)
\* and the re-derivation of the bundle.
Openings ==
    [n \in 0..2 |->
       {[reads |-> IF \E i \in 1..n : readable(reads[i]) THEN "granted" ELSE "not-granted",
         claims |-> IF opened(reads, "claims").claims # NoClaims
                    THEN opened(reads, "claims").claims ELSE opened(reads, "bundle").claims,
         rederived |-> rederive(opened(reads, "bundle"))] : reads \in [1..n -> Objects \cup {Refused}]}]

NotAttempted == [reads |-> "not-attempted", claims |-> NoClaims, rederived |-> "not-run"]

\* Mutant: the claims that opened are inspected in place of the presented ones.
claimSet_Opened(presented, opening) == IF opening.claims # NoClaims THEN opening.claims ELSE presented

\* The claim set under inspection: the one presented, else the one that opened.
claimSet(presented, opening) == IF presented # NoClaims THEN presented ELSE opening.claims
----------------------------------------------------------------------------
(* The two verdicts. `f` is a verification that has gathered what it could. *)

matches(f) == f.claims = f.envelope.commitment
mismatch(f) == f.claims # NoClaims /\ ~matches(f)

\* Mutant: the age of a document is looked at before its withdrawal.
decide_Aged(f) ==
    IF mismatch(f) \/ f.anchor = "CommitmentMismatch" \/ rederivationFailed(f) THEN "tampered"
    ELSE IF f.anchor = "NeverAnchored" THEN "not-found"
    ELSE IF f.anchor = "Expired" \/ f.envelope.expiresAt < now THEN "expired"
    ELSE IF f.anchor = "Revoked" THEN "revoked"
    ELSE IF f.reads = "not-granted" THEN "not-granted" ELSE "valid"

\* The desk: a forgery is a forgery whatever else is wrong with it.
decide(f) ==
    IF mismatch(f) \/ f.anchor = "CommitmentMismatch" \/ rederivationFailed(f) THEN "tampered"
    ELSE IF f.anchor = "Revoked" THEN "revoked"
    ELSE IF f.anchor = "NeverAnchored" THEN "not-found"
    ELSE IF f.anchor = "Expired" \/ f.envelope.expiresAt < now THEN "expired"
    ELSE IF f.reads = "not-granted" THEN "not-granted" ELSE "valid"

\* The command's table of checks, each passed, failed or skipped.
checks(f) ==
    [expiry |-> IF f.envelope.expiresAt =< now THEN "fail" ELSE "pass",
     commitment |-> IF f.claims = NoClaims THEN "skipped" ELSE IF matches(f) THEN "pass" ELSE "fail",
     anchor |-> IF f.anchor = "Valid" THEN "pass"
                ELSE IF f.anchor \in {Unread, "NeverAnchored"} THEN "skipped" ELSE "fail",
     tier |-> IF f.reads = "granted" THEN "pass" ELSE IF f.reads = "not-granted" THEN "fail" ELSE "skipped"]

provedSomething(f) == (f.claims # NoClaims /\ matches(f)) \/ f.anchor = "Valid" \/ f.reads = "granted"

\* Mutant: the age of a document is looked at before its withdrawal.
assessReference_Aged(f) ==
    IF mismatch(f) \/ f.anchor = "CommitmentMismatch" THEN "tampered"
    ELSE IF f.envelope.expiresAt =< now \/ f.anchor = "Expired" THEN "expired"
    ELSE IF f.anchor = "Revoked" THEN "revoked"
    ELSE IF f.reads = "not-granted" THEN "not-granted"
    ELSE IF provedSomething(f) THEN "valid" ELSE "unverifiable"

\* Mutant: nothing checked is rounded up to a pass.
assessReference_Rounded(f) ==
    IF mismatch(f) \/ f.anchor = "CommitmentMismatch" THEN "tampered"
    ELSE IF f.anchor = "Revoked" THEN "revoked"
    ELSE IF f.envelope.expiresAt =< now \/ f.anchor = "Expired" THEN "expired"
    ELSE IF f.reads = "not-granted" THEN "not-granted" ELSE "valid"

\* The command, in the order of what matters most to the reader. An id nobody
\* has anchored and a chain nobody could read are skipped, never passed.
assessReference(f) ==
    IF mismatch(f) \/ f.anchor = "CommitmentMismatch" THEN "tampered"
    ELSE IF f.anchor = "Revoked" THEN "revoked"
    ELSE IF f.envelope.expiresAt =< now \/ f.anchor = "Expired" THEN "expired"
    ELSE IF f.reads = "not-granted" THEN "not-granted"
    ELSE IF provedSomething(f) THEN "valid" ELSE "unverifiable"

\* The rows the page crosses out under a verdict. The register is ticked only
\* for an anchor that was read and is live.
Inspection(f) ==
    {line \in {"anchor", "commitment", "claims", "bodies", "tier"} :
        CASE line = "anchor" -> f.anchor # "Valid"
          [] line = "commitment" -> mismatch(f)
          [] line = "claims" -> f.rederived = "claims-differ"
          [] line = "bodies" -> rederivationFailed(f)
          [] line = "tier" -> f.reads = "not-granted"}

EXIT_CODES ==
  [verdict \in {"valid", "expired", "revoked", "tampered", "not-granted", "malformed", "unverifiable"} |->
     CASE verdict = "valid" -> 0 [] verdict = "expired" -> 2 [] verdict = "revoked" -> 3
       [] verdict = "tampered" -> 4 [] verdict = "not-granted" -> 5
       [] verdict = "malformed" -> 6 [] verdict = "unverifiable" -> 7]
----------------------------------------------------------------------------
(* The inspection desk. *)

\* The forged copy: the same reference with one claim changed, which is another
\* claim set with another digest.
forge(claims) == CHOOSE other \in Claims : other # claims

\* What the desk can be given: the reference this browser holds, a forged copy
\* of it, and a name.
queue == {"record", "forgery", "name"}

started(tool, kind, envelope, claims, asks) ==
    [NoRun EXCEPT !.tool = tool, !.kind = kind, !.envelope = envelope, !.claims = claims,
                  !.asks = asks, !.phase = "reading",
                  !.withdrawn = Revoked(anchors[envelope.referenceId])]

answered(tool, kind, verdict) ==
    [NoRun EXCEPT !.phase = "answered", !.tool = tool, !.kind = kind, !.verdict = verdict]

envelopesOf(kind) ==
    IF kind # "name" THEN {Held.envelope} ELSE {resolveEnvelope(lookup) : lookup \in Lookup}

\* Selecting a document starts a request at once, also while another one is
\* under way: nothing disables the queue and nothing cancels the earlier one.
\* The first document is selected by the page itself, when it has loaded. The
\* route asks its own anchor, whatever the envelope names.
inspect(r, kind) ==
    /\ runs[r].phase = "idle"
    /\ \A other \in Readers : runs[other].tool # "command"   \* bound: the command runs alone
    /\ desk' = [selected |-> kind, busy |-> TRUE, shows |-> "nothing"]
    /\ \E envelope \in envelopesOf(kind) :
          runs' = [runs EXCEPT ![r] =
             IF envelope \in Shapes
             THEN started("desk", kind, envelope, IF kind = "forgery" THEN forge(Held.claims) ELSE NoClaims, "anchor")
             ELSE answered("desk", kind, "not-found")]
    /\ UNCHANGED vars

\* The route asks whether the reader node is up and, if it is, tries every tier
\* of the envelope in order; then it asks the contract about the claims that
\* opened, and goes on without an answer when the chain cannot be read. What the
\* node answers depends on nothing modelled here, so the reads are one step.
gather(r) ==
    /\ runs[r].tool = "desk" /\ runs[r].phase = "reading"
    /\ \E opening \in Openings[Len(runs[r].envelope.tiers)] \cup {NotAttempted} :
       \E status \in readAnchor(runs[r].envelope, claimSet(runs[r].claims, opening)) :
          runs' = [runs EXCEPT ![r].phase = "verdict", ![r].anchor = status,
                               ![r].claims = claimSet(@, opening),
                               ![r].rederived = opening.rederived, ![r].reads = opening.reads]
    /\ UNCHANGED <<vars, desk>>

\* The route answers with its verdict.
answer(r) ==
    /\ runs[r].tool = "desk" /\ runs[r].phase = "verdict"
    /\ runs' = [runs EXCEPT ![r] = answered("desk", runs[r].kind, decide(runs[r]))]
    /\ UNCHANGED <<vars, desk>>

\* The answer reaches the page, whatever document is selected by then.
show(r) ==
    /\ runs[r].tool = "desk" /\ runs[r].phase = "answered"
    /\ desk' = [desk EXCEPT !.busy = FALSE, !.shows = runs[r].verdict]
    /\ runs' = [runs EXCEPT ![r] = NoRun]
    /\ UNCHANGED vars

\* The request fails on the way there or back.
fail(r) ==
    /\ runs[r].tool = "desk"
    /\ desk' = [desk EXCEPT !.busy = FALSE, !.shows = "failure"]
    /\ runs' = [runs EXCEPT ![r] = NoRun]
    /\ UNCHANGED vars
----------------------------------------------------------------------------
(* zegel verify. *)

\* A local file may publish no tier at all: its commitment is still checkable.
shapeEnvelope(document) == IF document.zegel THEN document.envelope ELSE Malformed

\* The envelope of a file or a name. Anything but an envelope or a malformed one
\* is an operational failure, which has no verdict.
loadEnvelope == {shapeEnvelope(document) : document \in Documents}
                  \cup {resolveEnvelope(lookup) : lookup \in Lookup} \cup {Failed}

\* The claims come from --claims or from the file beside the envelope; a file
\* that cannot be read ends the command.
loadClaims == Claims \cup {NoClaims, Failed}

\* The contract the command asks: the one of --anchor, else the one the envelope
\* itself names, else that of the environment. The first and the last are taken
\* for the anchor.
anchorAsked(envelope, chosen) == IF chosen \/ envelope.hint # "other" THEN "anchor" ELSE "other"

load(r) ==
    /\ desk.selected = "none" /\ \A other \in Readers : runs[other].phase = "idle"   \* bound: the command runs alone
    /\ \E envelope \in loadEnvelope, claims \in loadClaims, chosen \in BOOLEAN :
          runs' = [runs EXCEPT ![r] =
             IF envelope = Malformed THEN answered("command", "none", "malformed")
             ELSE IF envelope \notin Shapes \/ claims = Failed THEN answered("command", "none", "none")
             ELSE started("command", "none", envelope, claims, anchorAsked(envelope, chosen))]
    /\ UNCHANGED <<vars, desk>>

\* A contract is asked by default, unless --skip-anchor; a chain that cannot be
\* read counts as not asked. Another contract than the anchor answers what its
\* author likes.
consultAnchor(r) ==
    /\ runs[r].tool = "command" /\ runs[r].phase = "reading"
    /\ \E status \in IF runs[r].asks = "anchor" THEN readAnchor(runs[r].envelope, runs[r].claims)
                      ELSE Statuses \cup {Unread} :
          runs' = [runs EXCEPT ![r].anchor = status, ![r].phase = "verdict"]
    /\ UNCHANGED <<vars, desk>>

\* --open asks for one tier. A tier the envelope does not publish, and a fault
\* that is not a refusal, count as not attempted.
openTier(envelope) ==
    IF envelope.tiers = <<>> THEN {"not-attempted"} ELSE {"not-attempted", "not-granted", "granted"}

assess(r) ==
    /\ runs[r].tool = "command" /\ runs[r].phase = "verdict"
    /\ \E outcome \in openTier(runs[r].envelope) :
          runs' = [runs EXCEPT ![r] = answered("command", "none", assessReference([runs[r] EXCEPT !.reads = outcome]))]
    /\ UNCHANGED <<vars, desk>>

\* The process ends with its exit code; 1 is a failure that is no verdict.
exitCode(run) == IF run.verdict = "none" THEN 1 ELSE EXIT_CODES[run.verdict]

exit(r) ==
    /\ runs[r].tool = "command" /\ runs[r].phase = "answered"
    /\ runs' = [runs EXCEPT ![r] = NoRun]
    /\ UNCHANGED <<vars, desk>>
----------------------------------------------------------------------------
DeskStep(r) == (\E kind \in queue : inspect(r, kind)) \/ gather(r) \/ answer(r) \/ show(r) \/ fail(r)
CommandStep(r) == load(r) \/ consultAnchor(r) \/ assess(r) \/ exit(r)

VerdictInit ==
    /\ Init
    /\ runs = [r \in Readers |-> NoRun]
    /\ desk = [selected |-> "none", busy |-> FALSE, shows |-> "nothing"]

VerdictNext ==
    \/ Next /\ UNCHANGED readerVars
    \/ \E r \in Readers : DeskStep(r) \/ CommandStep(r)

VerdictSpec == VerdictInit /\ [][VerdictNext]_verdictVars
----------------------------------------------------------------------------

\* What the desk says under a verdict, sentence by sentence.
explain(f, verdict) ==
    CASE verdict = "tampered" /\ mismatch(f) -> {"claims differ", "anchor holds the other"}
      [] verdict = "tampered" /\ ~mismatch(f) /\ f.rederived = "claims-differ" -> {"derivation differs"}
      [] verdict = "tampered" /\ ~mismatch(f) /\ f.rederived # "claims-differ" -> {"derivation agrees", "bodies differ"}
      [] verdict = "revoked" -> {"withdrawn"}
      [] verdict = "expired" -> {"not withdrawn", "run out"}
      [] verdict = "not-granted" -> {"nothing opened", "all answered 404"}
      [] verdict = "not-found" -> {"never anchored"}
      [] verdict = "valid" -> {"claims match", "anchor live", IF f.reads = "granted" THEN "opened" ELSE "nothing opened"}

\* What each of them asserts of the facts. The two that are left say what the desk
\* has not looked at.
holds(f, sentence) ==
    CASE sentence = "claims differ" -> mismatch(f)
      [] sentence = "derivation differs" -> f.rederived = "claims-differ"
      [] sentence = "derivation agrees" -> f.rederived \in {"ok", "bodies-differ", "terms-differ"}
      [] sentence = "bodies differ" -> f.rederived = "bodies-differ"
      [] sentence = "withdrawn" -> f.anchor = "Revoked"
      [] sentence = "not withdrawn" -> f.anchor \notin {"Revoked", Unread}
      [] sentence = "run out" -> f.anchor = "Expired" \/ f.envelope.expiresAt < now
      [] sentence = "never anchored" -> f.anchor = "NeverAnchored"
      [] sentence = "claims match" -> f.claims # NoClaims /\ matches(f)
      [] sentence = "anchor live" -> f.anchor = "Valid"
      [] sentence = "opened" -> f.reads = "granted"
      [] sentence = "nothing opened" -> f.reads # "granted"
      [] OTHER -> FALSE

\* Where a sentence says more than was found: the chain was not read, there were
\* no claims, the anchor alone refused, the bundle's terms are what fails, and the
\* two sentences that nothing stands behind.
overstates(f, sentence) ==
    \/ sentence \in {"anchor live", "not withdrawn"} /\ f.anchor = Unread
    \/ sentence = "claims match" /\ f.claims = NoClaims
    \/ sentence \in {"derivation agrees", "bodies differ"} /\ f.anchor = "CommitmentMismatch"
    \/ sentence = "bodies differ" /\ f.rederived = "terms-differ"
    \/ sentence \in {"anchor holds the other", "all answered 404"}

----------------------------------------------------------------------------

\* A verification answers in this step. The command's read of a tier is part of
\* that step, so what it gathered is known only up to the outcome.
Answers(r) == runs[r].phase = "verdict" /\ runs'[r].phase = "answered"

\* A reference that was revoked before a verification began is never called
\* anything kinder by it, by either tool, however it also expired, was never
\* granted or was changed meanwhile; unless the chain could not be read, or the
\* command was handed an envelope that names a contract of its own and was not
\* told with --anchor which one to ask: then it asks that one.
WithdrawnIsSeen ==
    [][\A r \in Readers : Answers(r) /\ runs[r].withdrawn /\ runs[r].asks = "anchor" /\ runs[r].anchor # Unread =>
          runs'[r].verdict \in {"revoked", "tampered"}]_verdictVars

\* Claims that are called valid are the ones the envelope was sealed over. If the
\* anchor was asked and answered, then the issuer of the id has anchored exactly
\* them at some time, as its log shows; but the command, unlike the desk, passes
\* matching claims of an id that nobody has anchored. Where the command asks the
\* contract an envelope names, the envelope vouches for itself. A forged copy is
\* refused, whatever the sealed tiers open to.
ValidBindsClaims ==
    [][\A r \in Readers : Answers(r) =>
          /\ runs'[r].verdict = "valid" /\ runs[r].claims # NoClaims =>
                /\ matches(runs[r])
                /\ runs[r].asks = "anchor" /\ runs[r].anchor # Unread =>
                      \/ runs[r].tool = "command" /\ runs[r].anchor = "NeverAnchored"
                      \/ \E e \in Range(events[runs[r].envelope.referenceId]) :
                            e.kind = "Anchored" /\ e.commitment = runs[r].claims
          /\ runs[r].kind = "forgery" => runs'[r].verdict = "tampered"]_verdictVars

\* The verdict and the table beside it are computed apart and never contradict
\* each other. The command passes nothing with a failed check or with nothing
\* proved, so that exit code 0 can be scripted; a refusal, the command's or the
\* page's, stands beside a row that failed; and under the page's pass only the
\* register may be crossed out. What the page says in words is what it found,
\* except where it overstates: a pass calls an anchor live, and an expiry a
\* reference not withdrawn, that could not be read; a pass calls claims matching
\* when none were opened; a refusal for the anchor alone, or for the terms of a
\* bundle, blames the recorded responses; and the page neither knows that the
\* anchor holds the envelope's commitment nor minds why a tier stayed shut.
RowsBearOutVerdict ==
    [][\A r \in Readers : Answers(r) =>
          LET verdict == runs'[r].verdict
              table(f) == IF runs[r].tool = "desk" THEN Inspection(f) ELSE {c \in DOMAIN checks(f) : checks(f)[c] = "fail"}
          IN  \E reads \in IF runs[r].tool = "desk" THEN {runs[r].reads} ELSE openTier(runs[r].envelope) :
                 LET f == [runs[r] EXCEPT !.reads = reads]
                 IN  /\ runs[r].tool = "command" /\ exitCode(runs'[r]) = 0 => table(f) = {} /\ provedSomething(f)
                     /\ verdict \in {"tampered", "revoked", "not-granted"} => table(f) # {}
                     /\ verdict = "valid" => table(f) \subseteq {"anchor"}
                     /\ runs[r].tool = "desk" => \A sentence \in explain(f, verdict) :
                           holds(f, sentence) \/ overstates(f, sentence)]_verdictVars

\* On the same facts, with the anchor asked, the desk and the command give the
\* same verdict about a reference, but for four cases. The desk re-derives a
\* bundle it opened and refuses what does not come out, which the command never
\* does. The desk finds nothing on file for an id that was never anchored, where
\* the command goes on to the rest of the table. The desk passes where nothing
\* could be checked and the command says so. And at the instant of the expiry
\* the command has it expired and the desk has not.
DeskAndCommandAgree ==
    [][\A r \in Readers : runs[r].tool = "desk" /\ Answers(r) =>
          LET here == runs'[r].verdict
              there == assessReference(runs[r])
          IN  \/ here = there
              \/ here = "tampered" /\ rederivationFailed(runs[r])
              \/ here = "not-found" /\ runs[r].anchor = "NeverAnchored"
              \/ here = "valid" /\ there = "unverifiable"
              \/ there = "expired" /\ runs[r].envelope.expiresAt = now]_verdictVars

LinesReadBack ==
    \A s \in Samples, tier \in {1, 2} :
        /\ ReadsBack(s.referenceId, s.commitment, s.from, s.expiry, tier)
        /\ CatchesSmudge(buildMrz(s.referenceId, s.commitment, s.from, s.expiry, tier))

\* Every line the desk prints over its result reads back, and catches one digit
\* misread for another (app/src/lib/mrz.ts:196).
MrzReadsBack == desk.shows \notin {"nothing", "failure"} => LinesReadBack
=============================================================================
