----------------------------- MODULE IssueDesk ------------------------------
(***************************************************************************)
(* Issuing from the app: page 05 (app/src/components/issue.tsx), the       *)
(* routes POST /api/issue/prepare and /api/issue, which answers with a     *)
(* stream of events while it works (app/src/lib/ndjson.ts), and what       *)
(* becomes of the record on page 07 (AccessPatch).                         *)
(*                                                                         *)
(* The server goes on when the browser has stopped listening, until it     *)
(* notices; the stream may break between any two events. Events that only  *)
(* print a line are left out.                                              *)
(***************************************************************************)
EXTENDS AccessPatch

CONSTANTS Publisher,   \* the publisher node's own key
          LastVersion  \* bound: versions the node may hold when a run is started

ASSUME DeskConstants ==
    /\ Publisher \in Keys /\ LastVersion \in Nat
    /\ Tiers = 1 .. Cardinality(Tiers)

VARIABLES
    phase,   \* what the button says
    job,     \* the request to /api/issue, as the server has it
    stream,  \* the events sent and not yet read
    heard,   \* whether the page is still reading
    sheet    \* the envelope page 05 prints: the tiers it names

deskVars == <<phase, job, stream, heard, sheet>>
vars == <<pageVars, deskVars>>

Closed == [at |-> "closed", left |-> Tiers, stored |-> <<>>, named |-> {}, publisher |-> FALSE, failed |-> FALSE]

\* The button is disabled while a run is busy.
idle == phase \in {"idle", "done", "refused"}

\* A message in the stream; nobody is left to read it once the page is gone.
send(event) == stream' = IF heard THEN Append(stream, event) ELSE stream
----------------------------------------------------------------------------
(* The page, up to the request. *)

\* run(): everything on the page is cleared and a reference id is asked for; a
\* confirmation that comes after that finds neither a control nor a record. A
\* booklet is kept once, and a request that was given up has ended.
run ==
    /\ page = 0 /\ idle /\ record = NoRecord
    /\ job.at = "closed" /\ ~heard /\ Len(lists) <= LastVersion
    /\ phase' = "signing" /\ sheet' = None
    /\ wallet' = None /\ stamped' = FALSE
    /\ UNCHANGED <<job, stream, heard, lists, sealed, record, page, busy, req, fetches, ledger, readVars, revoked, raced, crossed>>

\* No id came back, or the wallet did not sign: nothing was issued.
Unsigned ==
    /\ phase = "signing"
    /\ phase' = "refused"
    /\ UNCHANGED <<job, stream, heard, sheet, pageVars>>

\* The signed request goes out with the keys in the field, or none.
Signed ==
    /\ phase = "signing"
    /\ phase' = "collecting"
    /\ \E named \in {{}, {Reader}} : job' = [Closed EXCEPT !.at = "posted", !.named = named]
    /\ heard' = TRUE
    /\ UNCHANGED <<stream, sheet, pageVars>>
----------------------------------------------------------------------------
(* The server. *)

\* The address, the id, the signature or a key is refused before a stream is
\* opened; or the proof stands and evidence is collected.
Admit ==
    /\ job.at = "posted"
    /\ \/ send([type |-> "refusal"]) /\ job' = Closed
       \/ job' = [job EXCEPT !.at = "collecting"] /\ UNCHANGED stream
    /\ UNCHANGED <<phase, heard, sheet, pageVars>>

\* Mutant: a producer that throws just ends the stream.
thrown_Silent == UNCHANGED stream

\* ndjsonStream: what the producer throws is sent as the last event.
thrown == send([type |-> "error"])

\* The wallet's record is collected and the claims derived from it.
Collect ==
    /\ job.at = "collecting"
    /\ \/ thrown /\ job' = Closed
       \/ send([type |-> "claims"]) /\ job' = [job EXCEPT !.at = "connecting"]
    /\ UNCHANGED <<phase, heard, sheet, pageVars>>

\* publisherClient: a node that may not say what its publisher key is, or none.
Connect ==
    /\ job.at = "connecting"
    /\ \/ job' = [job EXCEPT !.at = "issuing", !.failed = TRUE]
       \/ \E known \in BOOLEAN : job' = [job EXCEPT !.at = "sealing", !.publisher = known]
    /\ UNCHANGED <<phase, stream, heard, sheet, pageVars>>

\* Mutant: no list is opened when no reader was named.
seeded_AsNamed == job.named

\* A list comes to be only if somebody is on it.
seeded == IF job.named = {} /\ job.publisher THEN {Publisher} ELSE job.named

\* seal(): a list, then the bytes under its history. The tier is kept if a
\* reader could ever open it, and passed over if the publisher is not known.
SealTier ==
    LET n == CHOOSE t \in job.left : \A other \in job.left : t <= other
        tier == [swarmRef |-> newest(sealed'), history |-> newest(lists'),
                 listRef |-> IF seeded = {} THEN NoList ELSE newest(lists')]
    IN  /\ job.at = "sealing"
        /\ createList(seeded)
        /\ upload(newest(lists'))
        /\ job' = [job EXCEPT !.left = @ \ {n}, !.at = IF job.left = {n} THEN "issuing" ELSE @,
                              !.stored = IF job.publisher THEN with(@, n, tier) ELSE @]
        /\ UNCHANGED <<phase, stream, heard, sheet>>
        /\ UNCHANGED <<record, page, busy, req, fetches, ledger, readVars, wallet, stamped, revoked, raced, crossed>>

\* The node fails; the tiers after this one are not tried.
SealFails ==
    /\ job.at = "sealing"
    /\ job' = [job EXCEPT !.at = "issuing", !.failed = TRUE]
    /\ UNCHANGED <<phase, stream, heard, sheet, pageVars>>

\* Mutant: tiers go into the envelope whether or not the record keeps them.
named_All == [n \in Tiers |-> [swarmRef |-> n, history |-> n]]

\* The tiers are handed to the envelope after the last one was sealed.
named == IF job.failed THEN <<>> ELSE [n \in DOMAIN job.stored |-> coordinates(job.stored[n])]

Issue ==
    /\ job.at = "issuing"
    /\ send([type |-> "issued", record |-> [tiers |-> job.stored, envelope |-> named, anchor |-> FALSE]])
    /\ job' = Closed
    /\ UNCHANGED <<phase, heard, sheet, pageVars>>

\* Writing to a stream nobody reads throws, in the handler as in its catch.
Abandoned ==
    /\ job.at # "closed" /\ ~heard
    /\ job' = Closed
    /\ UNCHANGED <<phase, stream, heard, sheet, pageVars>>
----------------------------------------------------------------------------
(* The page, reading. *)

\* A line that is no record only moves the phase.
Read ==
    /\ heard /\ stream # <<>> /\ Head(stream).type # "issued"
    /\ phase' = IF Head(stream).type = "claims" THEN "sealing" ELSE "refused"
    /\ stream' = Tail(stream)
    /\ UNCHANGED <<job, heard, sheet, pageVars>>

\* 'issued': the envelope is printed, and a record with a tier in it is saved.
Issued ==
    /\ heard /\ stream # <<>> /\ Head(stream).type = "issued"
    /\ phase' = "done"
    /\ sheet' = Head(stream).record.envelope
    /\ record' = IF Head(stream).record.tiers = <<>> THEN record ELSE Head(stream).record
    /\ stream' = Tail(stream)
    /\ UNCHANGED <<job, heard, lists, sealed, page, busy, req, fetches, ledger, readVars, wallet, stamped, revoked, raced, crossed>>

\* The last line was read.
Ended ==
    /\ heard /\ stream = <<>> /\ job.at = "closed"
    /\ heard' = FALSE
    /\ UNCHANGED <<phase, job, stream, sheet, pageVars>>

\* The connection is lost: refused, even after the record was saved.
Broken ==
    /\ heard
    /\ heard' = FALSE /\ stream' = <<>>
    /\ phase' = "refused"
    /\ UNCHANGED <<job, sheet, pageVars>>

\* The issuer goes on to page 07 once the answer is complete: what page 05 had
\* on it is gone, the wallet may still be asking.
Leave ==
    /\ Open /\ ~heard /\ job.at = "closed"
    /\ phase' = "idle" /\ sheet' = None
    /\ UNCHANGED <<job, stream, heard>>

----------------------------------------------------------------------------
(* AnchorControl, below the printed envelope. *)

\* The wallet is asked, for the record as issued or, if nothing was kept, none.
anchor ==
    /\ page = 0 /\ sheet # None /\ wallet = None /\ (stamped => Repeats)
    /\ wallet' = record
    /\ UNCHANGED <<deskVars, lists, sealed, record, page, busy, req, fetches, ledger, readVars, stamped, revoked, raced, crossed>>

\* It answers, perhaps after the issuer went on to page 07. The hash is shown,
\* and saved with the record the control closed over if there is one; declined,
\* nothing is.
Confirmed ==
    /\ wallet # None
    /\ wallet' = None
    /\ \/ /\ record' = IF wallet = NoRecord THEN record ELSE [wallet EXCEPT !.anchor = TRUE]
          /\ stamped' = TRUE
          /\ IF page = 0 THEN UNCHANGED <<fetches, crossed>>
                         ELSE readLedger(record'.tiers[page].listRef) /\ crossed' = (crossed \/ fetches # {})
       \/ UNCHANGED <<record, stamped, fetches, crossed>>
    /\ UNCHANGED <<deskVars, lists, sealed, page, busy, req, ledger, readVars, revoked, raced>>

DeskInit ==
    /\ PageInit
    /\ phase = "idle" /\ job = Closed /\ stream = <<>> /\ heard = FALSE /\ sheet = None

Server == Admit \/ Collect \/ Connect \/ SealTier \/ SealFails \/ Issue

Next ==
    \/ run \/ Unsigned \/ Signed
    \/ Server \/ Abandoned
    \/ Read \/ Issued \/ Ended \/ Broken \/ Leave
    \/ anchor \/ Confirmed
    \/ PageNext /\ UNCHANGED deskVars

\* Upstream calls time out and the node answers or fails, so the handler goes
\* on; and the page reads what arrives.
Spec == DeskInit /\ [][Next]_vars /\ WF_vars(Server) /\ WF_vars(Read \/ Issued \/ Ended)
----------------------------------------------------------------------------

\* Every run that was sent off ends on the page, with an envelope or a refusal:
\* ndjsonStream turns whatever is thrown into a last event, or the button would
\* stay disabled for as long as the page is open.
DeskComesToRest == phase \in {"collecting", "sealing"} ~> phase \in {"done", "refused"}

\* AnchorControl saves the transaction into the record, and every later change
\* saves the whole record: one after the other, an anchor that was shown for a
\* reference the browser keeps stays. If nothing was sealed the hash is shown and
\* kept nowhere (issue.tsx:687-688).
AnchorIsKeptAlone == raced \/ (stamped /\ record # NoRecord => record.anchor)

\* app/src/app/api/issue/route.ts:214-228: what page 05 prints for the name
\* points at nothing the browser has not kept, at the moment it is printed; a
\* history address is unrecoverable.
PrintedIsKept ==
    [][sheet' # sheet /\ sheet' # None =>
          \A n \in DOMAIN sheet' : n \in DOMAIN record'.tiers /\ sheet'[n] = coordinates(record'.tiers[n])]_vars
=============================================================================
