-------------------------- MODULE SolanaAttestation --------------------------
(* The Solana anchor of solana/src: issue(), revoke(), close(), setupIssuer() *)
(* and verify() of one issuer for one subject, whose attestation account is   *)
(* the only one they share (its address is derived from the subject). Several *)
(* calls run at once: the operator's terminals, a retry of a call that failed.*)
(*                                                                            *)
(* A writing call reads the account, checks what it read, and then sends a    *)
(* transaction that names the account and not what was in it. The network may *)
(* run the transaction at any time while the blockhash it was signed with is  *)
(* valid, whether or not the caller still waits for it.                       *)
(*                                                                            *)
(* The attestation program and the RPC node are not under src/: they are      *)
(* modelled from how solana/src uses them. A call is made once, so a retry is *)
(* another member of Calls.                                                   *)
EXTENDS Naturals, Sequences, FiniteSets

CONSTANTS
  Calls,                  \* calls of issue(), revoke(), close() and setupIssuer()
  Verifies,               \* calls of verify()
  References,             \* reference ids; each stands for its commitment as well
  Expiries,               \* expiry times a reference is issued with; 0 is "never"
  Lifetime,               \* how long a blockhash is accepted
  ConfirmTimeout,         \* confirmTimeoutMs
  HistoryLimit,           \* the limit given to getSignaturesForAddress
  MaxHistoryTransactions, \* MAX_HISTORY_TRANSACTIONS
  MaxTime,                \* bound: the clock stops here
  MaxTraffic,             \* bound: transactions of strangers that name the account
  None, Unknown

ASSUME TimesAssumption ==
  /\ Lifetime \in Nat /\ ConfirmTimeout \in Nat
  /\ Lifetime =< ConfirmTimeout
  /\ Expiries \subseteq Nat /\ MaxTime \in Nat /\ HistoryLimit \in Nat /\ MaxHistoryTransactions \in Nat
Setup == {"credential", "schema", "schemaMint"}

(* ReferenceAttestationData: the commitment is that of the reference.         *)
Attestation == [referenceId : References, expiry : Expiries]

Input == [kind : {"issue"}, data : Attestation]
         \cup [kind : {"revoke", "close"}, referenceId : References \cup {None}]
         \cup [kind : {"setup"}]

(* "tampered": a commitment is presented that is not the reference's own.     *)
Question == [referenceId : References, tampered : BOOLEAN]

ASSUME ValuesAssumption ==
  /\ None \notin References \cup Attestation \cup Input \cup Question
  /\ Unknown \notin References \cup Attestation \cup {None}

(* A call, its transaction, and what its caller was told. "seen" is the       *)
(* attestation the call read and is about to close, "missing" the accounts    *)
(* that setupIssuer() is about to create.                                     *)
Call == [phase    : {"new", "built", "signed", "sent", "done"},
         input    : Input \cup {None},
         seen     : Attestation \cup {None},
         missing  : SUBSET Setup,
         signedAt : 0..MaxTime,
         deadline : 0..(MaxTime + ConfirmTimeout),
         tx       : {"none", "pending", "landed", "failed"},
         answer   : {"none", "ok", "refused", "rejected", "failed", "timeout", "unheard"}]

Statuses == {"valid", "expired", "revoked", "not-found", "commitment-mismatch",
             "reference-mismatch", "schema-paused"}

Verification ==
  [phase      : {"new", "reading", "searching", "done"},
   asked      : Question \cup {None},
   now        : 0..MaxTime,
   schema     : {None, "absent", "live", "paused"},
   account    : Attestation \cup {None, Unknown},
   heard      : BOOLEAN,
   afterClose : BOOLEAN,
   status     : Statuses \cup {None}]

VARIABLES
  now,
  accounts,     \* the issuer's setup accounts that exist
  paused,       \* the schema's isPaused
  attestation,  \* the subject's attestation account, or None
  history,      \* transactions that name the account, newest first
  calls, verifies,
  believed,     \* history variable: what the last answer says the account holds
  withdrawn,    \* history variable: references answered to be closed, not issued since
  raced         \* history variable: a call read the account before an earlier one was settled

ledger == <<accounts, paused, attestation, history>>
vars == <<now, accounts, paused, attestation, history, calls, verifies, believed, withdrawn, raced>>
------------------------------------------------------------------------------
(* The writing calls, up to the transaction.                                  *)

(* A caller knows that a call is settled once it was told that the            *)
(* transaction landed, failed, or was not seen until the deadline. An error   *)
(* of the RPC call itself (sendTransaction, getSignatureStatuses) says        *)
(* nothing of the transaction.                                                *)
Unsettled(c) == /\ calls[c].input # None /\ calls[c].input.kind # "setup"
                /\ \/ calls[c].phase \in {"built", "signed", "sent"}
                   \/ calls[c].answer \in {"rejected", "unheard"}

NoteRace(c) == raced' = (raced \/ \E d \in Calls \ {c} : Unsettled(d))

(* The call throws before it sends anything. The error names what it found.   *)
refuse(c, input) ==
  /\ calls' = [calls EXCEPT ![c] = [@ EXCEPT !.phase = "done", !.input = input, !.answer = "refused"]]
  /\ believed' = IF Setup \subseteq accounts
                   THEN IF attestation = None THEN None ELSE attestation.referenceId
                   ELSE believed

build(c, input, seen) ==
  /\ calls' = [calls EXCEPT ![c] = [@ EXCEPT !.phase = "built", !.input = input, !.seen = seen]]
  /\ believed' = Unknown

(* issue(): the schema mint has to exist and the account has to be free.      *)
issue(c, data) ==
  LET input == [kind |-> "issue", data |-> data] IN
  /\ calls[c].phase = "new"
  /\ IF Setup \subseteq accounts /\ attestation = None
       THEN build(c, input, None)
       ELSE refuse(c, input)
  /\ NoteRace(c)
  /\ withdrawn' = withdrawn \ {data.referenceId}
  /\ verifies' = [v \in Verifies |->
       IF verifies[v].asked # None /\ verifies[v].asked.referenceId = data.referenceId
         THEN [verifies[v] EXCEPT !.afterClose = FALSE] ELSE verifies[v]]
  /\ UNCHANGED <<now, ledger>>

(* close() takes only what lapsed; an expiry of 0 never does.                 *)
Lapsed(a, t) == a.expiry # 0 /\ a.expiry =< t

(* Mutant: the reference id is not compared.                                  *)
mayClose_AnyReference(input, a) ==
  /\ a # None
  /\ input.kind = "close" => Lapsed(a, now)

mayClose(input, a) ==
  /\ a # None
  /\ input.referenceId # None => input.referenceId = a.referenceId
  /\ input.kind = "close" => Lapsed(a, now)

closeAttestation(c, input) ==
  /\ calls[c].phase = "new"
  /\ IF mayClose(input, attestation)
       THEN build(c, input, attestation)
       ELSE refuse(c, input)
  /\ NoteRace(c)
  /\ UNCHANGED <<now, ledger, verifies, withdrawn>>

(* setupIssuer(): one transaction creates whatever is missing, or none is     *)
(* sent.                                                                      *)
setupIssuer(c) ==
  LET missing == Setup \ accounts IN
  /\ calls[c].phase = "new"
  /\ calls' = [calls EXCEPT ![c] =
       IF missing = {}
         THEN [@ EXCEPT !.phase = "done", !.input = [kind |-> "setup"], !.answer = "ok"]
         ELSE [@ EXCEPT !.phase = "built", !.input = [kind |-> "setup"], !.missing = missing]]
  /\ UNCHANGED <<now, ledger, verifies, believed, withdrawn, raced>>
------------------------------------------------------------------------------
(* sendInstructions(), the network and the program.                           *)

(* What the attestation program does with the transaction of a call. A close  *)
(* names the account: it takes whatever is there.                             *)
Accepts(call) ==
  CASE call.input.kind = "issue" -> attestation = None /\ ~paused
    [] call.input.kind = "setup" -> call.missing \cap accounts = {}
    [] OTHER -> attestation # None

Alive(call) == now < call.signedAt + Lifetime

Answered(call, told) == [call EXCEPT !.phase = "done", !.answer = told, !.deadline = 0]

sign(c) ==
  /\ calls[c].phase = "built"
  /\ calls' = [calls EXCEPT ![c] = [@ EXCEPT !.phase = "signed", !.signedAt = now]]
  /\ UNCHANGED <<now, ledger, verifies, believed, withdrawn, raced>>

(* sendTransaction: the node simulates the transaction and forwards it, or    *)
(* the call throws: the simulation failed, or the answer of the node was lost *)
(* after it forwarded the transaction.                                        *)
send(c) ==
  /\ calls[c].phase = "signed"
  /\ \/ /\ Accepts(calls[c]) /\ Alive(calls[c])
        /\ calls' = [calls EXCEPT ![c] =
             [@ EXCEPT !.phase = "sent", !.tx = "pending", !.deadline = now + ConfirmTimeout]]
     \/ calls' = [calls EXCEPT ![c] = Answered(@, "rejected")]
     \/ /\ Accepts(calls[c]) /\ Alive(calls[c])
        /\ calls' = [calls EXCEPT ![c] = [Answered(@, "rejected") EXCEPT !.tx = "pending"]]
  /\ UNCHANGED <<now, ledger, verifies, believed, withdrawn, raced>>

(* The network runs a transaction whose blockhash is still valid.             *)
land(c) ==
  LET call == calls[c]
      closes == call.input.kind \in {"revoke", "close"}
      done == Accepts(call) IN
  /\ call.tx = "pending" /\ Alive(call)
  /\ calls' = [calls EXCEPT ![c].tx = IF done THEN "landed" ELSE "failed"]
  /\ attestation' = CASE done /\ closes -> None
                      [] done /\ call.input.kind = "issue" -> call.input.data
                      [] OTHER -> attestation
  /\ accounts' = IF done /\ call.input.kind = "setup" THEN accounts \cup call.missing ELSE accounts
  /\ history' = IF call.input.kind = "setup" THEN history
                ELSE <<[closes |-> closes, err |-> ~done, stranger |-> FALSE]>> \o history
  /\ UNCHANGED <<now, paused, verifies, believed, withdrawn, raced>>

(* confirmSignature(): a poll that hears of the transaction settles the call, *)
(* a poll that fails ends it, and so does the deadline.                       *)

(* Mutant: the poll gives up before the deadline.                             *)
Told_Impatient(call) == {"timeout", "unheard"}
                        \cup (IF call.tx = "landed" THEN {"ok"} ELSE {})
                        \cup (IF call.tx = "failed" THEN {"failed"} ELSE {})

Told(call) == (IF now >= call.deadline THEN {"timeout"} ELSE {})
              \cup (IF call.tx = "landed" THEN {"ok"} ELSE {})
              \cup (IF call.tx = "failed" THEN {"failed"} ELSE {})
              \cup {"unheard"}

confirm(c) ==
  LET call == calls[c] IN
  /\ call.phase = "sent"
  /\ \E told \in Told(call) :
       /\ calls' = [calls EXCEPT ![c] = Answered(@, told)]
       /\ IF told = "ok" /\ call.input.kind = "issue"
            THEN believed' = call.input.data.referenceId /\ UNCHANGED withdrawn
          ELSE IF told = "ok" /\ call.input.kind # "setup"
            THEN believed' = None /\ withdrawn' = withdrawn \cup {call.seen.referenceId}
          ELSE UNCHANGED <<believed, withdrawn>>
  /\ UNCHANGED <<now, ledger, verifies, raced>>
------------------------------------------------------------------------------
(* verify()                                                                   *)

(* Mutant: the transactions that failed are counted and looked into as well.  *)
Candidates_Unfiltered(h) ==
  {i \in 1..Len(h) : i =< HistoryLimit /\ i =< MaxHistoryTransactions}

(* The successful transactions that are looked into, by their places.         *)
Candidates(h) ==
  LET successful == {i \in 1..Len(h) : i =< HistoryLimit /\ ~h[i].err}
  IN  {i \in successful : Cardinality({j \in successful : j =< i}) =< MaxHistoryTransactions}

(* The verdict on an account that was read.                                   *)
StatusOf(v) ==
  IF v.account.referenceId # v.asked.referenceId THEN "reference-mismatch"
  ELSE IF v.asked.tampered THEN "commitment-mismatch"
  ELSE IF v.schema = "paused" THEN "schema-paused"
  ELSE IF Lapsed(v.account, v.now) THEN "expired"
  ELSE "valid"

ask(v, asked) ==
  /\ verifies[v].phase = "new"
  /\ verifies' = [verifies EXCEPT ![v] =
       [@ EXCEPT !.phase = "reading", !.asked = asked, !.now = now,
                 !.afterClose = asked.referenceId \in withdrawn]]
  /\ UNCHANGED <<now, ledger, calls, believed, withdrawn, raced>>

(* The schema and the account are read by two requests under way together.    *)
fetchSchema(v) ==
  /\ verifies[v].phase = "reading" /\ verifies[v].schema = None
  /\ verifies' = [verifies EXCEPT ![v].schema =
       IF "schema" \notin accounts THEN "absent" ELSE IF paused THEN "paused" ELSE "live"]
  /\ UNCHANGED <<now, ledger, calls, believed, withdrawn, raced>>

fetchAttestation(v) ==
  /\ verifies[v].phase = "reading" /\ verifies[v].account = Unknown
  /\ verifies' = [verifies EXCEPT ![v].account = attestation]
  /\ UNCHANGED <<now, ledger, calls, believed, withdrawn, raced>>

(* What was read is gone once verify() has returned.                          *)
Concluded(v, status) ==
  [v EXCEPT !.phase = "done", !.status = status, !.schema = None, !.account = Unknown,
            !.now = 0, !.asked.tampered = FALSE]

judge(v) ==
  LET call == verifies[v] IN
  /\ call.phase = "reading" /\ call.schema # None /\ call.account # Unknown
  /\ verifies' = [verifies EXCEPT ![v] =
       IF call.schema = "absent" THEN Concluded(@, "not-found")
       ELSE IF call.account = None THEN [@ EXCEPT !.phase = "searching"]
       ELSE Concluded(@, StatusOf(call))]
  /\ UNCHANGED <<now, ledger, calls, believed, withdrawn, raced>>

(* findRevocation(): newest first, over what the node still answers for.      *)
findRevocation(v) ==
  /\ verifies[v].phase = "searching"
  /\ \E unread \in SUBSET Candidates(history) :
       LET found == \E i \in Candidates(history) \ unread : history[i].closes IN
       verifies' = [verifies EXCEPT ![v] =
         [Concluded(@, IF found THEN "revoked" ELSE "not-found") EXCEPT !.heard = (unread = {})]]
  /\ UNCHANGED <<now, ledger, calls, believed, withdrawn, raced>>
------------------------------------------------------------------------------
(* What happens around the calls.                                             *)

(* Anyone may name the account in a transaction of their own.                 *)
Traffic ==
  /\ Len(SelectSeq(history, LAMBDA t : t.stranger)) < MaxTraffic
  /\ \E err \in BOOLEAN :
       history' = <<[closes |-> FALSE, err |-> err, stranger |-> TRUE]>> \o history
  /\ UNCHANGED <<now, accounts, paused, attestation, calls, verifies, believed, withdrawn, raced>>

(* The issuer pauses and resumes the schema with other tools.                 *)
ChangeSchemaStatus ==
  /\ "schema" \in accounts
  /\ paused' = ~paused
  /\ UNCHANGED <<now, accounts, attestation, history, calls, verifies, believed, withdrawn, raced>>

Tick ==
  /\ now < MaxTime
  /\ now' = now + 1
  /\ UNCHANGED <<ledger, calls, verifies, believed, withdrawn, raced>>
------------------------------------------------------------------------------
NewCall == [phase |-> "new", input |-> None, seen |-> None, missing |-> {}, signedAt |-> 0,
            deadline |-> 0, tx |-> "none", answer |-> "none"]
NewVerification ==
  [phase |-> "new", asked |-> None, now |-> 0, schema |-> None, account |-> Unknown,
   heard |-> TRUE, afterClose |-> FALSE, status |-> None]

Init ==
  /\ now = 0
  /\ accounts \in {{"credential"}, Setup}
  /\ paused = FALSE
  /\ attestation \in {None} \cup (IF Setup = accounts THEN Attestation ELSE {})
  /\ history = IF attestation = None THEN <<>>
               ELSE <<[closes |-> FALSE, err |-> FALSE, stranger |-> FALSE]>>
  /\ calls = [c \in Calls |-> NewCall]
  /\ verifies = [v \in Verifies |-> NewVerification]
  /\ believed = Unknown
  /\ withdrawn = {}
  /\ raced = FALSE

Write(c) ==
  \/ \E data \in Attestation : issue(c, data)
  \/ \E kind \in {"revoke", "close"}, r \in References \cup {None} :
       closeAttestation(c, [kind |-> kind, referenceId |-> r])
  \/ setupIssuer(c)
  \/ sign(c) \/ send(c) \/ land(c) \/ confirm(c)

Verify(v) ==
  \/ \E asked \in Question : ask(v, asked)
  \/ fetchSchema(v) \/ fetchAttestation(v) \/ judge(v) \/ findRevocation(v)

Next ==
  \/ \E c \in Calls : Write(c)
  \/ \E v \in Verifies : Verify(v)
  \/ Traffic \/ ChangeSchemaStatus \/ Tick

Spec == Init /\ [][Next]_vars
------------------------------------------------------------------------------
TypeOK ==
  /\ now \in 0..MaxTime
  /\ accounts \subseteq Setup /\ paused \in BOOLEAN
  /\ attestation \in Attestation \cup {None}
  /\ history \in Seq([closes : BOOLEAN, err : BOOLEAN, stranger : BOOLEAN])
  /\ calls \in [Calls -> Call]
  /\ verifies \in [Verifies -> Verification]
  /\ believed \in References \cup {None, Unknown}
  /\ withdrawn \subseteq References /\ raced \in BOOLEAN

(* While each call waits until the one before it is settled, the last answer  *)
(* tells what the account holds: nothing an operator was told is undone by a  *)
(* transaction that comes late. A call that gave up at its deadline, or read  *)
(* that nothing is there, counts as an answer.                                *)
AnswersTellTheLedger ==
  ~raced /\ believed # Unknown =>
    IF attestation = None THEN believed = None ELSE believed = attestation.referenceId

(* A revoke() or close() that names a reference takes that reference and no   *)
(* other, as the comment on RevokeOptions.referenceId has it, and a close()   *)
(* takes nothing that is still live, while no call is begun before the one    *)
(* before it is settled. (The transaction names the account only: a call that *)
(* overlaps may have closed it and issued to it again.)                       *)
ClosesAsAsked ==
  \A c \in Calls :
    LET call == calls[c] IN
    call.tx = "pending" /\ calls'[c].tx = "landed" =>
      /\ call.input.kind \in {"revoke", "close"} /\ call.input.referenceId # None
         => attestation.referenceId = call.input.referenceId
      /\ call.input.kind = "close" => Lapsed(attestation, now)
StaleIdClosesNothingAlone == [][~raced => ClosesAsAsked]_vars

(* Whoever asks after a withdrawal was answered is told of it: the reference  *)
(* is reported revoked, or another one as anchored there. "not-found" is left *)
(* to a node that does not answer for its history and to a close that lies    *)
(* deeper in it than verify() looks.                                          *)
InReach ==
  \E i \in 1..Len(history) :
    /\ history[i].closes /\ ~history[i].err /\ i =< HistoryLimit
    /\ Cardinality({j \in 1..i : ~history[j].err}) =< MaxHistoryTransactions

ToldOfWithdrawal(v) ==
  verifies[v].phase # "done" /\ verifies'[v].phase = "done" /\ verifies[v].afterClose =>
    \/ verifies'[v].status \in {"revoked", "reference-mismatch"}
    \/ verifies'[v].status = "not-found" /\ (~verifies'[v].heard \/ ~InReach)
WithdrawalIsSeen == [][~raced => \A v \in Verifies : ToldOfWithdrawal(v)]_vars
=============================================================================
