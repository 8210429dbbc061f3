----------------------------- MODULE CliSession ------------------------------
(***************************************************************************)
(* A terminal session of the zegel command line: doctor, scan, issue,      *)
(* grant and revoke (cli/src/commands), one command at a time, over the    *)
(* services of SealBackend, the node's lists and the receipt log that      *)
(* issue appends to and grant and revoke read (packages/seal/src/client.ts *)
(* and keeper.ts). A service may come or go, and the process be killed,    *)
(* between any two requests.                                               *)
(***************************************************************************)
EXTENDS GranteeLists, DoctorProbes

CONSTANTS
    Services,     \* the services to begin with, out of Worlds
    Settings,     \* the environments considered, out of AllSettings
    NoCommand,    \* no command under way, none finished
    Killed,       \* the exit of a process that was killed
    Script,       \* bound: the commands a session may hold, first, second, ...
    MaxDrifts     \* bound: changes of the services

ASSUME SessionConstants ==
    /\ Services \subseteq Worlds /\ Settings \subseteq AllSettings
    /\ Script \in Seq(SUBSET {"doctor", "scan", "issue", "grant", "revoke"})
    /\ MaxDrifts \in Nat
    /\ NoList \notin Nat

VARIABLES
    sealedBy,   \* sealedBy[o]: the publisher key object o was sealed with
    kept,       \* the receipt log, oldest first
    envelope,   \* the tiers of the envelope.json written last
    withdrawn,  \* <<reference, tier, key>> revoked and not granted since
    cmd,        \* the command under way
    last,       \* the last command finished
    commands,   \* how many were begun; the number of an issue names its reference
    relied,     \* the youngest reference whose issue exited 0 with both tiers sealed
    promised,   \* what doctor told, while the services have not changed since
    drifts      \* how often the services changed

files == <<kept, envelope, relied>>
node == <<lists, sealed, sealedBy, withdrawn>>
vars == <<world, settings, lists, sealed, sealedBy, kept, envelope, withdrawn, cmd, last, commands, relied,
          promised, drifts>>

Last(s) == s[Len(s)]

Tiers == 1..2
NoReceipt == [tier |-> 0]

Init ==
    /\ world \in Services /\ settings \in Settings
    /\ lists = <<>> /\ sealed = <<>> /\ sealedBy = <<>>
    /\ kept = <<>> /\ envelope = {} /\ withdrawn = {}
    /\ cmd = NoCommand /\ last = NoCommand
    /\ commands = 0 /\ relied = 0
    /\ promised = {} /\ drifts = 0
----------------------------------------------------------------------------
\* What doctor told is not about the services as they are now.
change(w) ==
    /\ drifts < MaxDrifts /\ w # world
    /\ world' = w
    /\ drifts' = drifts + 1
    /\ promised' = {}

\* A host comes or goes or answers otherwise, the Bee URL leads elsewhere, the
\* node slows down, or a batch becomes usable or fills up.
ServiceChanges ==
    /\ commands < Len(Script) \/ cmd # NoCommand
    /\ \/ \E h \in Hosts : change([world EXCEPT !.hosts = IF up(h) THEN @ \ {h} ELSE @ \cup {h}])
       \/ change([world EXCEPT !.garbled = ~@])
       \/ isNode /\ \E bee \in NoNode : change([world EXCEPT !.bee = bee])
       \/ ~isNode /\ \E bee \in Nodes : change([world EXCEPT !.bee = bee])
       \/ isNode /\ change([world EXCEPT !.bee.slow = ~@])
       \/ world.bee.batch = "pending" /\ change([world EXCEPT !.bee.batch = "good"])
       \/ world.bee.batch = "good" /\ change([world EXCEPT !.bee.batch = "full"])
    /\ UNCHANGED <<settings, node, files, cmd, last, commands>>

Steady == UNCHANGED <<world, settings, promised, drifts>>

Begin(name) ==
    /\ cmd = NoCommand /\ commands < Len(Script) /\ name \in Script[commands + 1]
    /\ commands' = commands + 1

\* The process ends with a code; for a thrown error that is 1 as well.
Exit(code) ==
    /\ last' = IF cmd.name = "issue"
               THEN [name |-> "issue", code |-> code, ref |-> cmd.ref, subject |-> cmd.subject, keys |-> cmd.keys,
                     seal |-> cmd.seal, claims |-> cmd.claims]
               ELSE [name |-> cmd.name, code |-> code]
    /\ cmd' = NoCommand
    /\ UNCHANGED commands

Continue(c) ==
    /\ cmd # NoCommand /\ cmd' = c
    /\ UNCHANGED <<last, commands>>

Kill ==
    /\ cmd # NoCommand
    /\ Exit(Killed)
    /\ Steady /\ UNCHANGED <<node, files>>
----------------------------------------------------------------------------
(* doctor, and scan, which writes nothing the others depend on. *)

Doctor ==
    /\ Begin("doctor")
    /\ \E report \in doctor :
          /\ promised' = report.told
          /\ last' = [name |-> "doctor", code |-> report.code]
    /\ UNCHANGED <<world, settings, drifts, node, files, cmd>>

Subjects == {"literal", "name", "bundle"}

\* A name is asked of the public endpoints; ETH_RPC_URL is not read. A bundle
\* brings its subject, if it can be read.
resolveSubject(subject) ==
    CASE subject = "name" -> {up("eth")} [] subject = "bundle" -> BOOLEAN [] OTHER -> {TRUE}

\* With a key the production host is asked and no other; an empty one is none.
\* What fails is recorded as unavailable and no claim rests on it.
collected == IF settings.apiKey \in {"unset", "empty"} THEN up("demo") ELSE settings.apiKey = "good"

buildEvidence(subject) == subject = "bundle" \/ collected

\* A 200 that is no JSON is no failed request: the error ends the collection.
collectionThrows(subject) == subject # "bundle" /\ collected /\ world.garbled

scan(subject) ==
    /\ Begin("scan")
    /\ \E known \in resolveSubject(subject) :
          last' = [name |-> "scan", code |-> IF known /\ ~collectionThrows(subject) THEN 0 ELSE 1, subject |-> subject,
                   claims |-> collected]
    /\ Steady /\ UNCHANGED <<node, files, cmd>>
----------------------------------------------------------------------------
(* issue: evidence, a backend, two tiers, the files. *)

\* --no-seal leaves Swarm alone, and --grant with it.
issue(subject, keys, seal) ==
    /\ Begin("issue")
    /\ cmd' = [name |-> "issue", phase |-> "evidence", ref |-> commands', subject |-> subject, keys |-> keys,
               seal |-> seal, claims |-> FALSE, client |-> NoClient, receipt |-> NoReceipt, tiers |-> {},
               failed |-> FALSE]
    /\ last' = NoCommand
    /\ Steady /\ UNCHANGED <<node, files>>

Collect ==
    /\ cmd # NoCommand /\ cmd.phase = "evidence"
    /\ \E known \in resolveSubject(cmd.subject) :
          IF ~known \/ collectionThrows(cmd.subject) THEN Exit(1)
          ELSE Continue([cmd EXCEPT !.claims = buildEvidence(cmd.subject),
                                    !.phase = IF cmd.seal THEN "connect" ELSE "write"])
    /\ Steady /\ UNCHANGED <<node, files>>

\* Where a tier starts: with a list if readers are named.
firstRequest(keys) == IF keys = {} THEN "upload" ELSE "list"
tier(t) == [tier |-> t, ref |-> cmd.ref, history |-> 0, listRef |-> NoList, swarmRef |-> 0,
            publisher |-> cmd.client.publisher]

nothingSealed(c) == [c EXCEPT !.failed = TRUE, !.phase = "write"]

\* Named readers and a backend that cannot take them on: nothing is sealed.
withClient(client) ==
    IF cmd.keys # {} /\ ~canManageGrantees(client) THEN nothingSealed(cmd)
    ELSE [cmd EXCEPT !.client = client, !.phase = firstRequest(cmd.keys),
                     !.receipt = [tier(1) EXCEPT !.publisher = client.publisher]]

Connect ==
    /\ cmd # NoCommand /\ cmd.phase = "connect" /\ cmd.name = "issue"
    /\ LET client == connectBackend("auto")
       IN  Continue(IF client = NoClient THEN [cmd EXCEPT !.phase = "fallback"] ELSE withClient(client))
    /\ Steady /\ UNCHANGED <<node, files>>

\* Mutant: a node that cannot seal ends the command.
Fallback_None ==
    /\ cmd # NoCommand /\ cmd.phase = "fallback"
    /\ Continue(nothingSealed(cmd))
    /\ Steady /\ UNCHANGED <<node, files>>

\* The gateway, with a warning; without it nothing is sealed.
Fallback ==
    /\ cmd # NoCommand /\ cmd.phase = "fallback"
    /\ Continue(IF connectGateway = NoClient THEN nothingSealed(cmd) ELSE withClient(connectGateway))
    /\ Steady /\ UNCHANGED <<node, files>>

\* After a tier, sealed or not, comes the next one.
nextTier(c, t) ==
    IF t = 1 THEN [c EXCEPT !.phase = firstRequest(c.keys), !.receipt = tier(2)]
    ELSE [c EXCEPT !.phase = "write", !.receipt = NoReceipt]

prepareGranteeList == createList(cmd.keys) /\ UNCHANGED <<sealed, sealedBy>>

\* Without a list the upload makes a history of its own.
uploadTier ==
    LET v == IF cmd.keys = {} THEN Len(lists) + 1 ELSE cmd.receipt.history
    IN  /\ lists' = IF cmd.keys = {} THEN Append(lists, {}) ELSE lists
        /\ sealed' = Append(sealed, v)
        /\ sealedBy' = Append(sealedBy, ownKey(cmd.client))

CreateList ==
    /\ cmd # NoCommand /\ cmd.phase = "list" /\ accepts(cmd.client)
    /\ prepareGranteeList
    /\ Continue([cmd EXCEPT !.phase = "upload", !.receipt.history = newest(lists'), !.receipt.listRef = newest(lists')])
    /\ Steady /\ UNCHANGED <<withdrawn, files>>

Upload ==
    /\ cmd # NoCommand /\ cmd.phase = "upload" /\ accepts(cmd.client)
    /\ uploadTier
    /\ Continue([cmd EXCEPT !.phase = "keep", !.receipt.history = sealed'[newest(sealed')],
                            !.receipt.swarmRef = newest(sealed')])
    /\ Steady /\ UNCHANGED <<withdrawn, files>>

isReadable(receipt) == receipt.publisher # Unset

\* A receipt without a publisher cannot go into the envelope, which is no
\* failure.
tierSealed(c) == nextTier([c EXCEPT !.tiers = @ \cup {r \in {c.receipt} : isReadable(r)}], c.receipt.tier)

keep(receipt) == kept' = Append(kept, receipt)

\* Mutant: the keeper is not awaited.
Keep_NotAwaited ==
    /\ cmd # NoCommand /\ cmd.phase = "keep"
    /\ kept' = kept \/ keep(cmd.receipt)
    /\ Continue(tierSealed(cmd))
    /\ Steady /\ UNCHANGED <<node, envelope, relied>>

\* The receipt is on disk before seal resolves and the tier is printed.
Keep ==
    /\ cmd # NoCommand /\ cmd.phase = "keep"
    /\ keep(cmd.receipt)
    /\ Continue(tierSealed(cmd))
    /\ Steady /\ UNCHANGED <<node, envelope, relied>>

\* Mutant: the loop goes on as if nothing had happened.
tierFailed_Quiet(c) == nextTier(c, c.receipt.tier)

tierFailed(c) == nextTier([c EXCEPT !.failed = TRUE], c.receipt.tier)

\* A request of a tier is refused, ...
TierFails ==
    /\ cmd # NoCommand /\ cmd.phase \in {"list", "upload"} /\ ~accepts(cmd.client)
    /\ Continue(tierFailed(cmd))
    /\ Steady /\ UNCHANGED <<node, files>>

goesDown(client) ==
    change(IF client.kind = "gateway" THEN [world EXCEPT !.hosts = @ \ {"gateway"}]
           ELSE [world EXCEPT !.bee = [kind |-> "down", reports |-> FALSE, batch |-> "none", slow |-> FALSE]])

\* ... or done, and the service gone before it answers.
AnswerLost ==
    /\ cmd # NoCommand /\ cmd.phase \in {"list", "upload"} /\ accepts(cmd.client)
    /\ IF cmd.phase = "list" THEN prepareGranteeList ELSE uploadTier
    /\ goesDown(cmd.client)
    /\ Continue(tierFailed(cmd))
    /\ UNCHANGED <<settings, withdrawn, files>>

\* The files are written whatever came of the sealing.
Write ==
    /\ cmd # NoCommand /\ cmd.phase = "write"
    /\ envelope' = cmd.tiers
    /\ relied' = IF cmd.seal /\ ~cmd.failed THEN cmd.ref ELSE relied
    /\ Exit(IF cmd.failed THEN 1 ELSE 0)
    /\ Steady /\ UNCHANGED <<node, kept>>
----------------------------------------------------------------------------
(* grant and revoke: the node, a receipt, the connection, one patch. *)

\* Anything but a compressed public key is refused before that.
grantee(action, key, t) ==
    /\ Begin(action)
    /\ cmd' = [name |-> action, phase |-> "reach", keys |-> {key}, tier |-> t, receipt |-> NoReceipt]
    /\ last' = NoCommand
    /\ Steady /\ UNCHANGED <<node, files>>

candidates(t) == {i \in DOMAIN kept : kept[i].tier = t}

\* Mutant: the first receipt of the log.
pick_First(t) == kept[CHOOSE i \in candidates(t) : \A j \in candidates(t) : i =< j]

pick(t) == kept[CHOOSE i \in candidates(t) : \A j \in candidates(t) : j =< i]

\* A timer of 2.5 s over both requests, which a slow node may keep or not.
nodeAnswers == IF isNode /\ world.bee.slow THEN BOOLEAN ELSE {isNode}

\* What is missing is said, and nothing was changed.
refuse == Exit(1)

Reach ==
    /\ cmd # NoCommand /\ cmd.phase = "reach"
    /\ \E reachable \in nodeAnswers :
          IF ~reachable THEN refuse
          ELSE IF candidates(cmd.tier) = {} THEN Exit(1)
          ELSE Continue([cmd EXCEPT !.phase = "connect", !.receipt = pick(cmd.tier)])
    /\ Steady /\ UNCHANGED <<node, files>>

\* No fallback here: what is not a node that can write is refused.
ConnectNode ==
    /\ cmd # NoCommand /\ cmd.phase = "connect" /\ cmd.name \in {"grant", "revoke"}
    /\ LET client == connectBackend("node")
       IN  IF client = NoClient THEN refuse ELSE Continue([cmd EXCEPT !.phase = "patch"])
    /\ Steady /\ UNCHANGED <<node, files>>

\* What the log of a patch is for: who was cut off from what.
noted ==
    LET named == {<<cmd.receipt.ref, cmd.receipt.tier, k>> : k \in cmd.keys}
    IN  IF cmd.name = "grant" THEN withdrawn \ named ELSE withdrawn \cup named

applyPatch ==
    /\ patchGrantees(cmd.receipt, IF cmd.name = "grant" THEN cmd.keys ELSE {},
                                  IF cmd.name = "revoke" THEN cmd.keys ELSE {})
    /\ UNCHANGED <<sealed, sealedBy>>

theNode == [kind |-> "node", publisher |-> Unset]

\* The log stays as it is; the new addresses are printed.
Patch ==
    /\ cmd # NoCommand /\ cmd.phase = "patch" /\ accepts(theNode)
    /\ applyPatch
    /\ withdrawn' = noted
    /\ Exit(0)
    /\ Steady /\ UNCHANGED files

\* No list to patch, or the node does not take it.
PatchFails ==
    /\ cmd # NoCommand /\ cmd.phase = "patch"
    /\ cmd.receipt.listRef = NoList \/ ~accepts(theNode)
    /\ Exit(1)
    /\ Steady /\ UNCHANGED <<node, files>>

\* The patch is applied and its answer lost: the command reports a failure.
PatchUnheard ==
    /\ cmd # NoCommand /\ cmd.phase = "patch" /\ accepts(theNode)
    /\ applyPatch
    /\ goesDown(theNode)
    /\ Exit(1)
    /\ UNCHANGED <<settings, withdrawn, files>>
----------------------------------------------------------------------------
Next ==
    \/ ServiceChanges \/ Kill
    \/ Doctor
    \/ \E subject \in Subjects \ {"bundle"} : scan(subject)
    \/ \E subject \in Subjects, keys \in SUBSET Keys, seal \in BOOLEAN : issue(subject, keys, seal)
    \/ Collect \/ Connect \/ Fallback
    \/ CreateList \/ Upload \/ Keep \/ TierFails \/ AnswerLost
    \/ Write
    \/ \E action \in {"grant", "revoke"}, key \in Keys, t \in Tiers : grantee(action, key, t)
    \/ Reach \/ ConnectNode \/ Patch \/ PatchFails \/ PatchUnheard

Spec == Init /\ [][Next]_vars
----------------------------------------------------------------------------
finished(names) == last # NoCommand /\ last.name \in names /\ last.code # Killed

\* commands/issue.ts:221: a zero exit means that the caller got what was asked
\* for. Both tiers of the reference are sealed and on the log, each under a
\* list of exactly the named readers. What the envelope names of it those readers
\* and nobody else may open, with the publisher it gives unless that one was
\* configured.
SuccessMeansSealed ==
    finished({"issue"}) /\ last.code = 0 /\ last.seal =>
        /\ \A t \in Tiers : \E i \in DOMAIN kept :
              /\ kept[i].ref = last.ref /\ kept[i].tier = t
              /\ lists[kept[i].history] = last.keys
        /\ \A r \in envelope :
              /\ {k \in Keys : MayOpen(k, r)} = last.keys
              /\ settings.actPublisher = Unset => r.publisher = sealedBy[r.swarmRef]

\* A history address cannot be recovered once lost: whatever was printed as
\* sealed and can be published, or is published in the envelope, is on the log,
\* through failures, lost answers and kills. (A receipt without a publisher is
\* printed as well, as one that cannot go into the envelope.)
SaidIsKept ==
    \A r \in envelope \cup (IF cmd # NoCommand /\ cmd.name = "issue" THEN cmd.tiers ELSE {}) :
        \E i \in DOMAIN kept : kept[i] = r

\* probes.ts:4-8, commands/doctor.ts:56: while no service changes, what doctor
\* told holds. Where it is green, scan and issue end well and with claims, by
\* address and by name; a node in working order seals for named readers. What it
\* does not look at is excepted. Everywhere: a host that answers 200 with no
\* JSON, and for issue a publisher that does not parse. For runs: a key the
\* production host rejects, an Ethereum RPC of one's own, and a configured batch
\* that is full. For named readers: a node slower than connectBackend's probe, a
\* configured batch that is not the node's, and one too shallow to be reused.
DoctorForetells ==
    /\ finished({"scan", "issue"}) /\ "run" \in promised /\ last.subject # "bundle"
       /\ ~world.garbled /\ settings.apiKey # "rejected"
       /\ (last.subject = "name" => "names" \in promised /\ ~settings.ethRpc)
       /\ (last.name = "issue" => /\ last.keys = {} /\ settings.actPublisher # Malformed
                                  /\ ~(settings.batchId = "own" /\ world.bee.batch = "full"))
       => last.code = 0 /\ last.claims
    /\ finished({"issue"}) /\ "grant" \in promised /\ last.keys # {} /\ last.subject = "literal"
       /\ ~world.garbled /\ settings.actPublisher # Malformed /\ ~world.bee.slow
       /\ settings.batchId # "foreign" /\ (world.bee.batch = "shallow" => settings.batchId = "own")
       => last.code = 0

\* grant and revoke take the last receipt of their tier: never one of a
\* reference older than the last that was issued in full, whatever failed since.
PatchesNoOlderReference ==
    [][Patch \/ PatchUnheard => cmd.receipt.ref >= relied]_vars

\* cli/src/commands/grantee.ts:43: revoke cuts a reader off from every version
\* sealed from here on. A list made for a tier holds no reader revoked from it
\* and not named again.
RevokedStaysOff ==
    [][Patch => \A k \in Last(lists') \ cmd.keys : <<cmd.receipt.ref, cmd.receipt.tier, k>> \notin withdrawn]_vars

=============================================================================
