-------------------------- MODULE CliSessionProofs ---------------------------
(***************************************************************************)
(* Theorems about sessions of the command line, for every set of readers,  *)
(* every script of commands, all services and settings, and however often  *)
(* the services change.                                                    *)
(*                                                                         *)
(* Nothing on the node and nothing on the receipt log is ever changed or   *)
(* taken back, so a fact about a version, an object or a receipt stays     *)
(* true (Grown). The invariant follows an issue through its requests: a    *)
(* receipt that is about to be kept is sound, the tiers that the issue is  *)
(* past are on the log unless it remembers a failure, and references are   *)
(* kept in the order of their issues. What doctor told is true of the      *)
(* services as long as it is remembered, for every change forgets it.      *)
(***************************************************************************)
EXTENDS CliSession, WellFoundedInduction, TLAPS

Publishers == {Unset, NodeKey, GatewayKey}

Client == [kind : {"none", "node", "gateway"}, publisher : Publishers]

\* A receipt as it is filled in.
Receipt == [tier : Tiers, ref : Nat, history : Nat, listRef : Nat \cup {NoList}, swarmRef : Nat,
            publisher : Publishers]

Sealing == {"list", "upload", "keep"}

Issue == [name : {"issue"}, phase : {"evidence", "connect", "fallback", "write"} \cup Sealing, ref : Nat,
          subject : Subjects, keys : SUBSET Keys, seal : BOOLEAN, claims : BOOLEAN, client : Client,
          receipt : Receipt \cup {NoReceipt}, tiers : SUBSET Receipt, failed : BOOLEAN]

GranteeCommand == [name : {"grant", "revoke"}, phase : {"reach", "connect", "patch"}, keys : SUBSET Keys,
                   tier : Tiers, receipt : Receipt \cup {NoReceipt}]

Codes == {0, 1, Killed}

Result ==
    [name : {"issue"}, code : Codes, ref : Nat, subject : Subjects, keys : SUBSET Keys, seal : BOOLEAN, claims : BOOLEAN]
    \cup [name : {"scan"}, code : Codes, subject : Subjects, claims : BOOLEAN]
    \cup [name : {"doctor", "grant", "revoke"}, code : Codes]

TypeOK ==
    /\ world \in Worlds /\ settings \in AllSettings
    /\ ListsTypeOK
    /\ sealedBy \in Seq({NodeKey, GatewayKey}) /\ Len(sealedBy) = Len(sealed)
    /\ kept \in Seq(Receipt) /\ envelope \subseteq Receipt
    /\ cmd \in Issue \cup GranteeCommand \cup {NoCommand}
    /\ last \in Result \cup {NoCommand}
    /\ commands \in Nat /\ relied \in Nat /\ drifts \in Nat
    /\ promised \subseteq {"run", "grant", "names"}
----------------------------------------------------------------------------
\* A receipt that can be kept: its object lies under its own history, and the
\* publisher it names, if nobody configured one, is the one it was sealed with.
Sound(r) ==
    /\ r.history \in DOMAIN lists /\ r.swarmRef \in DOMAIN sealed
    /\ sealed[r.swarmRef] = r.history
    /\ r.listRef # NoList => r.listRef \in DOMAIN lists
    /\ r.ref =< commands
    /\ settings.actPublisher = Unset /\ r.publisher # Unset => r.publisher = sealedBy[r.swarmRef]

\* The log holds sound receipts, in the order of their issues.
KeptInv ==
    /\ \A i \in DOMAIN kept : Sound(kept[i])
    /\ \A i, j \in DOMAIN kept : i =< j => kept[i].ref =< kept[j].ref

OnLog(r) == \E i \in DOMAIN kept : kept[i] = r

\* The log has a receipt of a tier of this reference, under these readers.
HasTier(ref, t, keys) ==
    \E i \in DOMAIN kept : kept[i].ref = ref /\ kept[i].tier = t /\ lists[kept[i].history] = keys

\* The tiers an issue has left behind it, sealed or failed.
Past(c, t) == c.phase = "write" \/ (c.phase \in Sealing /\ t < c.receipt.tier)

\* What the next request of an issue is made from.
RequestOk(c) ==
    /\ c.phase \in Sealing \cup {"connect", "fallback"} => c.seal
    /\ c.phase \in Sealing =>
          /\ c.receipt \in Receipt /\ c.receipt.ref = c.ref /\ c.client.kind # "none"
          /\ c.receipt.publisher = c.client.publisher
          /\ settings.actPublisher = Unset => c.client.publisher \in {Unset, ownKey(c.client)}
    /\ c.phase = "list" => c.keys # {} /\ c.receipt.listRef = NoList
    /\ c.phase = "upload" =>
          IF c.keys = {} THEN c.receipt.listRef = NoList
          ELSE /\ c.receipt.history \in DOMAIN lists /\ lists[c.receipt.history] = c.keys
               /\ c.receipt.listRef \in DOMAIN lists
    /\ c.phase = "keep" => Sound(c.receipt) /\ lists[c.receipt.history] = c.keys

\* What an issue says it has sealed, and what it has.
TiersOk(c) ==
    /\ \A r \in c.tiers : OnLog(r) /\ isReadable(r) /\ lists[r.history] = c.keys
    /\ c.seal /\ ~c.failed => \A t \in Tiers : Past(c, t) => HasTier(c.ref, t, c.keys)

IssueOk(c) == c.ref = commands /\ RequestOk(c) /\ TiersOk(c)

GranteeOk(c) ==
    c.phase # "reach" => c.receipt \in Receipt /\ Sound(c.receipt) /\ c.receipt.ref >= relied

CommandInv ==
    /\ cmd # NoCommand /\ cmd.name = "issue" => IssueOk(cmd)
    /\ cmd # NoCommand /\ cmd.name # "issue" => GranteeOk(cmd)

\* What was published and what an issue that exited 0 left behind.
LeftInv ==
    /\ \A r \in envelope : OnLog(r) /\ isReadable(r)
    /\ finished({"issue"}) /\ last.code = 0 =>
          /\ last.seal => \A t \in Tiers : HasTier(last.ref, t, last.keys)
          /\ \A r \in envelope : lists[r.history] = last.keys

ReliedInv ==
    /\ relied =< commands
    /\ relied # 0 => \A t \in Tiers : \E i \in DOMAIN kept : kept[i].ref = relied /\ kept[i].tier = t
----------------------------------------------------------------------------
\* What doctor told is so.
ToldInv ==
    /\ "run" \in promised => up("demo") /\ up("gateway")
    /\ "grant" \in promised => world.bee.kind = "node" /\ world.bee.batch \in {"shallow", "good"}
    /\ "names" \in promised => settings.ethRpc \/ up("eth")

\* What a run, or an issue for named readers, was told to end well on.
RunTold(c) ==
    /\ "run" \in promised /\ c.subject # "bundle" /\ ~world.garbled /\ settings.apiKey # "rejected"
    /\ c.subject = "name" => "names" \in promised /\ ~settings.ethRpc
    /\ c.name = "issue" => /\ c.keys = {} /\ ~publisherThrows
                           /\ ~(settings.batchId = "own" /\ world.bee.batch = "full")

GrantTold(c) ==
    /\ "grant" \in promised /\ c.keys # {} /\ c.subject = "literal"
    /\ ~world.garbled /\ ~publisherThrows /\ ~world.bee.slow
    /\ settings.batchId # "foreign" /\ (world.bee.batch = "shallow" => settings.batchId = "own")

\* Such an issue has not failed, and the backend it works with takes its writes.
IssueForetold(c) ==
    /\ RunTold(c) => /\ ~c.failed
                     /\ c.phase # "evidence" => c.claims
                     /\ c.phase \in Sealing => accepts(c.client)
    /\ GrantTold(c) => /\ ~c.failed /\ c.phase # "fallback"
                       /\ c.phase \in Sealing => c.client.kind = "node"

EndForetold(l) ==
    /\ RunTold(l) => l.code = 0 /\ l.claims
    /\ l.name = "issue" /\ GrantTold(l) => l.code = 0

UnderWayInv == cmd # NoCommand /\ cmd.name = "issue" => IssueForetold(cmd)
DoneInv == finished({"scan", "issue"}) => EndForetold(last)

ForetoldInv == UnderWayInv /\ DoneInv

IInv ==
    TypeOK /\ KeptInv /\ CommandInv /\ LeftInv /\ ReliedInv /\ ToldInv /\ ForetoldInv
----------------------------------------------------------------------------
(* What lies on the node and on the log stays there. *)

Extends(s, t) == Len(t) \in Nat /\ DOMAIN t = 1..Len(t) /\ DOMAIN s \subseteq DOMAIN t /\ \A i \in DOMAIN s : t[i] = s[i]

Grown ==
    /\ Extends(lists, lists') /\ Extends(sealed, sealed') /\ Extends(sealedBy, sealedBy') /\ Extends(kept, kept')
    /\ settings' = settings /\ commands' \in Nat /\ commands' >= commands

LEMMA Longer ==
    ASSUME NEW S, NEW s \in Seq(S), NEW t \in Seq(S), NEW e, t = s \/ t = Append(s, e)
    PROVE  Extends(s, t)
<1>1. Len(s) \in Nat /\ DOMAIN s = 1..Len(s) /\ Len(t) \in Nat /\ DOMAIN t = 1..Len(t)
  OBVIOUS
<1>2. CASE t = s
  BY <1>1, <1>2 DEF Extends
<1>3. CASE t = Append(s, e)
  BY <1>1, <1>3 DEF Extends
<1> QED
  BY <1>2, <1>3

LEMMA Appended ==
    ASSUME NEW S, NEW s \in Seq(S), NEW e \in S
    PROVE  /\ Append(s, e) \in Seq(S) /\ Len(s) \in Nat /\ DOMAIN s = 1..Len(s)
           /\ Len(Append(s, e)) = Len(s) + 1 /\ DOMAIN Append(s, e) = 1..Len(Append(s, e))
           /\ \A i \in DOMAIN s : Append(s, e)[i] = s[i]
           /\ Append(s, e)[Len(s) + 1] = e
OBVIOUS

LEMMA SequenceFacts ==
    ASSUME TypeOK
    PROVE  /\ Len(lists) \in Nat /\ DOMAIN lists = 1..Len(lists) /\ \A v \in DOMAIN lists : lists[v] \subseteq Keys
           /\ Len(sealed) \in Nat /\ DOMAIN sealed = 1..Len(sealed) /\ \A o \in DOMAIN sealed : sealed[o] \in DOMAIN lists
           /\ DOMAIN sealedBy = 1..Len(sealed) /\ \A o \in DOMAIN sealed : sealedBy[o] \in {NodeKey, GatewayKey}
           /\ Len(kept) \in Nat /\ DOMAIN kept = 1..Len(kept) /\ \A i \in DOMAIN kept : kept[i] \in Receipt
<1>1. /\ lists \in Seq(SUBSET Keys) /\ sealed \in Seq(DOMAIN lists)
      /\ sealedBy \in Seq({NodeKey, GatewayKey}) /\ Len(sealedBy) = Len(sealed) /\ kept \in Seq(Receipt)
  BY DEF TypeOK, ListsTypeOK, Versions
<1> QED
  BY <1>1

LEMMA SoundStays ==
    ASSUME TypeOK, Grown, NEW r \in Receipt, Sound(r)
    PROVE  Sound(r)'
<1>1. r.ref \in Nat /\ commands \in Nat
  BY DEF TypeOK, Receipt
<1>2. r.swarmRef \in DOMAIN sealedBy
  BY SequenceFacts DEF Sound
<1> QED
  BY <1>1, <1>2 DEF Sound, Grown, Extends

LEMMA OnLogStays ==
    ASSUME Grown, NEW r, OnLog(r)
    PROVE  OnLog(r)'
BY DEF OnLog, Grown, Extends

LEMMA HasTierStays ==
    ASSUME KeptInv, Grown, NEW ref, NEW t, NEW keys, HasTier(ref, t, keys)
    PROVE  HasTier(ref, t, keys)'
<1>1. PICK i \in DOMAIN kept : kept[i].ref = ref /\ kept[i].tier = t /\ lists[kept[i].history] = keys
  BY DEF HasTier
<1>2. kept[i].history \in DOMAIN lists
  BY DEF KeptInv, Sound
<1>3. i \in DOMAIN kept' /\ kept'[i] = kept[i] /\ lists'[kept[i].history] = lists[kept[i].history]
  BY <1>2 DEF Grown, Extends
<1> QED
  BY <1>1, <1>3 DEF HasTier

\* Where the log is as it was.
LEMMA KeptStays ==
    ASSUME TypeOK, KeptInv, Grown, UNCHANGED kept
    PROVE  KeptInv'
<1>1. \A i \in DOMAIN kept : kept[i] \in Receipt
  BY SequenceFacts
<1> QED
  BY <1>1, SoundStays DEF KeptInv
----------------------------------------------------------------------------
(* The command under way, by its phase. *)

LEMMA IssueFacts ==
    ASSUME TypeOK, CommandInv, cmd # NoCommand,
           cmd.name = "issue" \/ cmd.phase \in Sealing \cup {"evidence", "fallback", "write"}
    PROVE  cmd \in Issue /\ cmd.name = "issue" /\ IssueOk(cmd)
<1>1. cmd \in Issue \cup GranteeCommand
  BY DEF TypeOK
<1>2. cmd \notin GranteeCommand
  BY DEF GranteeCommand, Sealing
<1>3. cmd \in Issue /\ cmd.name = "issue"
  BY <1>1, <1>2 DEF Issue
<1> QED
  BY <1>3 DEF CommandInv

LEMMA GranteeFacts ==
    ASSUME TypeOK, CommandInv, cmd # NoCommand, cmd.name \in {"grant", "revoke"} \/ cmd.phase \in {"reach", "patch"}
    PROVE  cmd \in GranteeCommand /\ cmd.name \in {"grant", "revoke"} /\ GranteeOk(cmd)
<1>1. cmd \in Issue \cup GranteeCommand
  BY DEF TypeOK
<1>2. cmd \notin Issue
  BY DEF Issue, Sealing
<1>3. cmd \in GranteeCommand /\ cmd.name \in {"grant", "revoke"} /\ cmd.name # "issue"
  BY <1>1, <1>2 DEF GranteeCommand
<1> QED
  BY <1>3 DEF CommandInv

LEMMA ReceiptFacts ==
    ASSUME NEW r \in Receipt
    PROVE  /\ r.tier \in Tiers /\ r.ref \in Nat /\ r.history \in Nat /\ r.listRef \in Nat \cup {NoList}
           /\ r.swarmRef \in Nat /\ r.publisher \in Publishers /\ r # NoReceipt
<1>1. r.tier \in 1..2
  BY DEF Receipt, Tiers
<1> QED
  BY <1>1 DEF Receipt, NoReceipt
----------------------------------------------------------------------------
(* What a request does to the node. *)

NodeStep ==
    /\ ListsTypeOK'
    /\ sealedBy' \in Seq({NodeKey, GatewayKey}) /\ Len(sealedBy') = Len(sealed')
    /\ Extends(lists, lists') /\ Extends(sealed, sealed') /\ Extends(sealedBy, sealedBy')

LEMMA NodeTypes ==
    ASSUME TypeOK
    PROVE  /\ lists \in Seq(SUBSET Keys) /\ sealed \in Seq(DOMAIN lists)
           /\ sealedBy \in Seq({NodeKey, GatewayKey}) /\ Len(sealedBy) = Len(sealed) /\ kept \in Seq(Receipt)
BY DEF TypeOK, ListsTypeOK, Versions

\* One list, or one object, or both are added.
LEMMA NodeAppends ==
    ASSUME TypeOK, NEW list \in SUBSET Keys, NEW o, NEW key \in {NodeKey, GatewayKey},
           lists' = lists \/ lists' = Append(lists, list),
           \/ UNCHANGED <<sealed, sealedBy>>
           \/ sealed' = Append(sealed, o) /\ sealedBy' = Append(sealedBy, key) /\ o \in DOMAIN lists'
    PROVE  NodeStep
<1>1. lists' \in Seq(SUBSET Keys) /\ Extends(lists, lists')
  <2>1. lists' \in Seq(SUBSET Keys)
    <3>1. lists \in Seq(SUBSET Keys)
      BY NodeTypes
    <3>2. Append(lists, list) \in Seq(SUBSET Keys)
      BY <3>1
    <3> QED
      BY <3>1, <3>2
  <2> QED
    BY <2>1, NodeTypes, Longer
<1>2. sealed \in Seq(DOMAIN lists')
  <2>1. DOMAIN lists \subseteq DOMAIN lists' /\ Len(sealed) \in Nat /\ sealed \in [1..Len(sealed) -> DOMAIN lists]
    <3>1. sealed \in Seq(DOMAIN lists)
      BY NodeTypes
    <3>2. Len(sealed) \in Nat /\ sealed \in [1..Len(sealed) -> DOMAIN lists]
      BY <3>1
    <3> QED
      BY <1>1, <3>2 DEF Extends
  <2>2. sealed \in [1..Len(sealed) -> DOMAIN lists']
    BY <2>1
  <2> QED
    BY <2>1, <2>2
<1>3. sealed' \in Seq(DOMAIN lists') /\ Extends(sealed, sealed')
  <2>1. sealed' \in Seq(DOMAIN lists')
    BY <1>2, Appended
  <2> QED
    BY <1>2, <2>1, Longer
<1>4. sealedBy' \in Seq({NodeKey, GatewayKey}) /\ Extends(sealedBy, sealedBy')
  <2>1. sealedBy' \in Seq({NodeKey, GatewayKey})
    <3>1. sealedBy \in Seq({NodeKey, GatewayKey})
      BY NodeTypes
    <3>2. Append(sealedBy, key) \in Seq({NodeKey, GatewayKey})
      BY <3>1
    <3> QED
      BY <3>1, <3>2
  <2> QED
    BY <2>1, NodeTypes, Longer
<1>5. Len(sealedBy') = Len(sealed')
  BY <1>2, NodeTypes, Appended
<1> QED
  BY <1>1, <1>3, <1>4, <1>5 DEF NodeStep, ListsTypeOK, Versions

LEMMA NodeUntouched ==
    ASSUME TypeOK, UNCHANGED <<lists, sealed, sealedBy>>
    PROVE  NodeStep
<1>1. {} \in SUBSET Keys /\ NodeKey \in {NodeKey, GatewayKey}
  OBVIOUS
<1> QED
  BY <1>1, NodeAppends, Zenon

LEMMA ListMade ==
    ASSUME TypeOK, CommandInv, cmd # NoCommand, cmd.phase = "list", prepareGranteeList
    PROVE  NodeStep
<1>1. cmd.keys \in SUBSET Keys /\ lists' = Append(lists, cmd.keys) /\ UNCHANGED <<sealed, sealedBy>>
  BY IssueFacts DEF Sealing, Issue, prepareGranteeList, createList
<1>2. NodeKey \in {NodeKey, GatewayKey}
  OBVIOUS
<1> QED
  BY <1>1, <1>2, NodeAppends, Zenon

LEMMA TierUploaded ==
    ASSUME TypeOK, CommandInv, cmd # NoCommand, cmd.phase = "upload", uploadTier
    PROVE  /\ NodeStep
           /\ sealed'[Len(sealed')] \in DOMAIN lists' /\ lists'[sealed'[Len(sealed')]] = cmd.keys
           /\ Len(sealed') \in DOMAIN sealed' /\ sealedBy'[Len(sealed')] = ownKey(cmd.client)
<1> DEFINE v == IF cmd.keys = {} THEN Len(lists) + 1 ELSE cmd.receipt.history
<1>1. /\ cmd.keys # {} => cmd.receipt.history \in DOMAIN lists /\ lists[cmd.receipt.history] = cmd.keys
  BY IssueFacts DEF Sealing, IssueOk, RequestOk
<1>2. /\ lists' = IF cmd.keys = {} THEN Append(lists, {}) ELSE lists
      /\ sealed' = Append(sealed, v) /\ sealedBy' = Append(sealedBy, ownKey(cmd.client))
  BY DEF uploadTier
<1>3. v \in DOMAIN lists' /\ lists'[v] = cmd.keys
  <2>1. CASE cmd.keys = {}
    <3>1. lists' = Append(lists, {}) /\ {} \in SUBSET Keys /\ v = Len(lists) + 1
      BY <1>2, <2>1
    <3> HIDE DEF v
    <3>2. DOMAIN lists' = 1..(Len(lists) + 1) /\ Len(lists) \in Nat /\ lists'[v] = {}
      BY <3>1, NodeTypes, Appended
    <3> QED
      BY <2>1, <3>1, <3>2
  <2>2. CASE cmd.keys # {}
    BY <1>1, <1>2, <2>2
  <2> QED
    BY <2>1, <2>2
<1>4. ownKey(cmd.client) \in {NodeKey, GatewayKey}
  BY DEF ownKey
<1> HIDE DEF v
<1>5. lists' = lists \/ lists' = Append(lists, {})
  BY <1>2
<1>6. NodeStep
  BY <1>2, <1>3, <1>4, <1>5, NodeAppends
<1>7. Len(sealed) \in Nat /\ Len(sealed') = Len(sealed) + 1 /\ sealed'[Len(sealed')] = v
      /\ sealedBy'[Len(sealed')] = ownKey(cmd.client) /\ Len(sealed') \in DOMAIN sealed'
  BY <1>2, NodeTypes
<1> QED
  BY <1>3, <1>6, <1>7

LEMMA ListPatched ==
    ASSUME TypeOK, CommandInv, cmd # NoCommand, cmd.phase = "patch", applyPatch
    PROVE  NodeStep
<1>1. cmd.keys \in SUBSET Keys /\ cmd.receipt \in Receipt /\ Sound(cmd.receipt)
  BY GranteeFacts DEF GranteeCommand, GranteeOk
<1> DEFINE add == IF cmd.name = "grant" THEN cmd.keys ELSE {}
           revoke == IF cmd.name = "revoke" THEN cmd.keys ELSE {}
           list == patched(cmd.receipt.listRef, add, revoke)
<1>2. cmd.receipt.listRef # NoList /\ lists' = Append(lists, list) /\ UNCHANGED <<sealed, sealedBy>>
  BY DEF applyPatch, patchGrantees
<1>3. list \in SUBSET Keys
  <2>1. lists[cmd.receipt.listRef] \subseteq Keys
    BY <1>1, <1>2, SequenceFacts DEF Sound
  <2> QED
    BY <1>1, <2>1 DEF patched
<1>4. NodeKey \in {NodeKey, GatewayKey}
  OBVIOUS
<1> QED
  BY <1>2, <1>3, <1>4, NodeAppends, Zenon
----------------------------------------------------------------------------
(* What the actions have in common. *)

NodeQuiet == UNCHANGED <<lists, sealed, sealedBy>>
FilesQuiet == UNCHANGED <<kept, envelope, relied>>

Scan == \E subject \in Subjects : scan(subject)
IssueBegins == \E subject \in Subjects, keys \in SUBSET Keys, seal \in BOOLEAN : issue(subject, keys, seal)
GranteeBegins == \E action \in {"grant", "revoke"}, key \in Keys, t \in Tiers : grantee(action, key, t)

\* The steps of a command that touch neither the node nor a file.
Thinks == Collect \/ Connect \/ Fallback \/ TierFails \/ Reach \/ ConnectNode \/ PatchFails

LEMMA QuietSteps ==
    ASSUME ServiceChanges \/ Kill \/ Doctor \/ Scan \/ IssueBegins \/ GranteeBegins \/ Thinks
    PROVE  NodeQuiet /\ FilesQuiet
<1>1. CASE ServiceChanges \/ Kill \/ Doctor
  BY <1>1 DEF ServiceChanges, Kill, Doctor, node, files, NodeQuiet, FilesQuiet
<1>2. CASE Scan \/ IssueBegins \/ GranteeBegins
  BY <1>2 DEF Scan, scan, IssueBegins, issue, GranteeBegins, grantee, node, files, NodeQuiet, FilesQuiet
<1>3. CASE Thinks
  BY <1>3 DEF Thinks, Collect, Connect, Fallback, TierFails, Reach, ConnectNode, PatchFails, node, files, NodeQuiet, FilesQuiet
<1> QED
  BY <1>1, <1>2, <1>3

LEMMA NextCases ==
    ASSUME Next
    PROVE  \/ ServiceChanges \/ Kill \/ Doctor \/ Scan \/ IssueBegins \/ GranteeBegins \/ Thinks
           \/ CreateList \/ Upload \/ Keep \/ AnswerLost \/ Write \/ Patch \/ PatchUnheard
BY DEF Next, Scan, IssueBegins, GranteeBegins, Thinks

LEMMA NodeStepped ==
    ASSUME TypeOK, CommandInv, Next
    PROVE  NodeStep
<1>1. CASE ServiceChanges \/ Kill \/ Doctor \/ Scan \/ IssueBegins \/ GranteeBegins \/ Thinks
  BY <1>1, QuietSteps, NodeUntouched DEF NodeQuiet
<1>2. CASE CreateList
  BY <1>2, ListMade DEF CreateList
<1>3. CASE Upload
  BY <1>3, TierUploaded DEF Upload
<1>4. CASE Keep \/ Write
  <2>1. UNCHANGED <<lists, sealed, sealedBy>>
    BY <1>4 DEF Keep, Write, node
  <2> QED
    BY <2>1, NodeUntouched
<1>5. CASE AnswerLost
  <2>1. (cmd.phase = "list" /\ prepareGranteeList) \/ (cmd.phase = "upload" /\ uploadTier)
    BY <1>5 DEF AnswerLost
  <2>2. cmd # NoCommand
    BY <1>5 DEF AnswerLost
  <2> QED
    BY <2>1, <2>2, ListMade, TierUploaded
<1>6. CASE Patch \/ PatchUnheard
  <2>1. cmd # NoCommand /\ cmd.phase = "patch" /\ applyPatch
    BY <1>6 DEF Patch, PatchUnheard
  <2> QED
    BY <2>1, ListPatched
<1> QED
  BY <1>1, <1>2, <1>3, <1>4, <1>5, <1>6, NextCases

\* The log gets the receipt of a tier that was uploaded, and nothing else.
LEMMA KeptStepped ==
    ASSUME TypeOK, CommandInv, Next
    PROVE  /\ kept' \in Seq(Receipt) /\ Extends(kept, kept')
           /\ ~Keep => kept' = kept
<1>1. CASE Keep
  <2>1. cmd # NoCommand /\ cmd.phase = "keep" /\ kept' = Append(kept, cmd.receipt)
    BY <1>1 DEF Keep, keep
  <2>2. cmd.receipt \in Receipt
    BY <2>1, IssueFacts DEF Sealing, IssueOk, RequestOk
  <2>3. kept' \in Seq(Receipt)
    BY <2>1, <2>2, NodeTypes
  <2>4. kept \in Seq(Receipt)
    BY NodeTypes
  <2>5. Extends(kept, kept')
    BY <2>1, <2>3, <2>4, Longer
  <2> QED
    BY <1>1, <2>3, <2>5
<1>2. CASE ~Keep
  <2>3. kept' = kept
    <3>1. CASE ServiceChanges \/ Kill \/ Doctor \/ Scan \/ IssueBegins \/ GranteeBegins \/ Thinks
      BY <3>1, QuietSteps DEF FilesQuiet
    <3>2. CASE CreateList \/ Upload \/ AnswerLost \/ Write \/ Patch \/ PatchUnheard
      BY <3>2 DEF CreateList, Upload, AnswerLost, Write, Patch, PatchUnheard, files
    <3> QED
      BY <1>2, <3>1, <3>2, NextCases
  <2>4. kept \in Seq(Receipt)
    BY NodeTypes
  <2>5. Extends(kept, kept')
    BY <2>3, <2>4, Longer
  <2> QED
    BY <2>3, <2>4, <2>5
<1> QED
  BY <1>1, <1>2

\* The environment of the process is set once; commands are numbered.
LEMMA Counted ==
    ASSUME TypeOK, Next
    PROVE  /\ settings' = settings
           /\ commands' \in Nat /\ commands' >= commands
           /\ cmd # NoCommand => commands' = commands
<1>1. settings' = settings
  <2>1. CASE ServiceChanges \/ Kill \/ Doctor \/ Scan \/ IssueBegins \/ GranteeBegins
    BY <2>1 DEF ServiceChanges, Kill, Doctor, Scan, scan, IssueBegins, issue, GranteeBegins, grantee, Steady
  <2>2. CASE Thinks
    BY <2>2 DEF Thinks, Collect, Connect, Fallback, TierFails, Reach, ConnectNode, PatchFails, Steady
  <2>3. CASE CreateList \/ Upload \/ Keep \/ AnswerLost \/ Write \/ Patch \/ PatchUnheard
    BY <2>3 DEF CreateList, Upload, Keep, AnswerLost, Write, Patch, PatchUnheard, Steady
  <2> QED
    BY <2>1, <2>2, <2>3, NextCases
<1>2. \/ commands' = commands
      \/ cmd = NoCommand /\ commands' = commands + 1
  <2>1. CASE ServiceChanges \/ Kill \/ Doctor \/ Scan \/ IssueBegins \/ GranteeBegins
    BY <2>1 DEF ServiceChanges, Kill, Exit, Doctor, Scan, scan, IssueBegins, issue, GranteeBegins, grantee, Begin
  <2>2. CASE Thinks
    BY <2>2 DEF Thinks, Collect, Connect, Fallback, TierFails, Reach, ConnectNode, PatchFails, Exit, refuse, Continue
  <2>3. CASE CreateList \/ Upload \/ Keep \/ AnswerLost \/ Write \/ Patch \/ PatchUnheard
    BY <2>3 DEF CreateList, Upload, Keep, AnswerLost, Write, Patch, PatchUnheard, Exit, Continue
  <2> QED
    BY <2>1, <2>2, <2>3, NextCases
<1> QED
  BY <1>1, <1>2 DEF TypeOK

LEMMA StepGrows ==
    ASSUME TypeOK, CommandInv, Next
    PROVE  Grown
BY NodeStepped, KeptStepped, Counted DEF NodeStep, Grown
----------------------------------------------------------------------------
(* The services, and what doctor told of them. *)

\* Some change of the services, which makes doctor's word void.
Changed == /\ world' \in Worlds /\ promised' = {} /\ drifts' = drifts + 1 /\ UNCHANGED settings

WorldFacts ==
    /\ world \in Worlds /\ world.hosts \subseteq Hosts /\ world.bee \in Nodes /\ world.garbled \in BOOLEAN
    /\ \A hosts \in SUBSET Hosts : [world EXCEPT !.hosts = hosts] \in Worlds
    /\ \A bee \in Nodes : [world EXCEPT !.bee = bee] \in Worlds
    /\ \A garbled \in BOOLEAN : [world EXCEPT !.garbled = garbled] \in Worlds

LEMMA WorldParts == TypeOK => WorldFacts
BY DEF TypeOK, WorldFacts, Worlds

LEMMA DriftCases ==
    ASSUME TypeOK, Next
    PROVE  Changed \/ Steady \/ Doctor
<1>1. CASE ServiceChanges
  <2>1. ASSUME NEW w \in Worlds, change(w), UNCHANGED settings PROVE Changed
    BY <2>1 DEF change, Changed
  <2>2. UNCHANGED settings
    BY <1>1 DEF ServiceChanges
  <2>3. ASSUME NEW h \in Hosts
        PROVE  [world EXCEPT !.hosts = IF up(h) THEN @ \ {h} ELSE @ \cup {h}] \in Worlds
    <3>1. (IF up(h) THEN world.hosts \ {h} ELSE world.hosts \cup {h}) \in SUBSET Hosts
      BY WorldParts DEF WorldFacts
    <3> QED
      BY <3>1, WorldParts DEF WorldFacts
  <2>0. world.bee.kind = "node" => world.bee \in [kind : {"node"}, reports : BOOLEAN, batch : Batches, slow : BOOLEAN]
    BY WorldParts DEF WorldFacts, Nodes, NoNode
  <2>4. ASSUME NEW batch \in Batches, world.bee.kind = "node" PROVE [world EXCEPT !.bee.batch = batch] \in Worlds
    <3>1. world.bee \in [kind : {"node"}, reports : BOOLEAN, batch : Batches, slow : BOOLEAN]
      BY <2>0, <2>4
    <3>2. [world.bee EXCEPT !.batch = batch] \in Nodes
      BY <3>1 DEF Nodes
    <3>3. [world EXCEPT !.bee = [world.bee EXCEPT !.batch = batch]] \in Worlds
      BY <3>2, WorldParts DEF WorldFacts
    <3> QED
      BY <3>3
  <2>5. world.bee.batch \in {"pending", "good"} => world.bee.kind = "node"
    BY WorldParts DEF WorldFacts, Nodes, NoNode
  <2>6. "good" \in Batches /\ "full" \in Batches
    BY DEF Batches
  <2>7. CASE \E h \in Hosts : change([world EXCEPT !.hosts = IF up(h) THEN @ \ {h} ELSE @ \cup {h}])
    BY <2>1, <2>2, <2>3, <2>7
  <2>8. CASE \E bee \in Nodes : change([world EXCEPT !.bee = bee])
    BY <2>1, <2>2, <2>8, WorldParts DEF WorldFacts
  <2>9. CASE world.bee.batch = "pending" /\ change([world EXCEPT !.bee.batch = "good"])
    BY <2>1, <2>2, <2>4, <2>5, <2>6, <2>9
  <2>10. CASE world.bee.batch = "good" /\ change([world EXCEPT !.bee.batch = "full"])
    BY <2>1, <2>2, <2>4, <2>5, <2>6, <2>10
  <2>12. CASE change([world EXCEPT !.garbled = ~@])
    <3>1. [world EXCEPT !.garbled = ~@] \in Worlds
      BY WorldParts DEF WorldFacts
    <3> QED
      BY <2>1, <2>2, <2>12, <3>1
  <2>13. CASE isNode /\ change([world EXCEPT !.bee.slow = ~@])
    <3>1. world.bee \in [kind : {"node"}, reports : BOOLEAN, batch : Batches, slow : BOOLEAN]
      BY <2>0, <2>13 DEF isNode
    <3>2. [world.bee EXCEPT !.slow = ~@] \in Nodes
      BY <3>1 DEF Nodes
    <3>3. [world EXCEPT !.bee = [world.bee EXCEPT !.slow = ~@]] \in Worlds
      BY <3>2, WorldParts DEF WorldFacts
    <3>4. [world EXCEPT !.bee.slow = ~@] \in Worlds
      BY <3>3
    <3> QED
      BY <2>1, <2>2, <2>13, <3>4
  <2>11. (\E bee \in NoNode : change([world EXCEPT !.bee = bee])) => \E bee \in Nodes : change([world EXCEPT !.bee = bee])
    BY DEF Nodes
  <2> QED
    BY <1>1, <2>7, <2>8, <2>9, <2>10, <2>11, <2>12, <2>13 DEF ServiceChanges
<1>2. ASSUME NEW client, goesDown(client), UNCHANGED settings PROVE Changed
  <2>1. [world EXCEPT !.hosts = @ \ {"gateway"}] \in Worlds
    <3>1. world.hosts \ {"gateway"} \in SUBSET Hosts
      BY WorldParts DEF WorldFacts
    <3> QED
      BY <3>1, WorldParts DEF WorldFacts
  <2>2. [world EXCEPT !.bee = [kind |-> "down", reports |-> FALSE, batch |-> "none", slow |-> FALSE]] \in Worlds
    <3>1. [kind |-> "down", reports |-> FALSE, batch |-> "none", slow |-> FALSE] \in Nodes
      BY DEF Nodes, NoNode
    <3> QED
      BY <3>1, WorldParts DEF WorldFacts
  <2> QED
    BY <1>2, <2>1, <2>2 DEF goesDown, change, Changed
<1>3. CASE AnswerLost \/ PatchUnheard
  BY <1>2, <1>3 DEF AnswerLost, PatchUnheard
<1>4. CASE Kill \/ Doctor \/ Scan \/ IssueBegins \/ GranteeBegins
  BY <1>4 DEF Kill, Scan, scan, IssueBegins, issue, GranteeBegins, grantee
<1>5. CASE Thinks
  BY <1>5 DEF Thinks, Collect, Connect, Fallback, TierFails, Reach, ConnectNode, PatchFails
<1>6. CASE CreateList \/ Upload \/ Keep \/ Write \/ Patch
  BY <1>6 DEF CreateList, Upload, Keep, Write, Patch
<1> QED
  BY <1>1, <1>3, <1>4, <1>5, <1>6, NextCases

\* What the rows of doctor rest on.
LEMMA DoctorLooks ==
    ASSUME TypeOK, NEW report \in doctor
    PROVE  /\ report.code \in {0, 1} /\ report.told \subseteq {"run", "grant", "names"}
           /\ "run" \in report.told => up("demo") /\ up("gateway")
           /\ "grant" \in report.told => world.bee.kind = "node" /\ world.bee.batch \in {"shallow", "good"}
           /\ "names" \in report.told => settings.ethRpc \/ up("eth")
<1>1. PICK deep \in BOOLEAN, e \in Elsewhere :
        LET rows == runProbes(deep, e)
        IN  report = [code |-> IF demoPathReady(rows) THEN 0 ELSE 1, told |-> told(rows)]
  BY DEF doctor
<1> DEFINE rows == runProbes(deep, e)
<1>2. report.code \in {0, 1} /\ report.told = told(rows)
  BY <1>1
<1>3. /\ rows["mobula-demo"] = mobulaDemo /\ rows["swarm-gateway"] = swarmGateway
      /\ rows["bee-node"] = beeNode
      /\ rows["rpc-ethereum"] = rpc(IF settings.ethRpc \/ up("eth") THEN "chain" ELSE "none")
  BY DEF runProbes, Ids
<1> HIDE DEF rows
<1>4. demoPathReady(rows) => rows["mobula-demo"] = "ok" /\ rows["swarm-gateway"] = "ok"
  BY DEF demoPathReady, summarise, required
<1>5. /\ "run" \in told(rows) => demoPathReady(rows)
      /\ "grant" \in told(rows) => rows["bee-node"] = "ok"
      /\ "names" \in told(rows) => rows["rpc-ethereum"] = "ok"
      /\ told(rows) \subseteq {"run", "grant", "names"}
  BY DEF told
<1>6. mobulaDemo = "ok" => up("demo")
  BY DEF mobulaDemo, request
<1>7. swarmGateway = "ok" => up("gateway")
  BY DEF swarmGateway, request
<1>8. beeNode = "ok" => world.bee.kind = "node" /\ world.bee.batch \in {"shallow", "good"}
  BY DEF beeNode, isNode, usableBatches
<1>9. rpc(IF settings.ethRpc \/ up("eth") THEN "chain" ELSE "none") = "ok" => settings.ethRpc \/ up("eth")
  BY DEF rpc
<1> QED
  BY <1>2, <1>3, <1>4, <1>5, <1>6, <1>7, <1>8, <1>9

LEMMA ToldStepped ==
    ASSUME TypeOK, ToldInv, Next
    PROVE  /\ world' \in Worlds /\ settings' \in AllSettings /\ drifts' \in Nat
           /\ promised' \subseteq {"run", "grant", "names"}
           /\ ToldInv'
           /\ cmd # NoCommand => Steady \/ promised' = {}
<1>0. world \in Worlds /\ settings \in AllSettings /\ drifts \in Nat /\ promised \subseteq {"run", "grant", "names"}
  BY DEF TypeOK
<1>1. CASE Changed
  BY <1>0, <1>1 DEF Changed, ToldInv
<1>2. CASE Steady
  BY <1>0, <1>2 DEF Steady, ToldInv, up
<1>3. CASE Doctor
  <2>1. PICK report \in doctor : promised' = report.told
    BY <1>3 DEF Doctor
  <2>2. UNCHANGED <<world, settings, drifts>> /\ cmd = NoCommand
    BY <1>3 DEF Doctor, Begin
  <2> QED
    BY <1>0, <2>1, <2>2, DoctorLooks DEF ToldInv, up
<1> QED
  BY <1>1, <1>2, <1>3, DriftCases
----------------------------------------------------------------------------
(* The command under way, step by step. *)

LEMMA RequestStays ==
    ASSUME TypeOK, Grown, NEW c \in Issue, RequestOk(c)
    PROVE  RequestOk(c)'
<1>1. c.phase = "keep" => Sound(c.receipt)' /\ lists'[c.receipt.history] = lists[c.receipt.history]
  <2> SUFFICES ASSUME c.phase = "keep" PROVE Sound(c.receipt)' /\ lists'[c.receipt.history] = lists[c.receipt.history]
    OBVIOUS
  <2>1. c.receipt \in Receipt /\ Sound(c.receipt)
    BY DEF RequestOk, Sealing
  <2>2. lists'[c.receipt.history] = lists[c.receipt.history]
    BY <2>1 DEF Sound, Grown, Extends
  <2> QED
    BY <2>1, <2>2, SoundStays
<1>2. c.phase = "upload" /\ c.keys # {} =>
        /\ c.receipt.history \in DOMAIN lists' /\ lists'[c.receipt.history] = c.keys
        /\ c.receipt.listRef \in DOMAIN lists'
  BY DEF RequestOk, Grown, Extends
<1>3. settings' = settings
  BY DEF Grown
<1> QED
  BY <1>1, <1>2, <1>3 DEF RequestOk

\* A command that says and has sealed as much as before.
LEMMA TiersStay ==
    ASSUME TypeOK, KeptInv, Grown, NEW c \in Issue, TiersOk(c), NEW d \in Issue,
           d.tiers = c.tiers, d.keys = c.keys, d.ref = c.ref, d.seal = c.seal, ~d.failed => ~c.failed,
           d.seal /\ ~d.failed => \A t \in Tiers : Past(d, t) => Past(c, t)
    PROVE  TiersOk(d)'
<1>1. ASSUME NEW r \in d.tiers PROVE OnLog(r)' /\ isReadable(r) /\ lists'[r.history] = d.keys
  <2>1. OnLog(r) /\ isReadable(r) /\ lists[r.history] = c.keys
    BY DEF TiersOk
  <2>2. r.history \in DOMAIN lists
    BY <2>1 DEF OnLog, KeptInv, Sound
  <2> QED
    BY <2>1, <2>2, OnLogStays DEF Grown, Extends
<1>2. ASSUME d.seal, ~d.failed, NEW t \in Tiers, Past(d, t) PROVE HasTier(d.ref, t, d.keys)'
  <2>1. HasTier(c.ref, t, c.keys)
    BY <1>2 DEF TiersOk
  <2>2. HasTier(c.ref, t, c.keys)'
    BY <2>1, HasTierStays
  <2> QED
    BY <2>2
<1>3. \A t \in Tiers : Past(d, t)' <=> Past(d, t)
  BY DEF Past
<1> QED
  BY <1>1, <1>2, <1>3 DEF TiersOk, isReadable

LEMMA TierFacts ==
    ASSUME cmd \in Issue, NEW t \in Tiers
    PROVE  /\ tier(t) \in Receipt /\ tier(t).tier = t /\ tier(t).ref = cmd.ref
           /\ tier(t).listRef = NoList /\ tier(t).publisher = cmd.client.publisher
<1>1. cmd.ref \in Nat /\ cmd.client \in Client /\ cmd.client.publisher \in Publishers
  BY DEF Issue, Client
<1> QED
  BY <1>1 DEF tier, Receipt

LEMMA NextTierFacts ==
    ASSUME cmd \in Issue, NEW c \in Issue, NEW t \in Tiers
    PROVE  LET d == nextTier(c, t)
           IN  /\ d \in Issue
               /\ d.ref = c.ref /\ d.keys = c.keys /\ d.seal = c.seal /\ d.tiers = c.tiers /\ d.failed = c.failed
               /\ d.claims = c.claims /\ d.client = c.client /\ d.subject = c.subject
               /\ t = 1 => d.phase = firstRequest(c.keys) /\ d.receipt = tier(2)
               /\ t # 1 => d.phase = "write"
<1>1. firstRequest(c.keys) \in {"list", "upload"}
  BY DEF firstRequest
<1>2. tier(2) \in Receipt
  BY TierFacts DEF Tiers
<1>3. CASE t = 1
  BY <1>1, <1>2, <1>3 DEF nextTier, Issue, Sealing
<1>4. CASE t # 1
  BY <1>4 DEF nextTier, Issue
<1> QED
  BY <1>3, <1>4

LEMMA ConnectionFacts ==
    ASSUME TypeOK, NEW kind \in {"auto", "node"}
    PROVE  /\ connectBackend(kind) \in Client /\ connectGateway \in Client /\ NoClient.kind = "none"
           /\ connectBackend(kind) # NoClient => connectBackend(kind).kind # "none"
           /\ connectGateway # NoClient => connectGateway.kind # "none"
           /\ settings.actPublisher = Unset =>
                 /\ connectGateway # NoClient => connectGateway.publisher = Unset
                 /\ connectBackend(kind) # NoClient =>
                       connectBackend(kind).publisher \in {Unset, ownKey(connectBackend(kind))}
<1>1. publisherThrows \/ settings.actPublisher \in Publishers
  BY DEF TypeOK, AllSettings, Publishers, publisherThrows
<1>2. connectGateway \in Client /\ (connectGateway # NoClient => connectGateway.kind = "gateway")
      /\ (settings.actPublisher = Unset /\ connectGateway # NoClient => connectGateway.publisher = Unset)
  BY <1>1 DEF connectGateway, resolvePublisher, NoClient, Client, Publishers
<1>3. connectNode \in Client /\ (connectNode # NoClient => connectNode.kind = "node")
      /\ (settings.actPublisher = Unset /\ connectNode # NoClient => connectNode.publisher \in {Unset, NodeKey})
  BY <1>1 DEF connectNode, resolvePublisher, NoClient, Client, Publishers
<1>4. NoClient.kind = "none"
  BY DEF NoClient
<1>5. connectBackend(kind) \in {connectNode, connectGateway}
  BY DEF connectBackend
<1> QED
  BY <1>2, <1>3, <1>4, <1>5 DEF ownKey
\* Where the next request is still ahead, or there is none.
LEMMA IssueAdvances ==
    ASSUME TypeOK, KeptInv, Grown, cmd \in Issue, IssueOk(cmd), commands' = commands,
           NEW d \in Issue,
           d.ref = cmd.ref, d.keys = cmd.keys, d.seal = cmd.seal, d.tiers = cmd.tiers, ~d.failed => ~cmd.failed,
           d.seal /\ ~d.failed => \A t \in Tiers : Past(d, t) => Past(cmd, t),
           RequestOk(d)'
    PROVE  IssueOk(d)'
<1>1. TiersOk(d)'
  BY TiersStay DEF IssueOk
<1> QED
  BY <1>1 DEF IssueOk

LEMMA IssueBeginsOk ==
    ASSUME TypeOK, IssueBegins
    PROVE  cmd' \in Issue /\ IssueOk(cmd)'
<1>1. PICK subject \in Subjects, keys \in SUBSET Keys, seal \in BOOLEAN : issue(subject, keys, seal)
  BY DEF IssueBegins
<1>2. cmd' = [name |-> "issue", phase |-> "evidence", ref |-> commands', subject |-> subject, keys |-> keys,
              seal |-> seal, claims |-> FALSE, client |-> NoClient, receipt |-> NoReceipt, tiers |-> {},
              failed |-> FALSE]
  BY <1>1 DEF issue
<1>3. commands' \in Nat /\ NoClient \in Client
  BY <1>1 DEF issue, Begin, TypeOK, NoClient, Client, Publishers
<1>4. cmd' \in Issue
  BY <1>2, <1>3 DEF Issue
<1>5. cmd'.ref = commands' /\ cmd'.phase = "evidence" /\ cmd'.tiers = {}
  BY <1>2
<1> HIDE DEF Issue
<1>6. RequestOk(cmd)'
  BY <1>5 DEF RequestOk, Sealing
<1>7. TiersOk(cmd)'
  BY <1>5 DEF TiersOk, Past, Sealing
<1> QED
  BY <1>4, <1>5, <1>6, <1>7 DEF IssueOk

LEMMA CollectOk ==
    ASSUME TypeOK, KeptInv, CommandInv, Grown, Collect
    PROVE  cmd' = NoCommand \/ (cmd' \in Issue /\ IssueOk(cmd)')
<1>1. cmd \in Issue /\ IssueOk(cmd) /\ cmd.phase = "evidence" /\ commands' = commands
  BY IssueFacts DEF Collect, Exit, Continue
<1>2. CASE cmd' # NoCommand
  <2>1. cmd' = [cmd EXCEPT !.claims = buildEvidence(cmd.subject), !.phase = IF cmd.seal THEN "connect" ELSE "write"]
    BY <1>2 DEF Collect, Exit, Continue
  <2>2. buildEvidence(cmd.subject) \in BOOLEAN
    BY DEF buildEvidence
  <2>3. /\ cmd' \in Issue
        /\ cmd'.phase = (IF cmd.seal THEN "connect" ELSE "write")
        /\ cmd'.ref = cmd.ref /\ cmd'.keys = cmd.keys /\ cmd'.seal = cmd.seal
        /\ cmd'.tiers = cmd.tiers /\ cmd'.failed = cmd.failed
    BY <1>1, <2>1, <2>2 DEF Issue
  <2>4. RequestOk(cmd)'
    BY <2>3 DEF RequestOk, Sealing
  <2>5. cmd'.seal => \A t \in Tiers : ~Past(cmd', t)
    BY <2>3 DEF Past, Sealing
  <2> QED
    BY <1>1, <2>3, <2>4, <2>5, IssueAdvances
<1> QED
  BY <1>2

LEMMA NothingSealedOk ==
    ASSUME TypeOK, KeptInv, Grown, cmd \in Issue, IssueOk(cmd), commands' = commands, cmd' = nothingSealed(cmd)
    PROVE  cmd' \in Issue /\ IssueOk(cmd)'
<1>1. /\ cmd' \in Issue /\ cmd'.failed /\ cmd'.phase = "write" /\ cmd'.ref = cmd.ref /\ cmd'.keys = cmd.keys
      /\ cmd'.seal = cmd.seal /\ cmd'.tiers = cmd.tiers
  BY DEF nothingSealed, Issue
<1>2. RequestOk(cmd)'
  BY <1>1 DEF RequestOk, Sealing
<1> QED
  BY <1>1, <1>2, IssueAdvances

LEMMA WithClientOk ==
    ASSUME TypeOK, KeptInv, Grown, cmd \in Issue, IssueOk(cmd), commands' = commands,
           cmd.phase \in {"connect", "fallback"},
           NEW client \in Client, client.kind # "none",
           settings.actPublisher = Unset => client.publisher \in {Unset, ownKey(client)},
           cmd' = withClient(client)
    PROVE  cmd' \in Issue /\ IssueOk(cmd)'
<1>1. CASE cmd.keys # {} /\ ~canManageGrantees(client)
  BY <1>1, NothingSealedOk DEF withClient
<1>2. CASE ~(cmd.keys # {} /\ ~canManageGrantees(client))
  <2> DEFINE r == [tier(1) EXCEPT !.publisher = client.publisher]
  <2>1. r \in Receipt /\ r.tier = 1 /\ r.ref = cmd.ref /\ r.listRef = NoList /\ r.publisher = client.publisher
    <3>1. client.publisher \in Publishers /\ 1 \in Tiers
      BY DEF Client, Tiers
    <3>2. tier(1) \in Receipt /\ tier(1).tier = 1 /\ tier(1).ref = cmd.ref /\ tier(1).listRef = NoList
      BY <3>1, TierFacts
    <3> QED
      BY <3>1, <3>2 DEF Receipt
  <2>2. cmd' = [cmd EXCEPT !.client = client, !.phase = firstRequest(cmd.keys), !.receipt = r]
    BY <1>2 DEF withClient
  <2> HIDE DEF r
  <2>3. firstRequest(cmd.keys) = IF cmd.keys = {} THEN "upload" ELSE "list"
    BY DEF firstRequest
  <2>4. /\ cmd' \in Issue /\ cmd'.client = client /\ cmd'.phase = firstRequest(cmd.keys) /\ cmd'.receipt = r
        /\ cmd'.ref = cmd.ref /\ cmd'.keys = cmd.keys /\ cmd'.seal = cmd.seal /\ cmd'.tiers = cmd.tiers
        /\ cmd'.failed = cmd.failed
    BY <2>1, <2>2, <2>3 DEF Issue, Sealing
  <2>5. cmd.seal /\ settings' = settings
    BY DEF IssueOk, RequestOk, Grown
  <2>6. RequestOk(cmd)'
    BY <2>1, <2>3, <2>4, <2>5 DEF RequestOk, Sealing, ownKey
  <2>7. \A t \in Tiers : ~Past(cmd', t)
    BY <2>1, <2>3, <2>4 DEF Past, Tiers
  <2> QED
    BY <2>4, <2>6, <2>7, IssueAdvances
<1> QED
  BY <1>1, <1>2

LEMMA ConnectOk ==
    ASSUME TypeOK, KeptInv, CommandInv, Grown, Connect \/ Fallback
    PROVE  cmd' \in Issue /\ IssueOk(cmd)'
<1>1. cmd \in Issue /\ IssueOk(cmd) /\ cmd.phase \in {"connect", "fallback"} /\ commands' = commands
  BY IssueFacts DEF Connect, Fallback, Continue
<1>2. CASE cmd' = [cmd EXCEPT !.phase = "fallback"] /\ cmd.phase = "connect"
  <2>1. /\ cmd' \in Issue /\ cmd'.phase = "fallback" /\ cmd'.ref = cmd.ref /\ cmd'.keys = cmd.keys
        /\ cmd'.seal = cmd.seal /\ cmd'.tiers = cmd.tiers /\ cmd'.failed = cmd.failed
    BY <1>1, <1>2 DEF Issue
  <2>2. cmd.seal
    BY <1>1 DEF IssueOk, RequestOk
  <2>3. RequestOk(cmd)'
    BY <2>1, <2>2 DEF RequestOk, Sealing
  <2>4. \A t \in Tiers : ~Past(cmd', t)
    BY <2>1 DEF Past, Sealing
  <2> QED
    BY <1>1, <2>1, <2>3, <2>4, IssueAdvances
<1>3. CASE cmd' = nothingSealed(cmd)
  BY <1>1, <1>3, NothingSealedOk
<1>4. ASSUME NEW client \in {connectBackend("auto"), connectGateway}, client # NoClient, cmd' = withClient(client)
      PROVE  cmd' \in Issue /\ IssueOk(cmd)'
  <2>1. client \in Client /\ client.kind # "none"
        /\ (settings.actPublisher = Unset => client.publisher \in {Unset, ownKey(client)})
    BY <1>4, ConnectionFacts
  <2> QED
    BY <1>1, <1>4, <2>1, WithClientOk
<1>5. CASE Connect
  BY <1>2, <1>4, <1>5 DEF Connect, Continue
<1>6. CASE Fallback
  BY <1>3, <1>4, <1>6 DEF Fallback, Continue
<1> QED
  BY <1>5, <1>6

LEMMA CreateListOk ==
    ASSUME TypeOK, KeptInv, CommandInv, Grown, CreateList
    PROVE  cmd' \in Issue /\ IssueOk(cmd)'
<1>1. cmd \in Issue /\ IssueOk(cmd) /\ cmd.phase = "list" /\ commands' = commands
  BY IssueFacts DEF CreateList, Continue, Sealing
<1>2. /\ lists' = Append(lists, cmd.keys) /\ cmd.receipt \in Receipt /\ cmd.receipt.ref = cmd.ref
      /\ cmd.seal /\ cmd.keys # {} /\ cmd.client.kind # "none" /\ settings' = settings
      /\ cmd.receipt.publisher = cmd.client.publisher
      /\ settings.actPublisher = Unset => cmd.client.publisher \in {Unset, ownKey(cmd.client)}
  BY <1>1 DEF CreateList, prepareGranteeList, createList, IssueOk, RequestOk, Sealing, Grown
<1> DEFINE new == Len(lists')
           r == [[cmd.receipt EXCEPT !.history = new] EXCEPT !.listRef = new]
<1>3. new \in Nat /\ new \in DOMAIN lists' /\ lists'[new] = cmd.keys
  <2>1. cmd.keys \in SUBSET Keys /\ lists \in Seq(SUBSET Keys)
    BY <1>1, NodeTypes DEF Issue
  <2> QED
    BY <1>2, <2>1
<1>4. cmd' = [cmd EXCEPT !.phase = "upload", !.receipt.history = new, !.receipt.listRef = new]
  BY DEF CreateList, Continue, newest
<1> HIDE DEF new
<1>5. /\ r \in Receipt /\ r.history = new /\ r.listRef = new /\ r.ref = cmd.receipt.ref /\ r.tier = cmd.receipt.tier
      /\ r.publisher = cmd.receipt.publisher
  BY <1>2, <1>3 DEF Receipt
<1>6. cmd' = [[cmd EXCEPT !.phase = "upload"] EXCEPT !.receipt = r]
  BY <1>1, <1>4 DEF Issue
<1> HIDE DEF r
<1>7. /\ cmd' \in Issue /\ cmd'.phase = "upload" /\ cmd'.receipt = r /\ cmd'.client = cmd.client
      /\ cmd'.ref = cmd.ref /\ cmd'.keys = cmd.keys /\ cmd'.seal = cmd.seal /\ cmd'.tiers = cmd.tiers
      /\ cmd'.failed = cmd.failed
  BY <1>1, <1>5, <1>6 DEF Issue, Sealing
<1>8. RequestOk(cmd)'
  BY <1>2, <1>3, <1>5, <1>7 DEF RequestOk, Sealing, ownKey
<1>9. \A t \in Tiers : Past(cmd', t) => Past(cmd, t)
  BY <1>1, <1>5, <1>7 DEF Past, Sealing
<1> QED
  BY <1>1, <1>7, <1>8, <1>9, IssueAdvances

LEMMA UploadOk ==
    ASSUME TypeOK, KeptInv, CommandInv, Grown, Upload
    PROVE  cmd' \in Issue /\ IssueOk(cmd)'
<1>1. cmd \in Issue /\ IssueOk(cmd) /\ cmd.phase = "upload" /\ commands' = commands /\ cmd # NoCommand
  BY IssueFacts DEF Upload, Continue, Sealing
<1>2. /\ cmd.receipt \in Receipt /\ cmd.receipt.ref = cmd.ref /\ cmd.ref = commands
      /\ cmd.seal /\ cmd.client.kind # "none" /\ settings' = settings
      /\ cmd.receipt.publisher = cmd.client.publisher
      /\ settings.actPublisher = Unset => cmd.client.publisher \in {Unset, ownKey(cmd.client)}
      /\ cmd.receipt.listRef # NoList => cmd.receipt.listRef \in DOMAIN lists'
  BY <1>1 DEF IssueOk, RequestOk, Sealing, Grown, Extends
<1> DEFINE object == Len(sealed')
           history == sealed'[object]
           r == [[cmd.receipt EXCEPT !.history = history] EXCEPT !.swarmRef = object]
<1>3. /\ object \in DOMAIN sealed' /\ history \in DOMAIN lists' /\ lists'[history] = cmd.keys
      /\ sealedBy'[object] = ownKey(cmd.client)
  BY <1>1, TierUploaded DEF Upload
<1>4. object \in Nat /\ history \in Nat
  BY <1>3 DEF Grown, Extends
<1>5. cmd' = [cmd EXCEPT !.phase = "keep", !.receipt.history = history, !.receipt.swarmRef = object]
  BY DEF Upload, Continue, newest
<1>6. sealed'[object] = history
  OBVIOUS
<1> HIDE DEF object, history
<1>7. /\ r \in Receipt /\ r.history = history /\ r.swarmRef = object /\ r.ref = cmd.receipt.ref /\ r.tier = cmd.receipt.tier
      /\ r.publisher = cmd.receipt.publisher /\ r.listRef = cmd.receipt.listRef
  BY <1>2, <1>4 DEF Receipt
<1>8. cmd' = [[cmd EXCEPT !.phase = "keep"] EXCEPT !.receipt = r]
  BY <1>1, <1>5 DEF Issue
<1> HIDE DEF r
<1>9. /\ cmd' \in Issue /\ cmd'.phase = "keep" /\ cmd'.receipt = r /\ cmd'.client = cmd.client
      /\ cmd'.ref = cmd.ref /\ cmd'.keys = cmd.keys /\ cmd'.seal = cmd.seal /\ cmd'.tiers = cmd.tiers
      /\ cmd'.failed = cmd.failed
  BY <1>1, <1>7, <1>8 DEF Issue, Sealing
<1>10. Sound(cmd.receipt)'
  <2>1. cmd'.receipt.ref = commands' /\ commands' \in Nat
    BY <1>1, <1>2, <1>7, <1>9 DEF TypeOK
  <2> QED
    BY <1>2, <1>3, <1>6, <1>7, <1>9, <2>1 DEF Sound
<1>11. RequestOk(cmd)'
  BY <1>2, <1>3, <1>7, <1>9, <1>10 DEF RequestOk, Sealing, ownKey
<1>12. \A t \in Tiers : Past(cmd', t) => Past(cmd, t)
  BY <1>1, <1>7, <1>9 DEF Past, Sealing
<1> QED
  BY <1>1, <1>9, <1>11, <1>12, IssueAdvances

\* On to the next tier, or to the files: what holds of the request then.
LEMMA NextTierOk ==
    ASSUME TypeOK, Grown, cmd \in Issue, IssueOk(cmd), cmd.phase \in Sealing, NEW c \in Issue,
           c.keys = cmd.keys, c.seal = cmd.seal, c.ref = cmd.ref, c.client = cmd.client,
           cmd' = nextTier(c, cmd.receipt.tier)
    PROVE  /\ cmd' \in Issue /\ RequestOk(cmd)'
           /\ cmd'.ref = c.ref /\ cmd'.keys = c.keys /\ cmd'.seal = c.seal /\ cmd'.tiers = c.tiers /\ cmd'.failed = c.failed
           /\ \A t \in Tiers : Past(cmd', t) => Past(cmd, t) \/ t = cmd.receipt.tier
<1>1. /\ cmd.receipt \in Receipt /\ cmd.receipt.ref = cmd.ref /\ cmd.seal /\ cmd.client.kind # "none"
      /\ settings' = settings
  BY DEF IssueOk, RequestOk, Grown
<1>2. cmd.receipt.tier \in Tiers /\ 2 \in Tiers
  BY <1>1, ReceiptFacts DEF Tiers
<1>3. /\ cmd' \in Issue
      /\ cmd'.ref = c.ref /\ cmd'.keys = c.keys /\ cmd'.seal = c.seal /\ cmd'.tiers = c.tiers /\ cmd'.failed = c.failed
      /\ cmd'.client = c.client
      /\ cmd.receipt.tier = 1 => cmd'.phase = firstRequest(c.keys) /\ cmd'.receipt = tier(2)
      /\ cmd.receipt.tier # 1 => cmd'.phase = "write"
  BY <1>2, NextTierFacts
<1>4. tier(2) \in Receipt /\ tier(2).tier = 2 /\ tier(2).ref = cmd.ref /\ tier(2).listRef = NoList
      /\ tier(2).publisher = cmd.client.publisher
  BY <1>2, TierFacts
<1>5. firstRequest(c.keys) = IF c.keys = {} THEN "upload" ELSE "list"
  BY DEF firstRequest
<1>6. settings.actPublisher = Unset => cmd.client.publisher \in {Unset, ownKey(cmd.client)}
  BY DEF IssueOk, RequestOk
<1>7. CASE cmd.receipt.tier = 1
  <2>1. RequestOk(cmd)'
    BY <1>1, <1>3, <1>4, <1>5, <1>6, <1>7 DEF RequestOk, Sealing, ownKey
  <2>2. \A t \in Tiers : Past(cmd', t) => t = cmd.receipt.tier
    BY <1>3, <1>4, <1>5, <1>7 DEF Past, Sealing, Tiers
  <2> QED
    BY <1>3, <2>1, <2>2
<1>8. CASE cmd.receipt.tier # 1
  <2>1. RequestOk(cmd)'
    BY <1>3, <1>8 DEF RequestOk, Sealing
  <2>2. \A t \in Tiers : t < cmd.receipt.tier \/ t = cmd.receipt.tier
    BY <1>2, <1>8 DEF Tiers
  <2>3. \A t \in Tiers : Past(cmd, t) \/ t = cmd.receipt.tier
    BY <2>2 DEF Past
  <2> QED
    BY <1>3, <2>1, <2>3
<1> QED
  BY <1>7, <1>8

LEMMA KeepOk ==
    ASSUME TypeOK, KeptInv, CommandInv, Grown, Keep
    PROVE  cmd' \in Issue /\ IssueOk(cmd)'
<1>1. cmd \in Issue /\ IssueOk(cmd) /\ cmd.phase = "keep" /\ commands' = commands
  BY IssueFacts DEF Keep, Continue, Sealing
<1> DEFINE r == cmd.receipt
           c == [cmd EXCEPT !.tiers = @ \cup {x \in {cmd.receipt} : isReadable(x)}]
<1>2. r \in Receipt /\ r.ref = cmd.ref /\ Sound(r) /\ lists[r.history] = cmd.keys
  BY <1>1 DEF IssueOk, RequestOk, Sealing
<1>3. /\ c \in Issue /\ c.receipt = r /\ \A x \in c.tiers : x \in cmd.tiers \/ (x = r /\ isReadable(x))
      /\ c.keys = cmd.keys /\ c.seal = cmd.seal /\ c.ref = cmd.ref /\ c.client = cmd.client /\ c.failed = cmd.failed
  <2>1. {x \in {cmd.receipt} : isReadable(x)} \subseteq {r}
    OBVIOUS
  <2> QED
    BY <1>1, <1>2, <2>1 DEF Issue
<1>4. cmd' = nextTier(c, r.tier)
  BY <1>3 DEF Keep, Continue, tierSealed
<1> HIDE DEF c
<1>5. /\ cmd' \in Issue /\ RequestOk(cmd)'
      /\ cmd'.ref = c.ref /\ cmd'.keys = c.keys /\ cmd'.seal = c.seal /\ cmd'.tiers = c.tiers /\ cmd'.failed = c.failed
      /\ \A t \in Tiers : Past(cmd', t) => Past(cmd, t) \/ t = r.tier
  BY <1>1, <1>3, <1>4, NextTierOk DEF Sealing
<1>6. kept' = Append(kept, r) /\ kept \in Seq(Receipt) /\ Len(kept) + 1 \in DOMAIN kept' /\ kept'[Len(kept) + 1] = r
  <2>1. kept' = Append(kept, r) /\ kept \in Seq(Receipt)
    BY NodeTypes DEF Keep, keep
  <2> QED
    BY <2>1
<1>7. lists' = lists
  BY DEF Keep, node
<1> HIDE DEF r
<1>8. \E i \in DOMAIN kept' : kept'[i] = r /\ kept'[i].ref = cmd.ref /\ lists'[kept'[i].history] = cmd.keys
  BY <1>2, <1>6, <1>7 DEF r
<1>9. ASSUME NEW x \in cmd'.tiers PROVE OnLog(x)' /\ isReadable(x) /\ lists'[x.history] = cmd.keys
  <2>1. CASE x = r /\ isReadable(x)
    BY <1>2, <1>7, <1>8, <2>1 DEF r, OnLog
  <2>2. CASE x \in cmd.tiers
    <3>1. OnLog(x) /\ isReadable(x) /\ lists[x.history] = cmd.keys
      BY <1>1, <2>2 DEF IssueOk, TiersOk
    <3>2. OnLog(x)'
      BY <3>1, OnLogStays
    <3> QED
      BY <1>7, <3>1, <3>2
  <2> QED
    BY <1>3, <1>5, <2>1, <2>2
<1>10. ASSUME cmd'.seal, ~cmd'.failed, NEW t \in Tiers, Past(cmd', t) PROVE HasTier(cmd.ref, t, cmd.keys)'
  <2>1. cmd'.ref = cmd.ref /\ cmd'.keys = cmd.keys
    BY <1>3, <1>5
  <2>2. CASE t = r.tier
    BY <1>8, <2>1, <2>2 DEF HasTier
  <2>3. CASE Past(cmd, t)
    <3>1. HasTier(cmd.ref, t, cmd.keys)
      BY <1>1, <1>3, <1>5, <1>10, <2>3 DEF IssueOk, TiersOk
    <3> QED
      BY <2>1, <3>1, HasTierStays
  <2> QED
    BY <1>5, <1>10, <2>2, <2>3
<1>11. TiersOk(cmd)'
  BY <1>3, <1>5, <1>9, <1>10 DEF TiersOk, isReadable
<1> QED
  BY <1>1, <1>3, <1>5, <1>11 DEF IssueOk

LEMMA TierFailedOk ==
    ASSUME TypeOK, KeptInv, CommandInv, Grown, TierFails \/ AnswerLost
    PROVE  cmd' \in Issue /\ IssueOk(cmd)'
<1>1. cmd \in Issue /\ IssueOk(cmd) /\ cmd.phase \in Sealing /\ commands' = commands /\ cmd' = tierFailed(cmd)
  BY IssueFacts DEF TierFails, AnswerLost, Continue, Sealing
<1> DEFINE c == [cmd EXCEPT !.failed = TRUE]
<1>2. /\ c \in Issue /\ c.failed /\ c.tiers = cmd.tiers /\ c.keys = cmd.keys /\ c.seal = cmd.seal /\ c.ref = cmd.ref
      /\ c.client = cmd.client
  BY <1>1 DEF Issue
<1>3. cmd' = nextTier(c, cmd.receipt.tier)
  BY <1>1 DEF tierFailed
<1> HIDE DEF c
<1>4. /\ cmd' \in Issue /\ RequestOk(cmd)'
      /\ cmd'.ref = c.ref /\ cmd'.keys = c.keys /\ cmd'.seal = c.seal /\ cmd'.tiers = c.tiers /\ cmd'.failed = c.failed
  BY <1>1, <1>2, <1>3, NextTierOk
<1> QED
  BY <1>1, <1>2, <1>4, IssueAdvances

LEMMA Largest ==
    ASSUME NEW n \in Nat, NEW S, S \subseteq 1..n, S # {}
    PROVE  \E x \in S : \A y \in S : y =< x
<1> DEFINE T == {n - y : y \in S}
<1>1. T \subseteq Nat /\ T # {}
  <2>1. \A y \in S : n - y \in Nat
    OBVIOUS
  <2>2. PICK y \in S : TRUE
    OBVIOUS
  <2>3. n - y \in T
    BY <2>2
  <2> QED
    BY <2>1, <2>3
<1>2. PICK least \in T : \A m \in T : <<m, least>> \notin OpToRel(<, Nat)
  BY <1>1, WFMin, NatLessThanWellFounded, Zenon
<1>3. \A m \in T : ~(m < least)
  BY <1>1, <1>2 DEF OpToRel
<1>4. PICK x \in S : least = n - x
  OBVIOUS
<1>5. ASSUME NEW y \in S PROVE y =< x
  <2>1. n - y \in T
    OBVIOUS
  <2> HIDE DEF T
  <2> QED
    BY <1>3, <1>4, <2>1
<1> QED
  BY <1>5

\* The receipt that grant and revoke take up: on the log, of that tier, and no
\* older than any other of it.
LEMMA Picked ==
    ASSUME TypeOK, KeptInv, ReliedInv, NEW t \in Tiers, candidates(t) # {}
    PROVE  pick(t) \in Receipt /\ Sound(pick(t)) /\ pick(t).tier = t /\ pick(t).ref >= relied
<1> DEFINE i == CHOOSE x \in candidates(t) : \A y \in candidates(t) : y =< x
<1>1. candidates(t) \subseteq 1..Len(kept) /\ Len(kept) \in Nat
  BY SequenceFacts DEF candidates
<1>2. i \in candidates(t) /\ \A y \in candidates(t) : y =< i
  BY <1>1, Largest
<1>3. pick(t) = kept[i]
  BY DEF pick
<1> HIDE DEF i
<1>4. i \in DOMAIN kept /\ kept[i] \in Receipt /\ Sound(kept[i]) /\ kept[i].tier = t
  BY <1>2, SequenceFacts DEF candidates, KeptInv
<1>5. kept[i].ref >= relied
  <2>1. kept[i].ref \in Nat
    BY <1>4, ReceiptFacts
  <2>2. CASE relied = 0
    BY <2>1, <2>2
  <2>3. CASE relied # 0
    <3>1. PICK j \in DOMAIN kept : kept[j].ref = relied /\ kept[j].tier = t
      BY <2>3 DEF ReliedInv
    <3>2. j =< i
      BY <1>2, <3>1 DEF candidates
    <3>3. kept[j].ref =< kept[i].ref
      BY <1>4, <3>2 DEF KeptInv
    <3>4. relied \in Nat
      BY DEF TypeOK
    <3> QED
      BY <2>1, <3>1, <3>3, <3>4
  <2> QED
    BY <2>2, <2>3
<1> QED
  BY <1>3, <1>4, <1>5

LEMMA GranteeBeginsOk ==
    ASSUME GranteeBegins
    PROVE  cmd' \in GranteeCommand /\ GranteeOk(cmd)'
<1>1. PICK action \in {"grant", "revoke"}, key \in Keys, t \in Tiers : grantee(action, key, t)
  BY DEF GranteeBegins
<1>2. cmd' = [name |-> action, phase |-> "reach", keys |-> {key}, tier |-> t, receipt |-> NoReceipt]
  BY <1>1 DEF grantee
<1>3. cmd' \in GranteeCommand /\ cmd'.phase = "reach"
  BY <1>2 DEF GranteeCommand
<1> QED
  BY <1>3 DEF GranteeOk

LEMMA ReachOk ==
    ASSUME TypeOK, KeptInv, CommandInv, ReliedInv, Grown, Reach
    PROVE  cmd' = NoCommand \/ (cmd' \in GranteeCommand /\ GranteeOk(cmd)')
<1>1. cmd \in GranteeCommand /\ cmd # NoCommand /\ relied' = relied
  BY GranteeFacts DEF Reach, files
<1>2. CASE cmd' # NoCommand
  <2>1. candidates(cmd.tier) # {} /\ cmd' = [cmd EXCEPT !.phase = "connect", !.receipt = pick(cmd.tier)]
    BY <1>2 DEF Reach, refuse, Exit, Continue
  <2>2. cmd.tier \in Tiers
    BY <1>1 DEF GranteeCommand
  <2>3. pick(cmd.tier) \in Receipt /\ Sound(pick(cmd.tier)) /\ pick(cmd.tier).ref >= relied
    BY <2>1, <2>2, Picked
  <2>4. cmd' \in GranteeCommand /\ cmd'.receipt = pick(cmd.tier)
    BY <1>1, <2>1, <2>3 DEF GranteeCommand
  <2>5. Sound(cmd.receipt)'
    BY <2>3, <2>4, SoundStays
  <2> QED
    BY <1>1, <2>3, <2>4, <2>5 DEF GranteeOk
<1> QED
  BY <1>2

LEMMA ConnectNodeOk ==
    ASSUME TypeOK, CommandInv, Grown, ConnectNode
    PROVE  cmd' = NoCommand \/ (cmd' \in GranteeCommand /\ GranteeOk(cmd)')
<1>1. cmd \in GranteeCommand /\ GranteeOk(cmd) /\ cmd.phase = "connect" /\ relied' = relied
  BY GranteeFacts DEF ConnectNode, files
<1>2. CASE cmd' # NoCommand
  <2>1. cmd' = [cmd EXCEPT !.phase = "patch"]
    BY <1>2 DEF ConnectNode, refuse, Exit, Continue
  <2>2. cmd' \in GranteeCommand /\ cmd'.receipt = cmd.receipt
    BY <1>1, <2>1 DEF GranteeCommand
  <2>3. cmd.receipt \in Receipt /\ Sound(cmd.receipt) /\ cmd.receipt.ref >= relied
    BY <1>1 DEF GranteeOk
  <2>4. Sound(cmd.receipt)'
    BY <2>2, <2>3, SoundStays
  <2> QED
    BY <1>1, <2>2, <2>3, <2>4 DEF GranteeOk
<1> QED
  BY <1>2

\* A command that the services leave alone.
LEMMA CommandStays ==
    ASSUME TypeOK, KeptInv, CommandInv, Grown, UNCHANGED <<cmd, commands, relied>>
    PROVE  CommandInv'
<1>1. CASE cmd # NoCommand /\ cmd.name = "issue"
  <2>1. cmd \in Issue /\ IssueOk(cmd)
    BY <1>1, IssueFacts
  <2>2. cmd' \in Issue /\ RequestOk(cmd)'
    BY <2>1, RequestStays DEF IssueOk
  <2>3. IssueOk(cmd)'
    BY <2>1, <2>2, IssueAdvances
  <2> QED
    BY <1>1, <2>3 DEF CommandInv
<1>2. CASE cmd # NoCommand /\ cmd.name # "issue"
  <2>1. cmd \in GranteeCommand /\ GranteeOk(cmd)
    BY <1>2, GranteeFacts DEF TypeOK, Issue, GranteeCommand
  <2>2. cmd.phase # "reach" => Sound(cmd.receipt)'
    BY <2>1, SoundStays DEF GranteeOk
  <2>3. GranteeOk(cmd)'
    BY <2>1, <2>2 DEF GranteeOk
  <2> QED
    BY <1>2, <2>3 DEF CommandInv
<1>3. CASE cmd = NoCommand
  BY <1>3 DEF CommandInv
<1> QED
  BY <1>1, <1>2, <1>3

LEMMA CommandStepped ==
    ASSUME TypeOK, KeptInv, CommandInv, ReliedInv, Next
    PROVE  cmd' \in Issue \cup GranteeCommand \cup {NoCommand} /\ CommandInv'
<1>1. Grown
  BY StepGrows
<1>2. ASSUME cmd' \in Issue, IssueOk(cmd)' PROVE cmd' \in Issue \cup GranteeCommand \cup {NoCommand} /\ CommandInv'
  <2>1. cmd'.name = "issue"
    BY <1>2 DEF Issue
  <2> QED
    BY <1>2, <2>1 DEF CommandInv
<1>3. ASSUME cmd' \in GranteeCommand, GranteeOk(cmd)'
      PROVE  cmd' \in Issue \cup GranteeCommand \cup {NoCommand} /\ CommandInv'
  <2>1. cmd'.name # "issue"
    BY <1>3 DEF GranteeCommand
  <2> QED
    BY <1>3, <2>1 DEF CommandInv
<1>4. ASSUME cmd' = NoCommand PROVE cmd' \in Issue \cup GranteeCommand \cup {NoCommand} /\ CommandInv'
  BY <1>4 DEF CommandInv
<1>5. CASE ServiceChanges
  <2>1. UNCHANGED <<cmd, commands, relied>>
    BY <1>5 DEF ServiceChanges, files
  <2> QED
    BY <1>1, <2>1, CommandStays DEF TypeOK
<1>6. CASE Doctor \/ Scan
  <2>1. cmd' = NoCommand
    BY <1>6 DEF Doctor, Scan, scan, Begin
  <2> QED
    BY <1>4, <2>1
<1>7. CASE IssueBegins
  BY <1>2, <1>7, IssueBeginsOk
<1>8. CASE GranteeBegins
  BY <1>3, <1>8, GranteeBeginsOk
<1>9. CASE Kill \/ Write \/ Patch \/ PatchFails \/ PatchUnheard
  <2>1. cmd' = NoCommand
    BY <1>9 DEF Kill, Write, Patch, PatchFails, PatchUnheard, Exit
  <2> QED
    BY <1>4, <2>1
<1>10. CASE Collect
  BY <1>1, <1>2, <1>4, <1>10, CollectOk
<1>11. CASE Connect \/ Fallback
  BY <1>1, <1>2, <1>11, ConnectOk
<1>12. CASE CreateList
  BY <1>1, <1>2, <1>12, CreateListOk
<1>13. CASE Upload
  BY <1>1, <1>2, <1>13, UploadOk
<1>14. CASE Keep
  BY <1>1, <1>2, <1>14, KeepOk
<1>15. CASE TierFails \/ AnswerLost
  BY <1>1, <1>2, <1>15, TierFailedOk
<1>16. CASE Reach
  BY <1>1, <1>3, <1>4, <1>16, ReachOk
<1>17. CASE ConnectNode
  BY <1>1, <1>3, <1>4, <1>17, ConnectNodeOk
<1> QED
  BY <1>5, <1>6, <1>7, <1>8, <1>9, <1>10, <1>11, <1>12, <1>13, <1>14, <1>15, <1>16, <1>17, NextCases DEF Thinks
----------------------------------------------------------------------------
(* The log, and what an issue leaves behind. *)

LEMMA KeptInvStepped ==
    ASSUME TypeOK, KeptInv, CommandInv, Next
    PROVE  KeptInv'
<1>1. Grown
  BY StepGrows
<1>2. CASE ~Keep
  BY <1>1, <1>2, KeptStepped, KeptStays
<1>3. CASE Keep
  <2>1. cmd \in Issue /\ IssueOk(cmd) /\ cmd.phase = "keep"
    BY <1>3, IssueFacts DEF Keep, Sealing
  <2>2. cmd.receipt \in Receipt /\ Sound(cmd.receipt) /\ cmd.receipt.ref = commands
    BY <2>1 DEF IssueOk, RequestOk, Sealing
  <2>3. kept' = Append(kept, cmd.receipt) /\ kept \in Seq(Receipt)
    BY <1>3, NodeTypes DEF Keep, keep
  <2> DEFINE n == Len(kept)
  <2>4. /\ n \in Nat /\ DOMAIN kept = 1..n /\ DOMAIN kept' = 1..(n + 1)
        /\ \A i \in 1..n : kept'[i] = kept[i]
        /\ kept'[n + 1] = cmd.receipt
    BY <2>3
  <2> HIDE DEF n
  <2>5. ASSUME NEW r \in Receipt, Sound(r) PROVE Sound(r)'
    BY <1>1, <2>5, SoundStays
  <2>6. ASSUME NEW i \in DOMAIN kept' PROVE Sound(kept[i])'
    <3>1. PICK r \in Receipt : r = kept'[i] /\ Sound(r)
      BY <2>2, <2>4, SequenceFacts DEF KeptInv
    <3>2. Sound(r)'
      BY <2>5, <3>1
    <3> QED
      BY <3>1, <3>2
  <2>7. ASSUME NEW i \in DOMAIN kept', NEW j \in DOMAIN kept', i =< j PROVE kept'[i].ref =< kept'[j].ref
    <3>1. CASE j \in 1..n
      BY <2>4, <2>7, <3>1 DEF KeptInv
    <3>2. CASE j = n + 1 /\ i \in 1..n
      <4>1. kept[i].ref =< commands
        BY <2>4, <3>2 DEF KeptInv, Sound
      <4> QED
        BY <2>2, <2>4, <3>2, <4>1
    <3>3. CASE j = n + 1 /\ i = n + 1
      <4>1. cmd.receipt.ref \in Nat
        BY <2>2, ReceiptFacts
      <4> QED
        BY <2>4, <3>3, <4>1
    <3> QED
      BY <2>4, <2>7, <3>1, <3>2, <3>3
  <2> QED
    BY <2>6, <2>7 DEF KeptInv
<1> QED
  BY <1>2, <1>3

\* The envelope and what is relied on change when the files are written.
LEMMA EnvelopeStepped ==
    ASSUME TypeOK, CommandInv, Next
    PROVE  ~Write => envelope' = envelope /\ relied' = relied
<1>1. CASE ServiceChanges \/ Kill \/ Doctor \/ Scan \/ IssueBegins \/ GranteeBegins \/ Thinks
  BY <1>1, QuietSteps DEF FilesQuiet
<1>2. CASE CreateList \/ Upload \/ Keep \/ AnswerLost \/ Patch \/ PatchUnheard
  BY <1>2 DEF CreateList, Upload, Keep, AnswerLost, Patch, PatchUnheard, files
<1> QED
  BY <1>1, <1>2, NextCases

\* An issue that comes to its end.
LEMMA WriteFacts ==
    ASSUME TypeOK, CommandInv, Write
    PROVE  /\ cmd \in Issue /\ IssueOk(cmd) /\ cmd.phase = "write" /\ cmd # NoCommand
           /\ envelope' = cmd.tiers
           /\ relied' = IF cmd.seal /\ ~cmd.failed THEN cmd.ref ELSE relied
           /\ last' = [name |-> "issue", code |-> IF cmd.failed THEN 1 ELSE 0, ref |-> cmd.ref, subject |-> cmd.subject,
                       keys |-> cmd.keys, seal |-> cmd.seal, claims |-> cmd.claims]
<1>1. cmd \in Issue /\ IssueOk(cmd) /\ cmd.phase = "write" /\ cmd # NoCommand /\ cmd.name = "issue"
  BY IssueFacts DEF Write
<1> QED
  BY <1>1 DEF Write, Exit

LEMMA ReliedStepped ==
    ASSUME TypeOK, KeptInv, CommandInv, ReliedInv, Next
    PROVE  relied' \in Nat /\ ReliedInv'
<1>1. Grown
  BY StepGrows
<1>2. commands \in Nat /\ commands' \in Nat /\ commands =< commands' /\ relied \in Nat
  BY <1>1 DEF TypeOK, Grown
<1>3. CASE relied' = relied
  <2>1. ASSUME relied # 0, NEW t \in Tiers
        PROVE  \E i \in DOMAIN kept' : kept'[i].ref = relied /\ kept'[i].tier = t
    BY <1>1, <2>1 DEF ReliedInv, Grown, Extends
  <2>2. relied =< commands'
    BY <1>2 DEF ReliedInv
  <2> QED
    BY <1>2, <1>3, <2>1, <2>2 DEF ReliedInv
<1>4. CASE Write /\ cmd.seal /\ ~cmd.failed
  <2>1. relied' = cmd.ref /\ cmd.ref = commands /\ TiersOk(cmd) /\ cmd.phase = "write"
    BY <1>4, WriteFacts DEF IssueOk
  <2>2. \A t \in Tiers : HasTier(cmd.ref, t, cmd.keys)
    BY <1>4, <2>1 DEF TiersOk, Past
  <2>3. ASSUME NEW t \in Tiers PROVE \E i \in DOMAIN kept' : kept'[i].ref = cmd.ref /\ kept'[i].tier = t
    BY <1>1, <2>2 DEF HasTier, Grown, Extends
  <2> QED
    BY <1>2, <2>1, <2>3 DEF ReliedInv
<1> QED
  BY <1>3, <1>4, EnvelopeStepped, WriteFacts

\* What finished, by the command that did.
LEMMA LastStepped ==
    ASSUME TypeOK, CommandInv, Next
    PROVE  /\ last' \in Result \cup {NoCommand}
           /\ \/ last' = last
              \/ last' = NoCommand
              \/ last'.name # "issue"
              \/ last'.code \in {1, Killed} /\ (cmd # NoCommand /\ cmd.name = "issue")
              \/ Write
<1>0. last \in Result \cup {NoCommand}
  BY DEF TypeOK
<1>1. ASSUME NEW code \in Codes, cmd # NoCommand, Exit(code)
      PROVE  /\ last' \in Result
             /\ last'.code = code
             /\ last'.name # "issue" \/ cmd.name = "issue"
  <2>1. CASE cmd.name = "issue"
    <3>1. cmd \in Issue
      BY <1>1, <2>1, IssueFacts
    <3>2. last' = [name |-> "issue", code |-> code, ref |-> cmd.ref, subject |-> cmd.subject, keys |-> cmd.keys,
                   seal |-> cmd.seal, claims |-> cmd.claims]
      BY <1>1, <2>1 DEF Exit
    <3> QED
      BY <2>1, <3>1, <3>2 DEF Issue, Result
  <2>2. CASE cmd.name # "issue"
    <3>1. cmd.name \in {"grant", "revoke"}
      BY <1>1, <2>2 DEF TypeOK, Issue, GranteeCommand
    <3>2. last' = [name |-> cmd.name, code |-> code]
      BY <1>1, <2>2 DEF Exit
    <3> QED
      BY <2>2, <3>1, <3>2 DEF Result
  <2> QED
    BY <2>1, <2>2
<1>2. CASE last' = last \/ last' = NoCommand
  BY <1>0, <1>2
<1>3. CASE Doctor
  <2>1. PICK report \in doctor : last' = [name |-> "doctor", code |-> report.code]
    BY <1>3 DEF Doctor
  <2> QED
    BY <2>1, DoctorLooks DEF Result, Codes
<1>4. CASE Scan
  <2>1. PICK subject \in Subjects, known \in BOOLEAN :
          last' = [name |-> "scan", code |-> IF known /\ ~collectionThrows(subject) THEN 0 ELSE 1, subject |-> subject,
                   claims |-> collected]
    BY <1>4 DEF Scan, scan, resolveSubject, up, Subjects
  <2>2. collected \in BOOLEAN
    <3>1. up("demo") \in BOOLEAN
      BY DEF up
    <3> QED
      BY <3>1 DEF collected
  <2> QED
    BY <2>1, <2>2 DEF Result, Codes
<1>5. CASE Kill
  BY <1>1, <1>5 DEF Kill, Codes
<1>6. CASE Write
  BY <1>1, <1>6 DEF Write, Codes
<1>7. CASE Patch
  <2>1. cmd # NoCommand /\ cmd.name # "issue" /\ Exit(0)
    BY <1>7, GranteeFacts DEF Patch
  <2> QED
    BY <1>1, <2>1 DEF Codes
<1>8. CASE PatchFails \/ PatchUnheard
  BY <1>1, <1>8 DEF PatchFails, PatchUnheard, Codes
<1>9. CASE Collect \/ Reach \/ ConnectNode
  <2>1. cmd # NoCommand /\ (Exit(1) \/ last' = last)
    BY <1>9 DEF Collect, Reach, ConnectNode, refuse, Continue
  <2> QED
    BY <1>0, <1>1, <2>1 DEF Codes
<1>10. CASE ServiceChanges \/ IssueBegins \/ GranteeBegins
  <2>1. last' = last \/ last' = NoCommand
    BY <1>10 DEF ServiceChanges, IssueBegins, issue, GranteeBegins, grantee
  <2> QED
    BY <1>2, <2>1
<1>11. CASE Connect \/ Fallback \/ TierFails \/ CreateList \/ Upload \/ Keep \/ AnswerLost
  <2>1. last' = last
    BY <1>11 DEF Connect, Fallback, TierFails, CreateList, Upload, Keep, AnswerLost, Continue
  <2> QED
    BY <1>2, <2>1
<1> QED
  BY <1>3, <1>4, <1>5, <1>6, <1>7, <1>8, <1>9, <1>10, <1>11, NextCases DEF Thinks

LEMMA LeftStepped ==
    ASSUME TypeOK, KeptInv, CommandInv, LeftInv, Next
    PROVE  envelope' \subseteq Receipt /\ LeftInv'
<1>1. Grown
  BY StepGrows
<1>2. CASE ~Write
  <2>1. envelope' = envelope /\ envelope \subseteq Receipt
    BY <1>2, EnvelopeStepped DEF TypeOK
  <2>2. \A r \in envelope : OnLog(r)' /\ isReadable(r)
    BY <1>1, OnLogStays DEF LeftInv
  <2>3. ASSUME finished({"issue"})', last'.code = 0
        PROVE  /\ last'.seal => \A t \in Tiers : HasTier(last.ref, t, last.keys)'
               /\ \A r \in envelope : lists'[r.history] = last'.keys
    <3>1. last' = last /\ finished({"issue"}) /\ last.code = 0
      BY <1>2, <2>3, LastStepped DEF finished
    <3>2. last.seal => \A t \in Tiers : HasTier(last.ref, t, last.keys)
      BY <3>1 DEF LeftInv
    <3>3. ASSUME NEW ref, NEW t, NEW keys, HasTier(ref, t, keys) PROVE HasTier(ref, t, keys)'
      BY <1>1, <3>3, HasTierStays
    <3>4. ASSUME NEW r \in envelope PROVE lists'[r.history] = last.keys
      <4>1. OnLog(r) /\ lists[r.history] = last.keys
        BY <3>1 DEF LeftInv
      <4>2. r.history \in DOMAIN lists
        BY <4>1 DEF OnLog, KeptInv, Sound
      <4> QED
        BY <1>1, <4>1, <4>2 DEF Grown, Extends
    <3> QED
      BY <3>1, <3>2, <3>3, <3>4
  <2> QED
    BY <2>1, <2>2, <2>3 DEF LeftInv, isReadable
<1>3. CASE Write
  <2>1. /\ cmd \in Issue /\ TiersOk(cmd) /\ cmd.phase = "write" /\ envelope' = cmd.tiers
        /\ last'.code = (IF cmd.failed THEN 1 ELSE 0) /\ last'.ref = cmd.ref /\ last'.keys = cmd.keys
        /\ last'.seal = cmd.seal
    BY <1>3, WriteFacts DEF IssueOk
  <2>2. UNCHANGED <<lists, kept>>
    BY <1>3 DEF Write, node
  <2>3. \A r \in cmd.tiers : OnLog(r)' /\ isReadable(r) /\ lists'[r.history] = cmd.keys
    BY <2>1, <2>2 DEF TiersOk, OnLog
  <2>4. cmd.seal /\ ~cmd.failed => \A t \in Tiers : HasTier(cmd.ref, t, cmd.keys)
    BY <2>1 DEF TiersOk, Past
  <2>5. cmd.tiers \subseteq Receipt
    BY <2>1 DEF Issue
  <2>6. ASSUME last'.code = 0, last'.seal, NEW t \in Tiers PROVE HasTier(last.ref, t, last.keys)'
    BY <2>1, <2>2, <2>4, <2>6 DEF HasTier
  <2> QED
    BY <2>1, <2>3, <2>5, <2>6 DEF LeftInv, isReadable
<1> QED
  BY <1>2, <1>3
----------------------------------------------------------------------------
(* What was told of runs and of readers, while the services stay. *)

LEMMA NothingTold ==
    ASSUME promised' = {}
    PROVE  ForetoldInv'
<1>1. "run" \notin promised' /\ "grant" \notin promised'
  OBVIOUS
<1> QED
  BY <1>1 DEF ForetoldInv, UnderWayInv, DoneInv, IssueForetold, EndForetold, RunTold, GrantTold

\* An issue that goes on while nothing changes.
LEMMA GoesOn ==
    ASSUME Steady, NEW c, NEW d, d.name = c.name, d.subject = c.subject, d.keys = c.keys,
           RunTold(c) => /\ ~d.failed
                         /\ d.phase # "evidence" => d.claims
                         /\ d.phase \in Sealing => accepts(d.client),
           GrantTold(c) => /\ ~d.failed /\ d.phase # "fallback"
                           /\ d.phase \in Sealing => d.client.kind = "node"
    PROVE  IssueForetold(d)'
<1>1. RunTold(d)' => RunTold(c)
  BY DEF RunTold, Steady, publisherThrows
<1>2. GrantTold(d)' => GrantTold(c)
  BY DEF GrantTold, Steady, publisherThrows
<1>3. accepts(d.client)' <=> accepts(d.client)
  BY DEF accepts, up, isNode, Steady
<1> QED
  BY <1>1, <1>2, <1>3 DEF IssueForetold

LEMMA DoneStays ==
    ASSUME Steady, DoneInv, last' = last \/ last' = NoCommand \/ last'.name \notin {"scan", "issue"}
    PROVE  DoneInv'
<1>1. CASE last' = last
  <2>1. RunTold(last)' => RunTold(last)
    BY <1>1 DEF RunTold, Steady, publisherThrows
  <2>2. GrantTold(last)' => GrantTold(last)
    BY <1>1 DEF GrantTold, Steady, publisherThrows
  <2> QED
    BY <1>1, <2>1, <2>2 DEF DoneInv, EndForetold, finished
<1>2. CASE last' = NoCommand \/ last'.name \notin {"scan", "issue"}
  BY <1>2 DEF DoneInv, finished
<1> QED
  BY <1>1, <1>2

\* With that word the evidence comes in, and with claims.
LEMMA CollectForetold ==
    ASSUME TypeOK, ToldInv, NEW c, RunTold(c) \/ GrantTold(c), NEW known \in resolveSubject(c.subject)
    PROVE  known /\ ~collectionThrows(c.subject) /\ (RunTold(c) => collected)
<1>1. CASE RunTold(c)
  <2>1. c.subject # "bundle" /\ (c.subject = "name" => up("eth"))
    BY <1>1 DEF RunTold, ToldInv
  <2>2. known
    BY <2>1 DEF resolveSubject
  <2>3. collected
    BY <1>1 DEF RunTold, ToldInv, collected, TypeOK, AllSettings
  <2> QED
    BY <1>1, <2>2, <2>3 DEF RunTold, collectionThrows
<1>2. CASE ~RunTold(c) /\ GrantTold(c)
  BY <1>2 DEF GrantTold, resolveSubject, collectionThrows
<1> QED
  BY <1>1, <1>2

\* ... and the connection leads to a backend that takes the writes.
LEMMA ConnectForetold ==
    ASSUME TypeOK, ToldInv, NEW c
    PROVE  /\ RunTold(c) /\ c.name = "issue" =>
                 /\ connectBackend("auto") # NoClient => accepts(connectBackend("auto"))
                 /\ connectGateway # NoClient /\ accepts(connectGateway)
           /\ GrantTold(c) => connectBackend("auto") # NoClient /\ connectBackend("auto").kind = "node"
<1>1. ASSUME RunTold(c), c.name = "issue"
      PROVE  /\ connectGateway # NoClient /\ accepts(connectGateway)
             /\ connectNode # NoClient => accepts(connectNode)
  <2>1. up("gateway") /\ ~publisherThrows /\ ~(settings.batchId = "own" /\ world.bee.batch = "full")
    BY <1>1 DEF RunTold, ToldInv
  <2>2. connectGateway # NoClient /\ accepts(connectGateway)
    BY <2>1 DEF connectGateway, NoClient, accepts
  <2>3. connectNode # NoClient => accepts(connectNode)
    BY <2>1 DEF connectNode, NoClient, accepts, ensureUsableBatch, reusable
  <2> QED
    BY <2>2, <2>3
<1>2. ASSUME GrantTold(c) PROVE connectBackend("auto") # NoClient /\ connectBackend("auto").kind = "node"
  <2>1. /\ isNode /\ ~world.bee.slow /\ ~publisherThrows /\ settings.batchId \in {"unset", "own"}
        /\ world.bee.batch = "good" \/ (world.bee.batch = "shallow" /\ settings.batchId = "own")
    BY <1>2 DEF GrantTold, ToldInv, isNode, TypeOK, AllSettings
  <2>2. ensureUsableBatch /\ connectBackend("auto") = connectNode
    BY <2>1 DEF ensureUsableBatch, reusable, connectBackend, resolveKind, probeNode
  <2> QED
    BY <2>1, <2>2 DEF connectNode, NoClient
<1>3. connectBackend("auto") \in {connectNode, connectGateway}
  BY DEF connectBackend
<1> QED
  BY <1>1, <1>2, <1>3

LEMMA AcceptsForetold ==
    ASSUME ToldInv, NEW c, IssueForetold(c), c.phase \in Sealing, RunTold(c) \/ GrantTold(c)
    PROVE  accepts(c.client)
BY DEF ToldInv, IssueForetold, GrantTold, accepts, isNode

\* An issue with a client for what it was told about.
LEMMA WithClientForetold ==
    ASSUME Steady, cmd \in Issue, IssueForetold(cmd), cmd.phase \in {"connect", "fallback"}, NEW client,
           RunTold(cmd) => accepts(client), GrantTold(cmd) => client.kind = "node",
           cmd' = withClient(client)
    PROVE  IssueForetold(cmd)'
<1>1. cmd.name = "issue" /\ (RunTold(cmd) => cmd.keys = {})
  BY DEF Issue, RunTold
<1>2. CASE cmd' = nothingSealed(cmd) /\ cmd.keys # {} /\ ~canManageGrantees(client)
  <2>1. ~RunTold(cmd) /\ ~GrantTold(cmd)
    BY <1>1, <1>2 DEF canManageGrantees
  <2>2. cmd'.name = cmd.name /\ cmd'.subject = cmd.subject /\ cmd'.keys = cmd.keys
    BY <1>2 DEF nothingSealed, Issue
  <2> QED
    BY <2>1, <2>2, GoesOn
<1>3. CASE ~(cmd.keys # {} /\ ~canManageGrantees(client))
  <2>1. cmd' = [cmd EXCEPT !.client = client, !.phase = firstRequest(cmd.keys),
                           !.receipt = [tier(1) EXCEPT !.publisher = client.publisher]]
    BY <1>3 DEF withClient
  <2>2. /\ cmd'.name = cmd.name /\ cmd'.subject = cmd.subject /\ cmd'.keys = cmd.keys
        /\ cmd'.failed = cmd.failed /\ cmd'.claims = cmd.claims /\ cmd'.client = client
        /\ cmd'.phase = firstRequest(cmd.keys)
    BY <2>1 DEF Issue
  <2>3. firstRequest(cmd.keys) # "fallback"
    BY DEF firstRequest
  <2>4. RunTold(cmd) => ~cmd.failed /\ cmd.claims
    BY DEF IssueForetold
  <2>5. GrantTold(cmd) => ~cmd.failed
    BY DEF IssueForetold
  <2> QED
    BY <2>2, <2>3, <2>4, <2>5, GoesOn
<1> QED
  BY <1>2, <1>3 DEF withClient

LEMMA CollectGoesOn ==
    ASSUME TypeOK, CommandInv, ToldInv, ForetoldInv, Steady, Collect
    PROVE  ForetoldInv'
<1>1. cmd \in Issue /\ cmd # NoCommand /\ cmd.name = "issue" /\ IssueForetold(cmd) /\ cmd.phase = "evidence"
  BY IssueFacts DEF Collect, ForetoldInv, UnderWayInv
<1>2. PICK known \in resolveSubject(cmd.subject) :
        IF ~known \/ collectionThrows(cmd.subject) THEN Exit(1)
        ELSE Continue([cmd EXCEPT !.claims = buildEvidence(cmd.subject),
                                  !.phase = IF cmd.seal THEN "connect" ELSE "write"])
  BY DEF Collect
<1>3. /\ RunTold(cmd) \/ GrantTold(cmd) => known /\ ~collectionThrows(cmd.subject)
      /\ RunTold(cmd) => collected
  BY CollectForetold
<1>4. CASE known /\ ~collectionThrows(cmd.subject)
  <2>1. /\ cmd' = [cmd EXCEPT !.claims = buildEvidence(cmd.subject), !.phase = IF cmd.seal THEN "connect" ELSE "write"]
        /\ last' = last
    BY <1>2, <1>4 DEF Continue
  <2>2. /\ cmd'.name = cmd.name /\ cmd'.subject = cmd.subject /\ cmd'.keys = cmd.keys
        /\ cmd'.failed = cmd.failed /\ cmd'.claims = buildEvidence(cmd.subject) /\ cmd'.phase \in {"connect", "write"}
    BY <1>1, <2>1 DEF Issue
  <2>3. RunTold(cmd) => buildEvidence(cmd.subject)
    BY <1>3 DEF buildEvidence
  <2>4. (RunTold(cmd) => ~cmd.failed) /\ (GrantTold(cmd) => ~cmd.failed)
    BY <1>1 DEF IssueForetold
  <2>5. IssueForetold(cmd)'
    BY <2>2, <2>3, <2>4, GoesOn DEF Sealing
  <2>6. DoneInv'
    BY <2>1, DoneStays DEF ForetoldInv
  <2> QED
    BY <2>5, <2>6 DEF ForetoldInv, UnderWayInv
<1>5. CASE ~known \/ collectionThrows(cmd.subject)
  <2>1. ~RunTold(cmd) /\ ~GrantTold(cmd)
    BY <1>3, <1>5
  <2>2. /\ cmd' = NoCommand
        /\ last' = [name |-> "issue", code |-> 1, ref |-> cmd.ref, subject |-> cmd.subject, keys |-> cmd.keys,
                    seal |-> cmd.seal, claims |-> cmd.claims]
    BY <1>1, <1>2, <1>5 DEF Exit
  <2>3. last'.name = cmd.name /\ last'.subject = cmd.subject /\ last'.keys = cmd.keys
    BY <1>1, <2>2
  <2>4. ~RunTold(last)'
    BY <2>1, <2>3 DEF RunTold, Steady, publisherThrows
  <2>5. ~GrantTold(last)'
    BY <2>1, <2>3 DEF GrantTold, Steady, publisherThrows
  <2> QED
    BY <2>2, <2>4, <2>5 DEF ForetoldInv, UnderWayInv, DoneInv, EndForetold
<1> QED
  BY <1>4, <1>5

LEMMA ConnectGoesOn ==
    ASSUME TypeOK, CommandInv, ToldInv, ForetoldInv, Steady, Connect \/ Fallback
    PROVE  IssueForetold(cmd)' /\ last' = last
<1>1. cmd \in Issue /\ IssueForetold(cmd) /\ cmd.phase \in {"connect", "fallback"} /\ cmd.name = "issue" /\ last' = last
  BY IssueFacts DEF Connect, Fallback, Continue, ForetoldInv, UnderWayInv
<1>2. CASE Connect /\ connectBackend("auto") = NoClient
  <2>1. cmd' = [cmd EXCEPT !.phase = "fallback"] /\ ~GrantTold(cmd)
    BY <1>2, ConnectForetold DEF Connect, Continue
  <2>2. /\ cmd'.name = cmd.name /\ cmd'.subject = cmd.subject /\ cmd'.keys = cmd.keys
        /\ cmd'.failed = cmd.failed /\ cmd'.claims = cmd.claims /\ cmd'.phase = "fallback"
    BY <1>1, <2>1 DEF Issue
  <2>3. RunTold(cmd) => ~cmd.failed /\ cmd.claims
    BY <1>1 DEF IssueForetold
  <2>4. IssueForetold(cmd)'
    BY <2>1, <2>2, <2>3, GoesOn DEF Sealing
  <2> QED
    BY <1>1, <2>4
<1>3. CASE Connect /\ connectBackend("auto") # NoClient
  <2>1. cmd' = withClient(connectBackend("auto"))
    BY <1>3 DEF Connect, Continue
  <2> QED
    BY <1>1, <1>3, <2>1, ConnectForetold, WithClientForetold
<1>4. CASE Fallback
  <2>1. cmd.phase = "fallback" /\ ~GrantTold(cmd)
    BY <1>1, <1>4 DEF Fallback, IssueForetold
  <2>2. CASE connectGateway = NoClient
    <3>1. cmd' = nothingSealed(cmd) /\ ~RunTold(cmd)
      BY <1>1, <1>4, <2>2, ConnectForetold DEF Fallback, Continue
    <3>2. cmd'.name = cmd.name /\ cmd'.subject = cmd.subject /\ cmd'.keys = cmd.keys
      BY <1>1, <3>1 DEF nothingSealed, Issue
    <3>3. IssueForetold(cmd)'
      BY <2>1, <3>1, <3>2, GoesOn
    <3> QED
      BY <1>1, <3>3
  <2>3. CASE connectGateway # NoClient
    <3>1. cmd' = withClient(connectGateway)
      BY <1>4, <2>3 DEF Fallback, Continue
    <3> QED
      BY <1>1, <2>1, <3>1, ConnectForetold, WithClientForetold
  <2> QED
    BY <2>2, <2>3
<1> QED
  BY <1>2, <1>3, <1>4

\* A tier is never refused where it was foretold that it would not be.
LEMMA SealingGoesOn ==
    ASSUME TypeOK, CommandInv, ToldInv, ForetoldInv, Steady, CreateList \/ Upload \/ Keep \/ TierFails
    PROVE  IssueForetold(cmd)' /\ last' = last
<1>1. cmd \in Issue /\ IssueOk(cmd) /\ IssueForetold(cmd) /\ cmd.phase \in Sealing /\ cmd.name = "issue" /\ last' = last
  <2>1. cmd # NoCommand /\ cmd.phase \in Sealing /\ last' = last
    BY DEF CreateList, Upload, Keep, TierFails, Continue, Sealing
  <2> QED
    BY <2>1, IssueFacts DEF ForetoldInv, UnderWayInv
<1>2. RunTold(cmd) => ~cmd.failed /\ cmd.claims /\ accepts(cmd.client)
  BY <1>1 DEF IssueForetold, Sealing
<1>3. GrantTold(cmd) => ~cmd.failed /\ cmd.client.kind = "node"
  BY <1>1 DEF IssueForetold
<1>4. CASE CreateList \/ Upload
  <2>1. \/ cmd' = [cmd EXCEPT !.phase = "upload", !.receipt.history = newest(lists'), !.receipt.listRef = newest(lists')]
        \/ cmd' = [cmd EXCEPT !.phase = "keep", !.receipt.history = sealed'[newest(sealed')],
                              !.receipt.swarmRef = newest(sealed')]
    BY <1>4 DEF CreateList, Upload, Continue
  <2>2. /\ cmd'.name = cmd.name /\ cmd'.subject = cmd.subject /\ cmd'.keys = cmd.keys
        /\ cmd'.failed = cmd.failed /\ cmd'.claims = cmd.claims /\ cmd'.client = cmd.client
        /\ cmd'.phase \in {"upload", "keep"}
    BY <1>1, <2>1 DEF Issue
  <2>3. IssueForetold(cmd)'
    BY <1>2, <1>3, <2>2, GoesOn
  <2> QED
    BY <1>1, <2>3
<1>5. CASE Keep
  <2> DEFINE c == [cmd EXCEPT !.tiers = @ \cup {x \in {cmd.receipt} : isReadable(x)}]
  <2>1. cmd.receipt \in Receipt /\ cmd.receipt.tier \in Tiers
    BY <1>1, ReceiptFacts DEF IssueOk, RequestOk
  <2>2. /\ c \in Issue /\ c.receipt = cmd.receipt /\ c.name = cmd.name /\ c.subject = cmd.subject /\ c.keys = cmd.keys
        /\ c.failed = cmd.failed /\ c.claims = cmd.claims /\ c.client = cmd.client
    BY <1>1, <2>1 DEF Issue
  <2>3. cmd' = nextTier(c, cmd.receipt.tier)
    BY <1>5, <2>2 DEF Keep, Continue, tierSealed
  <2> HIDE DEF c
  <2>4. /\ cmd' \in Issue /\ cmd'.subject = cmd.subject /\ cmd'.keys = cmd.keys
        /\ cmd'.failed = cmd.failed /\ cmd'.claims = cmd.claims /\ cmd'.client = cmd.client
        /\ cmd'.phase \in {firstRequest(c.keys), "write"}
    BY <1>1, <2>1, <2>2, <2>3, NextTierFacts
  <2>5. cmd'.name = cmd.name /\ cmd'.phase # "fallback"
    BY <1>1, <2>4 DEF Issue, firstRequest
  <2>6. IssueForetold(cmd)'
    BY <1>2, <1>3, <2>4, <2>5, GoesOn
  <2> QED
    BY <1>1, <2>6
<1>6. CASE TierFails
  <2>1. ~RunTold(cmd) /\ ~GrantTold(cmd)
    BY <1>1, <1>6, AcceptsForetold DEF TierFails
  <2> DEFINE c == [cmd EXCEPT !.failed = TRUE]
  <2>2. cmd.receipt \in Receipt /\ cmd.receipt.tier \in Tiers
    BY <1>1, ReceiptFacts DEF IssueOk, RequestOk
  <2>3. c \in Issue /\ c.receipt = cmd.receipt /\ c.subject = cmd.subject /\ c.keys = cmd.keys
    BY <1>1, <2>2 DEF Issue
  <2>4. cmd' = nextTier(c, cmd.receipt.tier)
    BY <1>6, <2>3 DEF TierFails, Continue, tierFailed
  <2> HIDE DEF c
  <2>5. cmd' \in Issue /\ cmd'.subject = cmd.subject /\ cmd'.keys = cmd.keys
    BY <1>1, <2>2, <2>3, <2>4, NextTierFacts
  <2>6. cmd'.name = cmd.name
    BY <1>1, <2>5 DEF Issue
  <2>7. IssueForetold(cmd)'
    BY <2>1, <2>5, <2>6, GoesOn
  <2> QED
    BY <1>1, <2>7
<1> QED
  BY <1>4, <1>5, <1>6

LEMMA WriteForetold ==
    ASSUME TypeOK, CommandInv, ForetoldInv, Steady, Write
    PROVE  ForetoldInv'
<1>1. /\ cmd.phase = "write" /\ cmd # NoCommand /\ cmd \in Issue
      /\ last' = [name |-> "issue", code |-> IF cmd.failed THEN 1 ELSE 0, ref |-> cmd.ref, subject |-> cmd.subject,
                  keys |-> cmd.keys, seal |-> cmd.seal, claims |-> cmd.claims]
  BY WriteFacts
<1>2. cmd.name = "issue" /\ IssueForetold(cmd) /\ cmd' = NoCommand
  BY <1>1 DEF Issue, ForetoldInv, UnderWayInv, Write, Exit
<1>3. /\ last'.name = cmd.name /\ last'.subject = cmd.subject /\ last'.keys = cmd.keys /\ last'.claims = cmd.claims
      /\ ~cmd.failed => last'.code = 0
  BY <1>1, <1>2
<1>4. RunTold(last)' => RunTold(cmd)
  BY <1>3 DEF RunTold, Steady, publisherThrows
<1>5. GrantTold(last)' => GrantTold(cmd)
  BY <1>3 DEF GrantTold, Steady, publisherThrows
<1>6. (RunTold(cmd) => ~cmd.failed /\ cmd.claims) /\ (GrantTold(cmd) => ~cmd.failed)
  BY <1>1, <1>2 DEF IssueForetold
<1>7. EndForetold(last)'
  BY <1>3, <1>4, <1>5, <1>6 DEF EndForetold
<1> QED
  BY <1>2, <1>7 DEF ForetoldInv, UnderWayInv, DoneInv

LEMMA ForetoldStepped ==
    ASSUME TypeOK, CommandInv, ToldInv, ForetoldInv, Next
    PROVE  ForetoldInv'
<1>1. CASE promised' = {}
  BY <1>1, NothingTold
<1>2. CASE Doctor
  <2>1. cmd' = NoCommand /\ last'.name = "doctor"
    BY <1>2 DEF Doctor, Begin
  <2> QED
    BY <2>1 DEF ForetoldInv, UnderWayInv, DoneInv, finished
<1>3. CASE Steady
  <2>1. CASE Scan
    <3>0. PICK subject \in Subjects : scan(subject)
      BY <2>1 DEF Scan
    <3>1. PICK known \in resolveSubject(subject) :
            last' = [name |-> "scan", code |-> IF known /\ ~collectionThrows(subject) THEN 0 ELSE 1, subject |-> subject,
                     claims |-> collected]
      BY <3>0 DEF scan
    <3> DEFINE c == [name |-> "scan", subject |-> subject]
    <3>2. RunTold(last)' => RunTold(c)
      BY <1>3, <3>1 DEF RunTold, Steady, publisherThrows
    <3>3. c.subject = subject
      OBVIOUS
    <3> HIDE DEF c
    <3>4. RunTold(c) => known /\ ~collectionThrows(subject) /\ collected
      BY <3>1, <3>3, CollectForetold
    <3>5. last'.name = "scan" /\ last'.claims = collected /\ (known /\ ~collectionThrows(subject) => last'.code = 0)
      BY <3>1
    <3>6. DoneInv'
      BY <3>2, <3>4, <3>5 DEF DoneInv, EndForetold
    <3>7. cmd' = NoCommand
      BY <2>1 DEF Scan, scan, Begin
    <3> QED
      BY <3>6, <3>7 DEF ForetoldInv, UnderWayInv
  <2>2. CASE IssueBegins
    <3>1. cmd'.phase = "evidence" /\ ~cmd'.failed /\ last' = NoCommand
      BY <2>2 DEF IssueBegins, issue
    <3>2. IssueForetold(cmd)'
      BY <3>1 DEF IssueForetold, Sealing
    <3>3. DoneInv'
      BY <3>1 DEF DoneInv, finished
    <3> QED
      BY <3>2, <3>3 DEF ForetoldInv, UnderWayInv
  <2>3. CASE GranteeBegins
    <3>1. cmd'.name # "issue" /\ last' = NoCommand
      BY <2>3 DEF GranteeBegins, grantee
    <3> QED
      BY <3>1 DEF ForetoldInv, UnderWayInv, DoneInv, finished
  <2>4. CASE Kill
    <3>1. cmd' = NoCommand /\ last'.code = Killed
      BY <2>4 DEF Kill, Exit
    <3> QED
      BY <3>1 DEF ForetoldInv, UnderWayInv, DoneInv, finished
  <2>5. CASE Collect
    BY <1>3, <2>5, CollectGoesOn
  <2>6. CASE Connect \/ Fallback \/ CreateList \/ Upload \/ Keep \/ TierFails
    <3>1. IssueForetold(cmd)' /\ last' = last
      BY <1>3, <2>6, ConnectGoesOn, SealingGoesOn
    <3>2. DoneInv'
      BY <1>3, <3>1, DoneStays DEF ForetoldInv
    <3> QED
      BY <3>1, <3>2 DEF ForetoldInv, UnderWayInv
  <2>7. CASE Write
    BY <1>3, <2>7, WriteForetold
  <2>8. CASE Reach \/ ConnectNode \/ PatchFails \/ Patch
    <3>1. cmd # NoCommand /\ cmd \in GranteeCommand /\ cmd.name \in {"grant", "revoke"}
      BY <2>8, GranteeFacts DEF Reach, ConnectNode, PatchFails, Patch
    <3>2. cmd' = NoCommand \/ cmd'.name = cmd.name
      BY <2>8, <3>1 DEF Reach, ConnectNode, PatchFails, Patch, refuse, Exit, Continue, GranteeCommand
    <3>3. last' = last \/ last'.name = cmd.name
      BY <2>8, <3>1 DEF Reach, ConnectNode, PatchFails, Patch, refuse, Exit, Continue
    <3>4. DoneInv'
      BY <1>3, <3>1, <3>3, DoneStays DEF ForetoldInv
    <3> QED
      BY <3>1, <3>2, <3>4 DEF ForetoldInv, UnderWayInv
  <2>9. ASSUME ServiceChanges \/ AnswerLost \/ PatchUnheard PROVE promised' = {}
    BY <2>9 DEF ServiceChanges, AnswerLost, PatchUnheard, goesDown, change
  <2> QED
    BY <1>1, <1>2, <2>1, <2>2, <2>3, <2>4, <2>5, <2>6, <2>7, <2>8, <2>9, NextCases DEF Thinks
<1>4. Changed => promised' = {}
  BY DEF Changed
<1> QED
  BY <1>1, <1>2, <1>3, <1>4, DriftCases
----------------------------------------------------------------------------
LEMMA InitInv == Init => IInv
<1> SUFFICES ASSUME Init PROVE IInv
  OBVIOUS
<1> USE DEF Init
<1>1. TypeOK
  BY SessionConstants DEF TypeOK, ListsTypeOK, Versions
<1>2. KeptInv
  BY DEF KeptInv
<1>3. CommandInv
  BY DEF CommandInv
<1>4. LeftInv
  BY DEF LeftInv, finished
<1>5. ReliedInv
  BY DEF ReliedInv
<1>6. ToldInv
  BY DEF ToldInv
<1>7. ForetoldInv
  BY DEF ForetoldInv, UnderWayInv, DoneInv, finished
<1> QED
  BY <1>1, <1>2, <1>3, <1>4, <1>5, <1>6, <1>7 DEF IInv

LEMMA NextInv == IInv /\ [Next]_vars => IInv'
<1> SUFFICES ASSUME IInv, [Next]_vars PROVE IInv'
  OBVIOUS
<1>1. CASE Next
  <2>1. TypeOK /\ KeptInv /\ CommandInv /\ LeftInv /\ ReliedInv /\ ToldInv /\ ForetoldInv
    BY DEF IInv
  <2>2. TypeOK'
    <3>1. world' \in Worlds /\ settings' \in AllSettings /\ drifts' \in Nat /\ promised' \subseteq {"run", "grant", "names"}
      BY <1>1, <2>1, ToldStepped
    <3>2. ListsTypeOK' /\ sealedBy' \in Seq({NodeKey, GatewayKey}) /\ Len(sealedBy') = Len(sealed')
      BY <1>1, <2>1, NodeStepped DEF NodeStep
    <3>3. kept' \in Seq(Receipt) /\ envelope' \subseteq Receipt
      BY <1>1, <2>1, KeptStepped, LeftStepped
    <3>4. cmd' \in Issue \cup GranteeCommand \cup {NoCommand} /\ last' \in Result \cup {NoCommand}
      BY <1>1, <2>1, CommandStepped, LastStepped
    <3>5. commands' \in Nat /\ relied' \in Nat
      BY <1>1, <2>1, Counted, ReliedStepped
    <3> QED
      BY <3>1, <3>2, <3>3, <3>4, <3>5 DEF TypeOK
  <2>3. KeptInv' /\ CommandInv' /\ LeftInv' /\ ReliedInv' /\ ToldInv' /\ ForetoldInv'
    BY <1>1, <2>1, KeptInvStepped, CommandStepped, LeftStepped, ReliedStepped, ToldStepped, ForetoldStepped
  <2> QED
    BY <2>2, <2>3 DEF IInv
<1>2. CASE UNCHANGED vars
  <2> USE <1>2 DEF vars, IInv
  <2>1. TypeOK'
    BY DEF TypeOK, ListsTypeOK, Versions
  <2>2. KeptInv'
    BY DEF KeptInv, Sound
  <2>3. CommandInv'
    BY DEF CommandInv, IssueOk, RequestOk, TiersOk, GranteeOk, OnLog, HasTier, Past, Sound, isReadable, ownKey
  <2>4. LeftInv'
    BY DEF LeftInv, OnLog, HasTier, finished, isReadable
  <2>5. ReliedInv'
    BY DEF ReliedInv
  <2>6. ToldInv'
    BY DEF ToldInv, up
  <2>7. ForetoldInv'
    BY DEF ForetoldInv, UnderWayInv, DoneInv, IssueForetold, EndForetold, RunTold, GrantTold, finished, accepts, up, isNode, publisherThrows
  <2> QED
    BY <2>1, <2>2, <2>3, <2>4, <2>5, <2>6, <2>7
<1> QED
  BY <1>1, <1>2

\* The inductive invariant: what the theorems below rest on holds throughout a
\* session of the command line, whatever is run and whenever the services change
\* or the process is killed.
THEOREM Invariant == Spec => []IInv
<1>1. Init => IInv
  BY InitInv
<1>2. IInv /\ [Next]_vars => IInv'
  BY NextInv
<1> QED
  BY <1>1, <1>2, PTL DEF Spec

\* A session stays within the types of its parts: receipts are filled in before
\* they are kept, every object on the node lies under a version that is there,
\* and every command ends with one of the exit codes.
THEOREM TypeCorrect == Spec => []TypeOK
<1>1. IInv => TypeOK
  BY DEF IInv
<1> QED
  BY <1>1, Invariant, PTL

\* keeper.ts, issue.ts: whatever issue printed as fit to be published or wrote to
\* envelope.json is on the receipt log, through failures, lost answers and kills.
THEOREM SaidReceiptsKept == Spec => []SaidIsKept
<1>1. IInv => SaidIsKept
  <2> SUFFICES ASSUME IInv, NEW r \in envelope \cup (IF cmd # NoCommand /\ cmd.name = "issue" THEN cmd.tiers ELSE {})
               PROVE  OnLog(r)
    BY DEF SaidIsKept, OnLog
  <2>1. CASE r \in envelope
    BY <2>1 DEF IInv, LeftInv
  <2>2. CASE cmd # NoCommand /\ cmd.name = "issue" /\ r \in cmd.tiers
    BY <2>2 DEF IInv, CommandInv, IssueOk, TiersOk
  <2> QED
    BY <2>1, <2>2
<1> QED
  BY <1>1, Invariant, PTL

\* issue.ts: an issue that exits 0 after sealing has both tiers on the log under
\* lists of exactly the named readers, and its envelope opens for those readers
\* alone, with the key that the object was sealed with.
THEOREM ZeroMeansSealed == Spec => []SuccessMeansSealed
<1>1. IInv => SuccessMeansSealed
  <2> SUFFICES ASSUME IInv, finished({"issue"}), last.code = 0, last.seal PROVE
        /\ \A t \in Tiers : HasTier(last.ref, t, last.keys)
        /\ \A r \in envelope :
              /\ {k \in Keys : MayOpen(k, r)} = last.keys
              /\ settings.actPublisher = Unset => r.publisher = sealedBy[r.swarmRef]
    BY DEF SuccessMeansSealed, HasTier
  <2>1. \A t \in Tiers : HasTier(last.ref, t, last.keys)
    BY DEF IInv, LeftInv
  <2>2. ASSUME NEW r \in envelope
        PROVE  /\ {k \in Keys : MayOpen(k, r)} = last.keys
               /\ settings.actPublisher = Unset => r.publisher = sealedBy[r.swarmRef]
    <3>1. OnLog(r) /\ isReadable(r) /\ lists[r.history] = last.keys
      BY DEF IInv, LeftInv
    <3>2. Sound(r)
      BY <3>1 DEF IInv, KeptInv, OnLog
    <3>3. lists[r.history] \subseteq Keys
      BY <3>2, SequenceFacts DEF IInv, Sound
    <3> QED
      BY <3>1, <3>2, <3>3 DEF Sound, MayOpen, isReadable
  <2> QED
    BY <2>1, <2>2
<1> QED
  BY <1>1, Invariant, PTL

\* probes.ts, doctor.ts: while no service changes, what doctor told holds: scan
\* and issue end well, with claims, and a node in working order seals for named
\* readers.
THEOREM DoctorTellsTrue == Spec => []DoctorForetells
<1>1. IInv => DoctorForetells
  <2> SUFFICES ASSUME IInv PROVE DoctorForetells
    OBVIOUS
  <2>1. finished({"issue"}) => finished({"scan", "issue"}) /\ last.name = "issue"
    BY DEF finished
  <2>2. finished({"scan", "issue"}) => EndForetold(last)
    BY DEF IInv, ForetoldInv, DoneInv
  <2> QED
    BY <2>1, <2>2 DEF DoctorForetells, EndForetold, RunTold, GrantTold, publisherThrows
<1> QED
  BY <1>1, Invariant, PTL

\* grantee.ts: grant and revoke never patch a receipt of a reference older than
\* the last that was issued in full.
THEOREM YoungestPatched == Spec => PatchesNoOlderReference
<1>1. IInv /\ [Next]_vars => [Patch \/ PatchUnheard => cmd.receipt.ref >= relied]_vars
  <2> SUFFICES ASSUME IInv, Patch \/ PatchUnheard PROVE cmd.receipt.ref >= relied
    OBVIOUS
  <2>1. cmd # NoCommand /\ cmd.phase = "patch"
    BY DEF Patch, PatchUnheard
  <2>2. GranteeOk(cmd)
    BY <2>1, GranteeFacts DEF IInv
  <2> QED
    BY <2>1, <2>2 DEF GranteeOk
<1> QED
  BY <1>1, Invariant, PTL DEF Spec, PatchesNoOlderReference
=============================================================================
