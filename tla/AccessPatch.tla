---------------------------- MODULE AccessPatch -----------------------------
(***************************************************************************)
(* An issued reference in its issuer's browser: the record kept there      *)
(* (app/src/lib/store.ts), the access page that grants, withdraws, lists   *)
(* and tries a read (app/src/components/access.tsx), the handlers behind   *)
(* it (app/src/lib/server/{access,swarm}.ts).                              *)
(*                                                                         *)
(* The server keeps nothing between requests: the tier travels with each   *)
(* one and its new coordinates travel back. The handler awaits the node    *)
(* several times and may fail at each. A revoke can be clicked while a     *)
(* grant is under way, answers come back in any order, and an anchor       *)
(* asked for on the page before may be confirmed meanwhile.                *)
(***************************************************************************)
EXTENDS GranteeLists, FiniteSets

CONSTANTS
    Tiers,        \* the tiers a reference may be sealed in
    Reader,       \* the key of the node that stands in for a reader
    Requests,     \* the clicks, in their order
    Unread,       \* the ledger before the node's list has been read
    None,         \* no report on the page, no confirmation asked of the wallet
    MaxVersions,  \* bound: grantee versions the node holds
    MaxInFlight,  \* bound: requests under way at once
    MaxReads,     \* bound: lists being read when the issuer turns the page
    Repeats       \* bound: whether what is anchored is anchored once more, and a
                  \* read tried once more after one was overtaken

ASSUME AccessConstants ==
    /\ Reader \in Keys /\ None \notin {"granted", "refused"}
    /\ Tiers \subseteq Nat \ {0} /\ Tiers # {} /\ NoList \notin Nat
    /\ Requests \subseteq Nat /\ MaxVersions \in Nat /\ MaxInFlight \in Nat /\ MaxReads \in Nat
    /\ Repeats \in BOOLEAN

VARIABLES
    record,   \* the ReferenceRecord in localStorage
    page,     \* tierNumber: the tier the page shows; 0 while page 05 is open
    busy,     \* which button shows a request under way
    req,      \* req[r]: where request r stands, once it was clicked
    fetches,  \* the grantee lists being read for the page
    ledger,   \* the grantees the page shows
    report,   \* what the trial read shows of the reader's node
    trial,    \* the tier a trial read is under way for
    overtaken,\* whether the page moved on while one ever was
    wallet,   \* the record an anchor waits to be confirmed for
    stamped,  \* whether a transaction hash was shown for the reference
    revoked,  \* <<tier, key>>: revocations acknowledged, and not granted since
    raced,    \* whether two changes to the record were ever under way at once
    crossed   \* whether two reads of a list ever were

readVars == <<report, trial, overtaken>>
pageVars == <<lists, sealed, record, page, busy, req, fetches, ledger, readVars,
              wallet, stamped, revoked, raced, crossed>>

\* What goes on the name: the record keeps it beside the tiers.
coordinates(tier) == [swarmRef |-> tier.swarmRef, history |-> tier.history]

\* A mapping with one more entry.
with(f, x, value) == [y \in DOMAIN f \cup {x} |-> IF y = x THEN value ELSE f[y]]

NoRecord == [tiers |-> <<>>, envelope |-> <<>>, anchor |-> FALSE]

Done == [phase |-> "done"]
InFlight == {r \in DOMAIN req : req[r] # Done}
At(r, phase) == r \in DOMAIN req /\ req[r].phase = phase
----------------------------------------------------------------------------
\* The buttons: grant waits for either request; a key on the ledger can be
\* withdrawn unless a withdrawal is under way.
enabled(action, k) ==
    IF action = "grant" THEN busy = "none" ELSE busy # "revoke" /\ ledger # Unread /\ k \in ledger

\* patch() of the component, closing over the record it shows.
patch(r, action, k) ==
    /\ page # 0 /\ DOMAIN req = {q \in Requests : q < r} /\ enabled(action, k)
    /\ Cardinality(InFlight) < MaxInFlight /\ Len(lists) < MaxVersions
    /\ busy' = action
    /\ req' = with(req, r, [phase |-> "sent", action |-> action, key |-> k, page |-> page,
                            record |-> record, tier |-> record.tiers[page], patch |-> 0])
    /\ raced' = (raced \/ InFlight # {} \/ wallet # None)
    /\ UNCHANGED <<lists, sealed, record, page, fetches, ledger, readVars, wallet, stamped, revoked, crossed>>

step(r) == UNCHANGED <<record, page, busy, fetches, ledger, readVars, wallet, stamped, revoked, raced, crossed>>

\* The handler patches the list of the tier that was sent.
Patch(r) ==
    LET k == req[r].key
    IN  /\ At(r, "sent")
        /\ IF req[r].action = "grant" THEN patchGrantees(req[r].tier, {k}, {})
                                      ELSE patchGrantees(req[r].tier, {}, {k})
        /\ req' = [req EXCEPT ![r].phase = "patched", ![r].patch = newest(lists')]
        /\ UNCHANGED sealed /\ step(r)

\* Mutant: the new tier keeps the list it came with.
resealed_OwnList(r, o) ==
    [swarmRef |-> o, history |-> req[r].patch, listRef |-> req[r].tier.listRef]

\* The content, read back as the publisher and written again as object o.
resealed(r, o) ==
    [swarmRef |-> o, history |-> req[r].patch, listRef |-> req[r].patch]

sealingHistory(r) == req[r].patch

Reseal(r) ==
    /\ At(r, "patched")
    /\ reseal(sealingHistory(r))
    /\ req' = [req EXCEPT ![r].phase = "resealed", ![r].tier = resealed(r, newest(sealed'))]
    /\ UNCHANGED lists /\ step(r)

\* refresh() begins; a read that is under way goes on.
readLedger(listRef) == fetches' = fetches \cup {listRef}

\* Mutant: the envelope in the record is left as it was issued.
saved_OldEnvelope(r) == [req[r].record EXCEPT !.tiers[req[r].page] = req[r].tier]

\* Mutant: the record is rebuilt from its tiers, without the anchor.
saved_Unanchored(r) ==
    LET tiers == [req[r].record.tiers EXCEPT ![req[r].page] = req[r].tier]
    IN  [tiers |-> tiers, envelope |-> [n \in DOMAIN req[r].record.envelope |-> coordinates(tiers[n])], anchor |-> FALSE]

\* The record the click closed over, with the new tier in it and in its
\* envelope, if that names the tier.
saved(r) ==
    LET n == req[r].page
    IN  [req[r].record EXCEPT !.tiers[n] = req[r].tier,
            !.envelope = [t \in DOMAIN @ |-> IF t = n THEN coordinates(req[r].tier) ELSE @[t]]]

\* Mutant: the list is read again by the reference the page had.
readAgain_Old(r) == req[r].record.tiers[page].listRef

readAgain(r) == record'.tiers[page].listRef

\* Mutant: the report of a trial read stays up.
afterPatch_Kept == report

afterPatch == None

\* The handler lists the grantees of the new version and the answer arrives:
\* the record is saved, the page shows the list and, since the record has
\* changed under it, reads it once more.
Answer(r) ==
    LET about == <<req[r].page, req[r].key>>
    IN  /\ At(r, "resealed")
        /\ record' = saved(r)
        /\ ledger' = listGrantees(req[r].patch)
        /\ readLedger(readAgain(r))
        /\ report' = afterPatch
        /\ revoked' = IF req[r].action = "grant" THEN revoked \ {about} ELSE revoked \cup {about}
        /\ req' = [req EXCEPT ![r] = Done]
        /\ busy' = "none"
        /\ crossed' = (crossed \/ fetches # {})
        /\ overtaken' = (overtaken \/ trial # None)
        /\ UNCHANGED <<lists, sealed, page, trial, wallet, stamped, raced>>

\* The node, the handler or the connection fails: the page reports a refusal
\* and keeps what it had, whatever the node has done.
Fail(r) ==
    /\ r \in InFlight
    /\ req' = [req EXCEPT ![r] = Done]
    /\ busy' = "none"
    /\ UNCHANGED <<lists, sealed, record, page, fetches, ledger, readVars, wallet, stamped, revoked, raced, crossed>>
----------------------------------------------------------------------------
\* Page 07 is opened on the first tier that was kept.
Open ==
    /\ page = 0 /\ record # NoRecord
    /\ page' = CHOOSE n \in DOMAIN record.tiers : \A t \in DOMAIN record.tiers : n <= t
    /\ readLedger(record.tiers[page'].listRef)
    /\ UNCHANGED <<lists, sealed, record, busy, req, ledger, readVars, wallet, stamped, revoked, raced, crossed>>

\* The issuer turns to another tier; its list is read.
Turn(n) ==
    /\ page \notin {0, n} /\ Cardinality(fetches) < MaxReads
    /\ page' = n
    /\ readLedger(record.tiers[n].listRef)
    /\ report' = None
    /\ overtaken' = (overtaken \/ trial # None)
    /\ crossed' = (crossed \/ fetches # {})
    /\ UNCHANGED <<lists, sealed, record, busy, req, ledger, trial, wallet, stamped, revoked, raced>>

\* The button that reads the list again, once a read has come back.
Refresh ==
    /\ page # 0 /\ fetches = {}
    /\ readLedger(record.tiers[page].listRef)
    /\ UNCHANGED <<lists, sealed, record, page, busy, req, ledger, readVars, wallet, stamped, revoked, raced, crossed>>

\* refresh(): whichever list comes back last is the one shown, read or not.
Fetched(v) ==
    /\ v \in fetches
    /\ fetches' = fetches \ {v}
    /\ ledger' \in {listGrantees(v), Unread}
    /\ UNCHANGED <<lists, sealed, record, page, busy, req, readVars, wallet, stamped, revoked, raced, crossed>>

\* actRead: a node that is slow, down or out of order reads as a refusal.
actRead(tier) == {"refused"} \cup IF MayOpen(Reader, tier) THEN {"granted"} ELSE {}

\* doRead() asks for the tier on the page. The button waits for the answer, the
\* rest of the page does not.
doRead ==
    /\ page # 0 /\ trial = None /\ (overtaken => Repeats)
    /\ trial' = record.tiers[page]
    /\ UNCHANGED <<lists, sealed, record, page, busy, req, fetches, ledger, report, overtaken, wallet, stamped, revoked, raced, crossed>>

\* The answer is shown whatever the page shows by now. It says nothing of the
\* reader if no reader's node is running; if it is lost, the old report stays.
ReadBack ==
    /\ trial # None
    /\ trial' = None
    /\ report' \in actRead(trial) \cup {None, report}
    /\ UNCHANGED <<lists, sealed, record, page, busy, req, fetches, ledger, overtaken, wallet, stamped, revoked, raced, crossed>>
----------------------------------------------------------------------------
\* A browser that holds nothing, and a node that holds nothing for it.
PageInit ==
    /\ lists = <<>> /\ sealed = <<>>
    /\ record = NoRecord /\ page = 0 /\ busy = "none" /\ req = <<>>
    /\ fetches = {} /\ ledger = Unread
    /\ report = None /\ trial = None /\ overtaken = FALSE
    /\ wallet = None /\ stamped = FALSE
    /\ revoked = {} /\ raced = FALSE /\ crossed = FALSE

PageNext ==
    \/ \E r \in Requests :
          \/ \E action \in {"grant", "revoke"}, k \in Keys : patch(r, action, k)
          \/ Patch(r) \/ Reseal(r) \/ Answer(r) \/ Fail(r)
    \/ Refresh \/ doRead \/ ReadBack
    \/ \E n \in DOMAIN record.tiers : Turn(n)
    \/ \E v \in Versions : Fetched(v)
----------------------------------------------------------------------------
\* What is stored and sent is always a complete set of coordinates the node can
\* resolve together: a history address cannot be recovered once it is lost.
TypeOK ==
    /\ ListsTypeOK
    /\ \A n \in DOMAIN record.tiers :
          /\ n \in Tiers /\ record.tiers[n] \in SealReceipt
          /\ sealed[record.tiers[n].swarmRef] = record.tiers[n].history
    /\ record.anchor \in BOOLEAN /\ stamped \in BOOLEAN
    /\ page \in DOMAIN record.tiers \cup {0} /\ busy \in {"none", "grant", "revoke"}
    /\ DOMAIN req \subseteq Requests
    /\ \A r \in InFlight : req[r].phase \in {"sent", "patched", "resealed"} /\ req[r].tier \in SealReceipt
    /\ fetches \subseteq Versions
    /\ trial \in SealReceipt \cup {None} /\ report \in {None, "granted", "refused"} /\ overtaken \in BOOLEAN
    /\ ledger = Unread \/ ledger \subseteq Keys
    /\ revoked \subseteq Tiers \X Keys
    /\ raced \in BOOLEAN /\ crossed \in BOOLEAN

\* A patch starts from the readers of the content it replaces: whatever fails
\* and however requests overlap, the list of a stored tier is the list its
\* content was sealed under, and there is one.
ListMatchesContent ==
    \A n \in DOMAIN record.tiers :
        LET tier == record.tiers[n]
        IN  tier.listRef # NoList /\ lists[tier.listRef] = lists[tier.history]

\* app/src/components/access.tsx:441: every patch produces a new history and
\* the content is written again under it, so a withdrawn key is cut off from
\* everything sealed from that moment on. A key whose revocation was
\* acknowledged does not open the published tier, unless it is granted again.
RevokedStaysOut == \A about \in revoked : ~MayOpen(about[2], record.tiers[about[1]])

\* One change after the other, an acknowledged revocation holds, whatever fails
\* on the way and whichever tiers are patched in between.
RevokedStaysOutAlone == raced \/ RevokedStaysOut

\* app/README.md:94: who may read is read back from the node, so the ledger on
\* screen is the node's answer and not a copy. As long as no two reads of a list
\* cross, the page comes to rest on the readers of the tier it shows, or on none.
LedgerIsTrue ==
    fetches = {} /\ ~crossed /\ ledger # Unread => ledger = {k \in Keys : MayOpen(k, record.tiers[page])}

\* The envelope in the record is the one to publish: each tier it names stands
\* at the coordinates that were sealed last, so that a reader who resolves the
\* name gets what the ledger says, whatever was granted, withdrawn or anchored.
EnvelopeIsCurrent ==
    \A n \in DOMAIN record.envelope :
        n \in DOMAIN record.tiers /\ record.envelope[n] = coordinates(record.tiers[n])

\* The trial read is there to show that the ledger is true of the object itself:
\* grant, read, revoke, read again (access.tsx:421-435). As long as no read was
\* under way when a change was answered or the page turned, a report that the
\* reader's node opened the tier stands beside a ledger that lists the reader. Of
\* a refusal nothing follows: a slow node is reported like a key that is not on
\* the list.
TrialBearsOutLedger ==
    report = "granted" /\ ledger # Unread /\ fetches = {} /\ ~crossed /\ ~overtaken /\ ~raced
        => Reader \in ledger
=============================================================================
