-------------------------- MODULE IssueDeskProofs ---------------------------
(***************************************************************************)
(* Theorems about a reference in its issuer's browser, for every set of    *)
(* grantees, tiers and clicks and every bound.                             *)
(*                                                                         *)
(* Copies of the record are in many hands: in the stream of the run that   *)
(* made it, in the browser, in every click under way and in the wallet.    *)
(* The invariant says of each copy that its tiers can be read by those on  *)
(* their list, and of a click that the list it made is the one before it   *)
(* with its key put in or taken out. While no two changes overlap, every   *)
(* copy is the record itself.                                              *)
(***************************************************************************)
EXTENDS IssueDesk, WellFoundedInduction, SequenceTheorems, TLAPS

Mappings(S) == UNION {[D -> S] : D \in SUBSET Tiers}
Receipts == [swarmRef : Nat, history : Nat, listRef : Nat \cup {NoList}]
Places == [swarmRef : Nat, history : Nat]
References == [tiers : Mappings(Receipts), envelope : Mappings(Places), anchor : BOOLEAN]
Click == [phase : {"sent", "patched", "resealed"}, action : {"grant", "revoke"}, key : Keys, page : Tiers,
          record : References, tier : Receipts, patch : Nat]
Job == [at : {"closed", "posted", "collecting", "connecting", "sealing", "issuing"}, left : SUBSET Tiers,
        stored : Mappings(Receipts), named : SUBSET Keys, publisher : BOOLEAN, failed : BOOLEAN]
Event == [type : {"refusal", "error", "claims"}] \cup [type : {"issued"}, record : References]

\* The content of the tier can be read by whoever is on its list.
GoodTier(tier) ==
    /\ tier \in Receipts
    /\ tier.swarmRef \in Objects /\ tier.history \in Versions /\ tier.listRef \in Versions
    /\ sealed[tier.swarmRef] = tier.history
    /\ lists[tier.listRef] = lists[tier.history]

GoodRecord(rec) ==
    /\ rec \in References
    /\ \A n \in DOMAIN rec.tiers : GoodTier(rec.tiers[n])
    /\ \A n \in DOMAIN rec.envelope : n \in DOMAIN rec.tiers /\ rec.envelope[n] = coordinates(rec.tiers[n])

\* What a click makes of the list of the tier it was about.
listAfter(click) ==
    LET before == lists[click.record.tiers[click.page].listRef]
    IN  IF click.action = "grant" THEN before \cup {click.key} ELSE before \ {click.key}

GoodClick(click) ==
    /\ click \in Click /\ GoodRecord(click.record) /\ click.page \in DOMAIN click.record.tiers
    /\ click.phase \in {"sent", "patched"} => click.tier = click.record.tiers[click.page]
    /\ click.phase \in {"patched", "resealed"} => click.patch \in Versions /\ lists[click.patch] = listAfter(click)
    /\ click.phase = "resealed" =>
          /\ click.tier.history = click.patch /\ click.tier.listRef = click.patch
          /\ click.tier.swarmRef \in Objects /\ sealed[click.tier.swarmRef] = click.patch

\* Every copy of the record is a record of the same tiers.
CopiesInv ==
    /\ ListsTypeOK
    /\ GoodRecord(record)
    /\ wallet # None => /\ GoodRecord(wallet) /\ DOMAIN wallet.tiers = DOMAIN record.tiers
                        /\ DOMAIN wallet.tiers = {} => wallet = NoRecord
    /\ DOMAIN req \subseteq Requests
    /\ \A r \in InFlight : GoodClick(req[r]) /\ DOMAIN req[r].record.tiers = DOMAIN record.tiers

\* Page 07 comes after the record, and everything on it after page 07.
PageInv ==
    /\ page \in DOMAIN record.tiers \cup {0} /\ busy \in {"none", "grant", "revoke"}
    /\ raced \in BOOLEAN /\ crossed \in BOOLEAN /\ stamped \in BOOLEAN
    /\ fetches \subseteq Versions
    /\ ledger = Unread \/ ledger \subseteq Keys
    /\ revoked \subseteq (DOMAIN record.tiers) \X Keys
    /\ page = 0 => fetches = {} /\ ledger = Unread /\ InFlight = {}
    /\ DOMAIN record.tiers = {} => record = NoRecord

\* While no two changes were under way at once.
AloneInv ==
    ~raced =>
        /\ \A r \in InFlight : InFlight = {r} /\ req[r].record = record /\ wallet = None
        /\ wallet # None => wallet = record
        /\ \A about \in revoked : about[2] \notin lists[record.tiers[about[1]].listRef]
        /\ stamped /\ record # NoRecord => record.anchor

\* A trial read that nothing overtook is of the tier on the page.
TrialInv ==
    /\ trial # None => GoodTier(trial)
    /\ report \in {None, "granted", "refused"} /\ overtaken \in BOOLEAN
    /\ page = 0 => report = None /\ trial = None
    /\ ~raced /\ ~overtaken =>
          /\ trial # None => trial = record.tiers[page]
          /\ report = "granted" => Reader \in lists[record.tiers[page].listRef]

\* While no two reads of a list were: the one under way is of the tier shown.
LedgerInv ==
    ~crossed =>
        \/ fetches = {} /\ (ledger # Unread => ledger = lists[record.tiers[page].listRef])
        \/ page # 0 /\ fetches = {record.tiers[page].listRef}

\* Nothing was printed since the run began, and no anchor asked for.
Fresh == sheet = None /\ wallet = None /\ ~stamped

\* A run ends with its record, and no run begins once there is one.
DeskInv ==
    /\ job \in Job /\ stream \in Seq(Event) /\ heard \in BOOLEAN
    /\ ~heard => stream = <<>>
    /\ \A i \in 1..Len(stream) : stream[i].type = "issued" =>
          i = Len(stream) /\ job.at = "closed" /\ DOMAIN record.tiers = {} /\ Fresh /\ GoodRecord(stream[i].record)
    /\ job.at # "closed" \/ phase = "signing" => DOMAIN record.tiers = {} /\ Fresh
    /\ phase = "signing" => ~heard /\ job.at = "closed"
    /\ page # 0 => ~heard
    /\ \A n \in DOMAIN job.stored : GoodTier(job.stored[n])
    /\ job.at \in {"posted", "collecting", "connecting", "sealing"} => job.left # {}

IInv == CopiesInv /\ PageInv /\ AloneInv /\ TrialInv /\ LedgerInv /\ DeskInv
----------------------------------------------------------------------------
(* What the node keeps only grows. *)

LEMMA Least ==
    ASSUME NEW S, S \subseteq Nat, S # {}
    PROVE  \E n \in S : \A m \in S : n =< m
<1>1. PICK n \in S : \A m \in S : <<m, n>> \notin OpToRel(<, Nat)
  BY WFMin, NatLessThanWellFounded, Zenon
<1>2. \A m \in S : ~(m < n)
  BY <1>1 DEF OpToRel
<1> QED
  BY <1>2

\* Versions and objects stay what they are.
Grows ==
    /\ lists' \in Seq(SUBSET Keys) /\ sealed' \in Seq(DOMAIN lists')
    /\ \A v \in Versions : v \in DOMAIN lists' /\ lists'[v] = lists[v]
    /\ \A o \in Objects : o \in DOMAIN sealed' /\ sealed'[o] = sealed[o]

LEMMA GrowsUnchanged == ASSUME ListsTypeOK, UNCHANGED <<lists, sealed>> PROVE Grows
  BY DEF Grows, ListsTypeOK, Versions, Objects

LEMMA GrowsList ==
    ASSUME ListsTypeOK, NEW list \in SUBSET Keys, lists' = Append(lists, list)
    PROVE  /\ lists' \in Seq(SUBSET Keys) /\ newest(lists') \in DOMAIN lists' /\ newest(lists') \in Nat
           /\ lists'[newest(lists')] = list
           /\ \A v \in Versions : v \in DOMAIN lists' /\ lists'[v] = lists[v]
           /\ sealed \in Seq(DOMAIN lists')
<1>1. lists \in Seq(SUBSET Keys) /\ sealed \in Seq(DOMAIN lists)
  BY DEF ListsTypeOK, Versions
<1>2. /\ lists' \in Seq(SUBSET Keys) /\ Len(lists') = Len(lists) + 1 /\ lists'[Len(lists) + 1] = list
      /\ Len(lists) \in Nat /\ DOMAIN lists = 1..Len(lists) /\ DOMAIN lists' = 1..Len(lists')
      /\ \A v \in 1..Len(lists) : lists'[v] = lists[v]
  BY <1>1
<1>3. DOMAIN lists \subseteq DOMAIN lists'
  BY <1>2
<1>4. sealed \in Seq(DOMAIN lists')
  BY <1>1, <1>3
<1> QED
  BY <1>2, <1>4 DEF newest, Versions

LEMMA GrowsObject ==
    ASSUME NEW S, sealed \in Seq(S), NEW v \in S, sealed' = Append(sealed, v)
    PROVE  /\ sealed' \in Seq(S) /\ newest(sealed') \in DOMAIN sealed' /\ newest(sealed') \in Nat
           /\ sealed'[newest(sealed')] = v
           /\ \A o \in Objects : o \in DOMAIN sealed' /\ sealed'[o] = sealed[o]
<1>1. /\ sealed' \in Seq(S) /\ Len(sealed') = Len(sealed) + 1 /\ sealed'[Len(sealed) + 1] = v
      /\ Len(sealed) \in Nat /\ DOMAIN sealed = 1..Len(sealed) /\ DOMAIN sealed' = 1..Len(sealed')
      /\ \A o \in 1..Len(sealed) : sealed'[o] = sealed[o]
  OBVIOUS
<1> QED
  BY <1>1 DEF newest, Objects

LEMMA GrowTier == ASSUME Grows, NEW tier, GoodTier(tier) PROVE GoodTier(tier)'
  BY DEF Grows, GoodTier, Versions, Objects

LEMMA GrowRecord == ASSUME Grows, NEW rec, GoodRecord(rec) PROVE GoodRecord(rec)'
<1>1. \A n \in DOMAIN rec.tiers : GoodTier(rec.tiers[n])'
  BY GrowTier DEF GoodRecord
<1> QED
  BY <1>1 DEF GoodRecord, coordinates

LEMMA RecordFacts ==
    ASSUME NEW rec, GoodRecord(rec)
    PROVE  /\ DOMAIN rec.tiers \subseteq Tiers /\ rec.tiers \in [DOMAIN rec.tiers -> Receipts]
           /\ DOMAIN rec.envelope \subseteq Tiers /\ rec.envelope \in [DOMAIN rec.envelope -> Places]
           /\ rec.anchor \in BOOLEAN
           /\ rec = [tiers |-> rec.tiers, envelope |-> rec.envelope, anchor |-> rec.anchor]
           /\ \A n \in DOMAIN rec.tiers : rec.tiers[n] \in Receipts /\ rec.tiers[n].listRef \in Versions
  BY DEF GoodRecord, References, Mappings, GoodTier

LEMMA ListStays ==
    ASSUME Grows, NEW rec, GoodRecord(rec), NEW n \in DOMAIN rec.tiers
    PROVE  lists'[rec.tiers[n].listRef] = lists[rec.tiers[n].listRef]
  BY RecordFacts DEF Grows

LEMMA GrowClick == ASSUME Grows, NEW click, GoodClick(click) PROVE GoodClick(click)'
<1>1. GoodRecord(click.record)' /\ listAfter(click)' = listAfter(click)
  BY GrowRecord, ListStays DEF GoodClick, listAfter
<1> QED
  BY <1>1 DEF GoodClick, Grows, Versions, Objects

\* The tier on the page.
LEMMA PageFacts ==
    ASSUME IInv, page # 0
    PROVE  /\ page \in DOMAIN record.tiers /\ page \in Tiers /\ page \in Nat
           /\ GoodTier(record.tiers[page]) /\ record.tiers[page] \in Receipts
           /\ record.tiers[page].listRef \in Versions
           /\ lists[record.tiers[page].listRef] \subseteq Keys
<1>1. page \in DOMAIN record.tiers /\ GoodRecord(record) /\ ListsTypeOK
  BY DEF IInv, PageInv, CopiesInv
<1>2. page \in Tiers /\ GoodTier(record.tiers[page]) /\ record.tiers[page].listRef \in Versions
  BY <1>1, RecordFacts DEF GoodRecord
<1> QED
  BY <1>1, <1>2, AccessConstants DEF ListsTypeOK, Versions, GoodTier

LEMMA TrialGood ==
    ASSUME IInv, Grows, UNCHANGED trial
    PROVE  trial # None => GoodTier(trial)'
<1>1. PICK tier : tier = trial
  OBVIOUS
<1>2. tier # None => GoodTier(tier)'
  BY <1>1, GrowTier DEF IInv, TrialInv
<1> QED
  BY <1>1, <1>2

\* A step that leaves the trial read and the page's tier alone.
LEMMA TrialStays ==
    ASSUME IInv, Grows, UNCHANGED <<readVars, page>>, raced => raced',
           ~raced /\ page # 0 => record'.tiers[page] = record.tiers[page]
    PROVE  TrialInv'
<1>1. UNCHANGED <<report, trial, overtaken>>
  BY DEF readVars
<1>2. trial # None => GoodTier(trial)'
  BY <1>1, TrialGood
<1>3. page # 0 => lists'[record.tiers[page].listRef] = lists[record.tiers[page].listRef]
  BY PageFacts DEF Grows
<1> QED
  BY <1>1, <1>2, <1>3, AccessConstants DEF IInv, TrialInv

\* A step behind the page: the handlers of requests, the issuing of tiers.
LEMMA BehindPage ==
    ASSUME IInv, Grows,
           UNCHANGED <<record, page, busy, fetches, ledger, readVars, wallet, stamped, revoked, raced, crossed>>,
           DOMAIN req' \subseteq Requests, InFlight' = InFlight,
           \A r \in InFlight : GoodClick(req[r])' /\ req'[r].record = req[r].record
    PROVE  CopiesInv' /\ PageInv' /\ AloneInv' /\ TrialInv' /\ LedgerInv'
<1>1. CopiesInv'
  <2>1. GoodRecord(record)' /\ (wallet # None => GoodRecord(wallet)')
    BY GrowRecord DEF IInv, CopiesInv
  <2>2. ListsTypeOK'
    BY DEF Grows, ListsTypeOK, Versions
  <2> QED
    BY <2>1, <2>2 DEF IInv, CopiesInv
<1>2. PageInv'
  <2>1. fetches \subseteq Versions'
    BY DEF IInv, PageInv, Grows, Versions
  <2> QED
    BY <2>1 DEF IInv, PageInv
<1>3. \A n \in DOMAIN record.tiers : lists'[record.tiers[n].listRef] = lists[record.tiers[n].listRef]
  BY ListStays DEF IInv, CopiesInv
<1>4. AloneInv'
  <2> SUFFICES ASSUME ~raced PROVE AloneInv'
    BY DEF AloneInv
  <2>1. \A about \in revoked : about[2] \notin lists'[record.tiers[about[1]].listRef]
    BY <1>3 DEF IInv, AloneInv, PageInv
  <2> QED
    BY <2>1 DEF IInv, AloneInv
<1>5. LedgerInv'
  BY <1>3 DEF IInv, LedgerInv, PageInv
<1>6. TrialInv'
  BY TrialStays
<1> QED
  BY <1>1, <1>2, <1>4, <1>5, <1>6

\* A step on page 07 or behind it.
LEMMA DeskStays ==
    ASSUME IInv, Grows, UNCHANGED deskVars, page' = page \/ page # 0, Fresh => Fresh',
           DOMAIN record.tiers = {} => DOMAIN record'.tiers = {}
    PROVE  DeskInv'
<1>1. \A n \in DOMAIN job.stored : GoodTier(job.stored[n])'
  BY GrowTier DEF IInv, DeskInv, deskVars
<1>2. \A i \in 1..Len(stream) : stream[i].type = "issued" => GoodRecord(stream[i].record)'
  BY GrowRecord DEF IInv, DeskInv, deskVars
<1> QED
  BY <1>1, <1>2 DEF IInv, DeskInv, deskVars

LEMMA NothingKept ==
    ASSUME record = NoRecord
    PROVE  GoodRecord(record) /\ DOMAIN record.tiers = {}
<1>1. \A S : <<>> \in [{} -> S]
  OBVIOUS
<1>2. <<>> \in Mappings(Receipts) /\ <<>> \in Mappings(Places)
  BY <1>1 DEF Mappings
<1>3. DOMAIN record.tiers = {} /\ DOMAIN record.envelope = {}
  BY DEF NoRecord
<1> QED
  BY <1>2, <1>3 DEF GoodRecord, References, NoRecord

LEMMA InitInv == DeskInit => IInv
<1> SUFFICES ASSUME DeskInit PROVE IInv
  OBVIOUS
<1>1. /\ lists = <<>> /\ sealed = <<>> /\ record = NoRecord /\ page = 0 /\ busy = "none" /\ req = <<>>
      /\ fetches = {} /\ ledger = Unread /\ report = None /\ trial = None /\ overtaken = FALSE
      /\ wallet = None /\ stamped = FALSE /\ revoked = {} /\ raced = FALSE /\ crossed = FALSE
      /\ phase = "idle" /\ job = Closed /\ stream = <<>> /\ heard = FALSE
  BY DEF DeskInit, PageInit
<1>2. GoodRecord(record) /\ DOMAIN record.tiers = {}
  BY <1>1, NothingKept
<1>3. InFlight = {} /\ DOMAIN req = {}
  BY <1>1 DEF InFlight
<1>4. CopiesInv
  BY <1>1, <1>2, <1>3 DEF CopiesInv, ListsTypeOK, Versions
<1>5. PageInv
  BY <1>1, <1>2, <1>3 DEF PageInv
<1>6. AloneInv
  BY <1>1, <1>3 DEF AloneInv
<1>7. LedgerInv
  BY <1>1 DEF LedgerInv
<1>8. DeskInv
  <2>1. <<>> \in Mappings(Receipts)
    BY <1>1, <1>2 DEF GoodRecord, References, NoRecord
  <2>2. job \in Job /\ job.at = "closed" /\ DOMAIN job.stored = {}
    BY <1>1, <2>1 DEF Closed, Job
  <2>3. stream \in Seq(Event) /\ 1..Len(stream) = {}
    BY <1>1
  <2> QED
    BY <1>1, <1>2, <2>2, <2>3 DEF DeskInv
<1>9. TrialInv
  BY <1>1, AccessConstants DEF TrialInv
<1> QED
  BY <1>4, <1>5, <1>6, <1>7, <1>8, <1>9 DEF IInv
----------------------------------------------------------------------------
(* The requests. *)

LEMMA ClickFacts ==
    ASSUME IInv, NEW r \in InFlight
    PROVE  /\ r \in DOMAIN req /\ r \in Requests /\ GoodClick(req[r]) /\ req[r] \in Click
           /\ GoodRecord(req[r].record) /\ DOMAIN req[r].record.tiers = DOMAIN record.tiers
           /\ req[r].page \in DOMAIN record.tiers /\ req[r].page \in Tiers /\ req[r].key \in Keys
           /\ req[r].tier \in Receipts /\ page # 0
<1>1. r \in DOMAIN req /\ r \in Requests /\ GoodClick(req[r]) /\ DOMAIN req[r].record.tiers = DOMAIN record.tiers
  BY DEF IInv, CopiesInv, InFlight
<1> QED
  BY <1>1 DEF GoodClick, Click, IInv, PageInv

LEMMA PhaseInFlight ==
    ASSUME NEW r, NEW at \in {"sent", "patched", "resealed"}, At(r, at)
    PROVE  r \in InFlight
  BY DEF At, InFlight, Done

LEMMA PatchClickInv ==
    ASSUME IInv, NEW r \in Requests, NEW action \in {"grant", "revoke"}, NEW k \in Keys, patch(r, action, k),
           UNCHANGED deskVars
    PROVE  IInv'
<1> DEFINE c == [phase |-> "sent", action |-> action, key |-> k, page |-> page,
                 record |-> record, tier |-> record.tiers[page], patch |-> 0]
<1>1. /\ page # 0 /\ DOMAIN req = {q \in Requests : q < r} /\ busy' = action /\ req' = with(req, r, c)
      /\ raced' = (raced \/ InFlight # {} \/ wallet # None)
      /\ UNCHANGED <<lists, sealed, record, page, fetches, ledger, readVars, wallet, stamped, revoked, crossed>>
  BY DEF patch
<1>2. c.phase = "sent" /\ c.record = record /\ c.page = page /\ c.tier = record.tiers[page]
  OBVIOUS
<1>3. GoodClick(c)
  <2>1. GoodRecord(record)
    BY DEF IInv, CopiesInv
  <2>2. c \in Click
    BY <1>1, <2>1, PageFacts DEF Click, GoodRecord
  <2> HIDE DEF c
  <2> QED
    BY <1>1, <1>2, <2>1, <2>2, PageFacts DEF GoodClick
<1> HIDE DEF c
<1>4. r \notin DOMAIN req
  BY <1>1, AccessConstants
<1>5. DOMAIN req' = DOMAIN req \cup {r} /\ req'[r] = c /\ \A q \in DOMAIN req : req'[q] = req[q]
  BY <1>1, <1>4 DEF with
<1>6. InFlight' = InFlight \cup {r}
  BY <1>2, <1>5 DEF InFlight, Done
<1>7. Grows
  BY <1>1, GrowsUnchanged DEF IInv, CopiesInv
<1>8. CopiesInv'
  <2>1. \A q \in InFlight' : GoodClick(req'[q]) /\ DOMAIN req'[q].record.tiers = DOMAIN record.tiers
    BY <1>2, <1>3, <1>5, <1>6 DEF IInv, CopiesInv, InFlight
  <2>2. ASSUME NEW q \in InFlight' PROVE GoodClick(req[q])'
    BY <1>7, <2>1, GrowClick
  <2>3. GoodRecord(record)' /\ (wallet # None => GoodRecord(wallet)')
    BY <1>1, <1>7, GrowRecord DEF IInv, CopiesInv
  <2> QED
    BY <1>1, <1>5, <2>1, <2>2, <2>3 DEF IInv, CopiesInv, ListsTypeOK, Versions
<1>9. PageInv'
  <2>1. raced' \in BOOLEAN /\ busy' \in {"none", "grant", "revoke"}
    BY <1>1 DEF IInv, PageInv
  <2> QED
    BY <1>1, <2>1 DEF IInv, PageInv, Versions
<1>10. AloneInv'
  <2> SUFFICES ASSUME ~raced' PROVE AloneInv'
    BY DEF AloneInv
  <2>1. ~raced /\ InFlight' = {r} /\ wallet = None /\ req'[r].record = record
    BY <1>1, <1>2, <1>5, <1>6
  <2> QED
    BY <1>1, <2>1 DEF IInv, AloneInv
<1>11. LedgerInv'
  BY <1>1 DEF IInv, LedgerInv
<1>12. DeskInv'
  BY <1>1, <1>7, DeskStays DEF Fresh, deskVars
<1>13. TrialInv'
  BY <1>1, <1>7, TrialStays
<1> QED
  BY <1>8, <1>9, <1>10, <1>11, <1>12, <1>13 DEF IInv

\* A handler step: the request stays under way and about the same record.
LEMMA HandlerStep ==
    ASSUME IInv, Grows, NEW r \in InFlight, step(r), UNCHANGED deskVars,
           DOMAIN req' = DOMAIN req, \A q \in DOMAIN req : q # r => req'[q] = req[q],
           req'[r] # Done, GoodClick(req[r])', req'[r].record = req[r].record
    PROVE  IInv'
<1>1. UNCHANGED <<record, page, busy, fetches, ledger, readVars, wallet, stamped, revoked, raced, crossed>>
  BY DEF step
<1>2. InFlight' = InFlight /\ DOMAIN req' \subseteq Requests
  BY ClickFacts DEF InFlight, IInv, CopiesInv
<1>3. ASSUME NEW q \in InFlight PROVE GoodClick(req[q])' /\ req'[q].record = req[q].record
  <2>1. CASE q = r
    BY <2>1
  <2>2. CASE q # r
    BY <2>2, ClickFacts, GrowClick
  <2> QED
    BY <2>1, <2>2
<1>4. CopiesInv' /\ PageInv' /\ AloneInv' /\ TrialInv' /\ LedgerInv'
  BY <1>1, <1>2, <1>3, BehindPage
<1>5. DeskInv'
  BY <1>1, DeskStays DEF Fresh, deskVars
<1> QED
  BY <1>4, <1>5 DEF IInv

\* The handler has changed the list of the tier that was sent.
LEMMA Patched ==
    ASSUME Grows, NEW c, GoodClick(c), c.phase = "sent", NEW v, v \in DOMAIN lists', v \in Nat,
           lists'[v] = listAfter(c), NEW d, d = [c EXCEPT !.phase = "patched", !.patch = v]
    PROVE  GoodClick(d)' /\ d.record = c.record /\ d # Done
<1>1. c \in Click /\ GoodRecord(c.record) /\ c.page \in DOMAIN c.record.tiers /\ c.tier = c.record.tiers[c.page]
  BY DEF GoodClick
<1>2. /\ d \in Click /\ d.phase = "patched" /\ d.patch = v /\ d.record = c.record /\ d.page = c.page
      /\ d.tier = c.tier /\ d.action = c.action /\ d.key = c.key
  BY <1>1 DEF Click
<1>3. GoodRecord(c.record)' /\ lists'[c.record.tiers[c.page].listRef] = lists[c.record.tiers[c.page].listRef]
  BY <1>1, GrowRecord, ListStays
<1>4. listAfter(d)' = listAfter(c)
  BY <1>2, <1>3 DEF listAfter
<1>5. GoodRecord(d.record)'
  BY <1>2, <1>3
<1> QED
  BY <1>1, <1>2, <1>4, <1>5 DEF GoodClick, Versions, Done

LEMMA PatchInv == ASSUME IInv, NEW r \in Requests, Patch(r), UNCHANGED deskVars PROVE IInv'
<1> DEFINE c == req[r]
           list == listAfter(c)
           v == newest(lists')
<1>1. At(r, "sent") /\ UNCHANGED sealed /\ step(r) /\ req' = [req EXCEPT ![r].phase = "patched", ![r].patch = v]
  BY DEF Patch
<1>2. r \in InFlight /\ r \in DOMAIN req /\ c.phase = "sent"
  BY <1>1, PhaseInFlight DEF At
<1>3. /\ c \in Click /\ GoodClick(c) /\ c.tier = c.record.tiers[c.page] /\ c.tier.listRef \in Versions
      /\ c.action \in {"grant", "revoke"} /\ c.key \in Keys
  BY <1>2, ClickFacts, RecordFacts DEF GoodClick, Click
<1>4. lists[c.tier.listRef] \subseteq Keys /\ ListsTypeOK
  BY <1>3 DEF IInv, CopiesInv, ListsTypeOK, Versions
<1>5. list \in SUBSET Keys
  BY <1>3, <1>4 DEF listAfter
<1>6. lists' = Append(lists, list)
  <2>1. CASE c.action = "grant"
    <3>1. lists' = Append(lists, (lists[c.tier.listRef] \cup {c.key}) \ {})
      BY <2>1 DEF Patch, patchGrantees, patched
    <3>2. list = (lists[c.tier.listRef] \cup {c.key}) \ {}
      BY <1>3, <2>1 DEF listAfter
    <3> QED
      BY <3>1, <3>2
  <2>2. CASE c.action # "grant"
    <3>1. lists' = Append(lists, (lists[c.tier.listRef] \cup {}) \ {c.key})
      BY <2>2 DEF Patch, patchGrantees, patched
    <3>2. list = (lists[c.tier.listRef] \cup {}) \ {c.key}
      BY <1>3, <2>2 DEF listAfter
    <3> QED
      BY <3>1, <3>2
  <2> QED
    BY <2>1, <2>2
<1>7. Grows /\ v \in DOMAIN lists' /\ v \in Nat /\ lists'[v] = list
  <2> HIDE DEF list
  <2> QED
    BY <1>1, <1>4, <1>5, <1>6, GrowsList DEF Grows, ListsTypeOK, Objects
<1>8. /\ req'[r] = [req[r] EXCEPT !.phase = "patched", !.patch = v]
      /\ DOMAIN req' = DOMAIN req /\ \A q \in DOMAIN req : q # r => req'[q] = req[q]
  BY <1>1, <1>2
<1>9. GoodClick(req[r])' /\ req'[r].record = req[r].record /\ req'[r] # Done
  <2>1. PICK before : before = req[r]
    OBVIOUS
  <2>2. PICK after : after = req'[r]
    OBVIOUS
  <2>3. GoodClick(after)' /\ after.record = before.record /\ after # Done
    <3>1. GoodClick(before) /\ before.phase = "sent" /\ lists'[newest(lists')] = listAfter(before)
      BY <1>2, <1>3, <1>7, <2>1
    <3>2. after = [before EXCEPT !.phase = "patched", !.patch = newest(lists')]
      BY <1>8, <2>1, <2>2
    <3> QED
      BY <1>7, <3>1, <3>2, Patched
  <2> QED
    BY <2>1, <2>2, <2>3
<1> QED
  BY <1>1, <1>2, <1>7, <1>8, <1>9, HandlerStep

\* The content has been written again under the new list.
LEMMA Resealed ==
    ASSUME Grows, NEW c, GoodClick(c), c.phase = "patched",
           NEW o, o \in DOMAIN sealed', o \in Nat, sealed'[o] = c.patch, NEW d,
           d = [c EXCEPT !.phase = "resealed", !.tier = [swarmRef |-> o, history |-> c.patch, listRef |-> c.patch]]
    PROVE  GoodClick(d)' /\ d.record = c.record /\ d # Done
<1>1. /\ c \in Click /\ GoodRecord(c.record) /\ c.page \in DOMAIN c.record.tiers
      /\ c.patch \in Versions /\ lists[c.patch] = listAfter(c)
  BY DEF GoodClick
<1> DEFINE tier == [swarmRef |-> o, history |-> c.patch, listRef |-> c.patch]
<1>2. tier \in Receipts /\ tier.swarmRef = o /\ tier.history = c.patch /\ tier.listRef = c.patch
  BY <1>1 DEF Click, Receipts
<1> HIDE DEF tier
<1>3. /\ d \in Click /\ d.phase = "resealed" /\ d.patch = c.patch /\ d.record = c.record /\ d.page = c.page
      /\ d.tier = tier /\ d.action = c.action /\ d.key = c.key
  BY <1>1, <1>2 DEF Click, tier
<1>4. GoodRecord(c.record)' /\ lists'[c.record.tiers[c.page].listRef] = lists[c.record.tiers[c.page].listRef]
  BY <1>1, GrowRecord, ListStays
<1>5. listAfter(d)' = listAfter(c)
  BY <1>3, <1>4 DEF listAfter
<1>6. GoodRecord(d.record)'
  BY <1>3, <1>4
<1>7. d.patch \in DOMAIN lists' /\ lists'[d.patch] = listAfter(c)
  BY <1>1, <1>3 DEF Grows
<1> QED
  BY <1>1, <1>2, <1>3, <1>5, <1>6, <1>7 DEF GoodClick, Versions, Objects, Done

LEMMA ResealInv == ASSUME IInv, NEW r \in Requests, Reseal(r), UNCHANGED deskVars PROVE IInv'
<1>1. At(r, "patched") /\ sealed' = Append(sealed, req[r].patch) /\ UNCHANGED lists /\ step(r)
  BY DEF Reseal, reseal, upload, sealingHistory
<1>2. r \in InFlight /\ r \in DOMAIN req /\ req[r].phase = "patched"
  BY <1>1, PhaseInFlight DEF At
<1>3. GoodClick(req[r]) /\ req[r].patch \in Versions /\ ListsTypeOK
  BY <1>2, ClickFacts DEF GoodClick, IInv, CopiesInv
<1>4. /\ Grows /\ newest(sealed') \in DOMAIN sealed' /\ newest(sealed') \in Nat
      /\ sealed'[newest(sealed')] = req[r].patch
  BY <1>1, <1>3, GrowsObject DEF Grows, ListsTypeOK, Versions
<1>5. /\ req'[r] = [req[r] EXCEPT !.phase = "resealed",
                        !.tier = [swarmRef |-> newest(sealed'), history |-> req[r].patch, listRef |-> req[r].patch]]
      /\ DOMAIN req' = DOMAIN req /\ \A q \in DOMAIN req : q # r => req'[q] = req[q]
  BY <1>2 DEF Reseal, resealed
<1>6. GoodClick(req[r])' /\ req'[r].record = req[r].record /\ req'[r] # Done
  <2>1. PICK before : before = req[r]
    OBVIOUS
  <2>2. PICK after : after = req'[r]
    OBVIOUS
  <2>3. GoodClick(after)' /\ after.record = before.record /\ after # Done
    <3>1. GoodClick(before) /\ before.phase = "patched" /\ sealed'[newest(sealed')] = before.patch
      BY <1>2, <1>3, <1>4, <2>1
    <3>2. after = [before EXCEPT !.phase = "resealed",
                     !.tier = [swarmRef |-> newest(sealed'), history |-> before.patch, listRef |-> before.patch]]
      BY <1>5, <2>1, <2>2
    <3> QED
      BY <1>4, <3>1, <3>2, Resealed
  <2> QED
    BY <2>1, <2>2, <2>3
<1> QED
  BY <1>1, <1>2, <1>4, <1>5, <1>6, HandlerStep

\* A request that is over.
LEMMA RequestEnds ==
    ASSUME NEW r \in InFlight, req' = [req EXCEPT ![r] = Done]
    PROVE  /\ DOMAIN req' = DOMAIN req /\ InFlight' = InFlight \ {r}
           /\ \A q \in InFlight' : q \in InFlight /\ req'[q] = req[q]
  BY DEF InFlight

\* The record with the tier that was sealed last.
LEMMA SavedFacts ==
    ASSUME NEW r, GoodClick(req[r]), req[r].phase = "resealed"
    PROVE  /\ GoodRecord(saved(r)) /\ DOMAIN saved(r).tiers = DOMAIN req[r].record.tiers
           /\ saved(r).tiers[req[r].page] = req[r].tier /\ saved(r).anchor = req[r].record.anchor
           /\ \A n \in DOMAIN req[r].record.tiers : n # req[r].page => saved(r).tiers[n] = req[r].record.tiers[n]
<1> DEFINE n == req[r].page
           tier == req[r].tier
           old == req[r].record
<1>1. /\ GoodRecord(old) /\ n \in DOMAIN old.tiers /\ tier \in Receipts /\ GoodTier(tier)
  BY DEF GoodClick, GoodTier, Click
<1>2. /\ DOMAIN old.tiers \subseteq Tiers /\ old.tiers \in [DOMAIN old.tiers -> Receipts]
      /\ DOMAIN old.envelope \subseteq Tiers /\ old.envelope \in [DOMAIN old.envelope -> Places]
      /\ old.anchor \in BOOLEAN
      /\ old = [tiers |-> old.tiers, envelope |-> old.envelope, anchor |-> old.anchor]
  BY <1>1, RecordFacts
<1> DEFINE tiers == [old.tiers EXCEPT ![n] = tier]
           envelope == [t \in DOMAIN old.envelope |-> IF t = n THEN coordinates(tier) ELSE old.envelope[t]]
<1>3. /\ DOMAIN tiers = DOMAIN old.tiers /\ tiers[n] = tier /\ tiers \in [DOMAIN old.tiers -> Receipts]
      /\ \A t \in DOMAIN old.tiers : t # n => tiers[t] = old.tiers[t]
  BY <1>1, <1>2
<1>4. coordinates(tier) \in Places
  BY <1>1 DEF coordinates, Places, Receipts
<1>5. /\ DOMAIN envelope = DOMAIN old.envelope /\ envelope \in [DOMAIN old.envelope -> Places]
      /\ \A t \in DOMAIN envelope : t \in DOMAIN tiers /\ envelope[t] = coordinates(tiers[t])
  BY <1>1, <1>2, <1>3, <1>4 DEF GoodRecord
<1>6. saved(r) = [old EXCEPT !.tiers = tiers, !.envelope = envelope]
  BY DEF saved
<1> HIDE DEF tiers, envelope
<1>7. saved(r) = [tiers |-> tiers, envelope |-> envelope, anchor |-> old.anchor]
  BY <1>2, <1>6
<1>8. tiers \in Mappings(Receipts) /\ envelope \in Mappings(Places)
  BY <1>2, <1>3, <1>5 DEF Mappings
<1>9. \A t \in DOMAIN tiers : GoodTier(tiers[t])
  BY <1>1, <1>3 DEF GoodRecord
<1> QED
  BY <1>2, <1>3, <1>5, <1>7, <1>8, <1>9 DEF GoodRecord, References

LEMMA AnswerInv == ASSUME IInv, NEW r \in Requests, Answer(r), UNCHANGED deskVars PROVE IInv'
<1> DEFINE n == req[r].page
           k == req[r].key
<1>1. /\ At(r, "resealed") /\ record' = saved(r) /\ ledger' = lists[req[r].patch]
      /\ fetches' = fetches \cup {record'.tiers[page].listRef} /\ report' = None /\ busy' = "none"
      /\ revoked' = IF req[r].action = "grant" THEN revoked \ {<<n, k>>} ELSE revoked \cup {<<n, k>>}
      /\ req' = [req EXCEPT ![r] = Done] /\ crossed' = (crossed \/ fetches # {})
      /\ overtaken' = (overtaken \/ trial # None)
      /\ UNCHANGED <<lists, sealed, page, trial, wallet, stamped, raced>>
  BY DEF Answer, listGrantees, readLedger, readAgain, afterPatch
<1>2. r \in InFlight /\ r \in DOMAIN req /\ req[r].phase = "resealed"
  BY <1>1, PhaseInFlight DEF At
<1>3. /\ GoodClick(req[r]) /\ req[r] \in Click /\ n \in DOMAIN record.tiers /\ k \in Keys
      /\ DOMAIN req[r].record.tiers = DOMAIN record.tiers /\ page # 0
  BY <1>2, ClickFacts
<1>4. PICK s : s = saved(r)
  OBVIOUS
<1>5. /\ record' = s /\ GoodRecord(s) /\ DOMAIN s.tiers = DOMAIN record.tiers
      /\ s.tiers[n] = req[r].tier /\ s.anchor = req[r].record.anchor
      /\ \A t \in DOMAIN record.tiers : t # n => s.tiers[t] = req[r].record.tiers[t]
  BY <1>1, <1>2, <1>3, <1>4, SavedFacts
<1>6. /\ DOMAIN req' = DOMAIN req /\ InFlight' = InFlight \ {r}
      /\ \A q \in InFlight' : q \in InFlight /\ req'[q] = req[q]
  BY <1>1, <1>2, RequestEnds
<1>7. Grows
  BY <1>1, GrowsUnchanged DEF IInv, CopiesInv
<1>8. /\ req[r].patch \in Versions /\ lists[req[r].patch] = listAfter(req[r]) /\ lists[req[r].patch] \subseteq Keys
      /\ req[r].tier.listRef = req[r].patch
  BY <1>2, <1>3 DEF GoodClick, IInv, CopiesInv, ListsTypeOK, Versions
<1>9. page \in DOMAIN record.tiers /\ s.tiers[page].listRef \in Versions
  BY <1>3, <1>5, PageFacts, RecordFacts
<1>10. CopiesInv'
  <2>1. GoodRecord(s)' /\ (wallet # None => GoodRecord(wallet)')
    BY <1>1, <1>5, <1>7, GrowRecord DEF IInv, CopiesInv
  <2>2. GoodRecord(record)'
    BY <1>5, <2>1
  <2>3. ASSUME NEW q \in InFlight' PROVE GoodClick(req[q])' /\ DOMAIN req'[q].record.tiers = DOMAIN record'.tiers
    BY <1>5, <1>6, <1>7, ClickFacts, GrowClick
  <2> QED
    BY <1>1, <1>5, <1>6, <2>1, <2>2, <2>3 DEF IInv, CopiesInv, ListsTypeOK, Versions
<1>11. PageInv'
  <2>1. revoked' \subseteq (DOMAIN record'.tiers) \X Keys
    BY <1>1, <1>3, <1>5 DEF IInv, PageInv
  <2>2. fetches' \subseteq Versions
    BY <1>1, <1>5, <1>9 DEF IInv, PageInv
  <2>3. crossed' \in BOOLEAN
    BY <1>1 DEF IInv, PageInv
  <2> QED
    BY <1>1, <1>3, <1>5, <1>8, <1>9, <2>1, <2>2, <2>3 DEF IInv, PageInv, Versions
<1>12. AloneInv'
  <2> SUFFICES ASSUME ~raced PROVE AloneInv'
    BY <1>1 DEF AloneInv
  <2>1. InFlight = {r} /\ req[r].record = record /\ wallet = None
    BY <1>2 DEF IInv, AloneInv
  <2>2. InFlight' = {}
    BY <1>6, <2>1
  <2>3. ASSUME NEW about \in revoked' PROVE about[2] \notin lists[s.tiers[about[1]].listRef]
    <3>1. about[1] \in DOMAIN record.tiers /\ about[2] \in Keys /\ about = <<about[1], about[2]>>
      BY <1>1, <1>3 DEF IInv, PageInv
    <3>2. about \in revoked => about[2] \notin lists[record.tiers[about[1]].listRef]
      BY <2>1 DEF IInv, AloneInv
    <3>3. CASE about[1] # n
      <4>1. about \in revoked
        BY <1>1, <3>3
      <4> QED
        BY <1>5, <2>1, <3>1, <3>2, <3>3, <4>1
    <3>4. CASE about[1] = n
      <4>1. s.tiers[about[1]].listRef = req[r].patch
        BY <1>5, <1>8, <3>4
      <4>2. CASE req[r].action = "grant"
        <5>1. about \in revoked /\ about # <<n, k>>
          BY <1>1, <4>2
        <5>2. about[2] # k
          BY <3>1, <3>4, <5>1
        <5> QED
          BY <1>8, <2>1, <3>2, <3>4, <4>1, <4>2, <5>1, <5>2 DEF listAfter
      <4>3. CASE req[r].action # "grant"
        <5>1. about \in revoked \/ about[2] = k
          BY <1>1, <4>3
        <5> QED
          BY <1>8, <2>1, <3>2, <3>4, <4>1, <4>3, <5>1 DEF listAfter
      <4> QED
        BY <4>2, <4>3
    <3> QED
      BY <3>3, <3>4
  <2>4. stamped' => record'.anchor
    BY <1>1, <1>3, <1>5, <2>1 DEF IInv, AloneInv, NoRecord
  <2> QED
    BY <1>1, <1>5, <2>1, <2>2, <2>3, <2>4 DEF AloneInv
<1>13. LedgerInv'
  BY <1>1, <1>3, <1>5 DEF LedgerInv
<1>14. DeskInv'
  BY <1>1, <1>5, <1>7, DeskStays DEF Fresh, deskVars
<1>15. TrialInv'
  <2>1. trial # None => GoodTier(trial)'
    BY <1>1, <1>7, TrialGood
  <2> QED
    BY <1>1, <1>3, <2>1, AccessConstants DEF IInv, TrialInv
<1> QED
  BY <1>10, <1>11, <1>12, <1>13, <1>14, <1>15 DEF IInv

LEMMA FailInv == ASSUME IInv, NEW r \in Requests, Fail(r), UNCHANGED deskVars PROVE IInv'
<1>1. /\ r \in InFlight /\ req' = [req EXCEPT ![r] = Done] /\ busy' = "none"
      /\ UNCHANGED <<lists, sealed, record, page, fetches, ledger, readVars, wallet, stamped, revoked, raced, crossed>>
  BY DEF Fail
<1>2. /\ DOMAIN req' = DOMAIN req /\ InFlight' = InFlight \ {r}
      /\ \A q \in InFlight' : q \in InFlight /\ req'[q] = req[q]
  BY <1>1, RequestEnds
<1>3. Grows
  BY <1>1, GrowsUnchanged DEF IInv, CopiesInv
<1>4. CopiesInv'
  <2>1. GoodRecord(record)' /\ (wallet # None => GoodRecord(wallet)')
    BY <1>1, <1>3, GrowRecord DEF IInv, CopiesInv
  <2>2. ASSUME NEW q \in InFlight' PROVE GoodClick(req[q])' /\ DOMAIN req'[q].record.tiers = DOMAIN record'.tiers
    BY <1>1, <1>2, <1>3, ClickFacts, GrowClick
  <2> QED
    BY <1>1, <1>2, <2>1, <2>2 DEF IInv, CopiesInv, ListsTypeOK, Versions
<1>5. PageInv'
  BY <1>1, <1>2 DEF IInv, PageInv, Versions
<1>6. AloneInv'
  <2> SUFFICES ASSUME ~raced PROVE AloneInv'
    BY <1>1 DEF AloneInv
  <2>1. InFlight' = {}
    BY <1>1, <1>2 DEF IInv, AloneInv
  <2> QED
    BY <1>1, <2>1 DEF IInv, AloneInv
<1>7. LedgerInv'
  BY <1>1 DEF IInv, LedgerInv
<1>8. DeskInv'
  BY <1>1, <1>3, DeskStays DEF Fresh, deskVars
<1>9. TrialInv'
  BY <1>1, <1>3, TrialStays
<1> QED
  BY <1>4, <1>5, <1>6, <1>7, <1>8, <1>9 DEF IInv
----------------------------------------------------------------------------
(* Reading, turning the page, and the wallet. *)

\* A step that changes no record: the wallet may be asked, or answer.
LEMMA SameCopies ==
    ASSUME IInv, UNCHANGED <<lists, sealed, record, req>>, wallet' \in {wallet, record, None}
    PROVE  CopiesInv' /\ InFlight' = InFlight /\ Grows
<1>1. Grows
  BY GrowsUnchanged DEF IInv, CopiesInv
<1>2. InFlight' = InFlight
  BY DEF InFlight
<1>3. GoodRecord(record)' /\ (wallet' # None => GoodRecord(wallet)')
  <2>1. \A rec : GoodRecord(rec) => GoodRecord(rec)'
    BY <1>1, GrowRecord
  <2>2. /\ GoodRecord(record)
        /\ wallet' # None => GoodRecord(wallet') /\ DOMAIN wallet'.tiers = DOMAIN record.tiers
    BY DEF IInv, CopiesInv
  <2>3. wallet' # None => GoodRecord(wallet)'
    BY <2>1, <2>2
  <2> QED
    BY <2>1, <2>2, <2>3
<1> QED
  <2>1. ASSUME NEW r \in InFlight PROVE GoodClick(req[r])' /\ DOMAIN req[r].record.tiers = DOMAIN record.tiers
    BY <1>1, ClickFacts, GrowClick
  <2>2. wallet' # None /\ DOMAIN wallet'.tiers = {} => wallet' = NoRecord
    BY DEF IInv, CopiesInv, PageInv
  <2> QED
    BY <1>1, <1>2, <1>3, <2>1, <2>2 DEF IInv, CopiesInv, ListsTypeOK, Versions

LEMMA TurnInv == ASSUME IInv, NEW n \in DOMAIN record.tiers, Turn(n), UNCHANGED deskVars PROVE IInv'
<1>1. /\ page # 0 /\ page' = n /\ report' = None
      /\ fetches' = fetches \cup {record.tiers[n].listRef} /\ crossed' = (crossed \/ fetches # {})
      /\ overtaken' = (overtaken \/ trial # None)
      /\ UNCHANGED <<lists, sealed, record, busy, req, ledger, trial, wallet, stamped, revoked, raced>>
  BY DEF Turn, readLedger
<1>2. CopiesInv' /\ InFlight' = InFlight /\ Grows
  BY <1>1, SameCopies
<1>3. n \in Nat \ {0} /\ record.tiers[n].listRef \in Versions
  BY RecordFacts, AccessConstants DEF IInv, CopiesInv
<1>4. PageInv'
  BY <1>1, <1>2, <1>3 DEF IInv, PageInv, Versions
<1>5. AloneInv'
  BY <1>1, <1>2 DEF IInv, AloneInv
<1>6. LedgerInv'
  BY <1>1, <1>3 DEF LedgerInv
<1>7. DeskInv'
  BY <1>1, <1>2, DeskStays DEF Fresh, deskVars
<1>8. TrialInv'
  <2>1. trial # None => GoodTier(trial)'
    BY <1>1, <1>2, TrialGood
  <2> QED
    BY <1>1, <1>3, <2>1, AccessConstants DEF IInv, TrialInv
<1> QED
  BY <1>2, <1>4, <1>5, <1>6, <1>7, <1>8 DEF IInv

LEMMA RefreshInv == ASSUME IInv, Refresh, UNCHANGED deskVars PROVE IInv'
<1>1. /\ page # 0 /\ fetches = {} /\ fetches' = fetches \cup {record.tiers[page].listRef}
      /\ UNCHANGED <<lists, sealed, record, page, busy, req, ledger, readVars, wallet, stamped, revoked, raced, crossed>>
  BY DEF Refresh, readLedger
<1>2. CopiesInv' /\ InFlight' = InFlight /\ Grows
  BY <1>1, SameCopies
<1>3. record.tiers[page].listRef \in Versions
  BY <1>1, PageFacts
<1>4. PageInv'
  BY <1>1, <1>2, <1>3 DEF IInv, PageInv, Versions
<1>5. AloneInv'
  BY <1>1, <1>2 DEF IInv, AloneInv
<1>6. LedgerInv'
  BY <1>1 DEF LedgerInv
<1>7. DeskInv'
  BY <1>1, <1>2, DeskStays DEF Fresh, deskVars
<1>8. TrialInv'
  BY <1>1, <1>2, TrialStays
<1> QED
  BY <1>2, <1>4, <1>5, <1>6, <1>7, <1>8 DEF IInv

LEMMA FetchedInv == ASSUME IInv, NEW v \in Versions, Fetched(v), UNCHANGED deskVars PROVE IInv'
<1>1. /\ v \in fetches /\ fetches' = fetches \ {v} /\ ledger' \in {lists[v], Unread}
      /\ UNCHANGED <<lists, sealed, record, page, busy, req, readVars, wallet, stamped, revoked, raced, crossed>>
  BY DEF Fetched, listGrantees
<1>2. CopiesInv' /\ InFlight' = InFlight /\ Grows
  BY <1>1, SameCopies
<1>3. lists[v] \subseteq Keys
  BY DEF IInv, CopiesInv, ListsTypeOK, Versions
<1>4. PageInv'
  BY <1>1, <1>2, <1>3 DEF IInv, PageInv, Versions
<1>5. AloneInv'
  BY <1>1, <1>2 DEF IInv, AloneInv
<1>6. LedgerInv'
  BY <1>1 DEF IInv, LedgerInv
<1>7. DeskInv'
  BY <1>1, <1>2, DeskStays DEF Fresh, deskVars
<1>8. TrialInv'
  BY <1>1, <1>2, TrialStays
<1> QED
  BY <1>2, <1>4, <1>5, <1>6, <1>7, <1>8 DEF IInv

\* The node opens a tier to whoever is on its list.
LEMMA OpensToItsList ==
    ASSUME NEW tier, GoodTier(tier), NEW k
    PROVE  MayOpen(k, tier) <=> k \in lists[tier.listRef]
BY DEF MayOpen, GoodTier

\* The page and the record stay as they are while a trial read comes and goes.
LEMMA TrialStep ==
    ASSUME IInv, TrialInv', UNCHANGED deskVars,
           UNCHANGED <<lists, sealed, record, page, busy, req, fetches, ledger, wallet, stamped, revoked, raced, crossed>>
    PROVE  IInv'
<1>1. CopiesInv' /\ InFlight' = InFlight /\ Grows
  BY SameCopies
<1>2. PageInv' /\ AloneInv'
  BY <1>1 DEF IInv, PageInv, AloneInv, Versions
<1>3. LedgerInv'
  BY DEF IInv, LedgerInv
<1>4. DeskInv'
  BY <1>1, DeskStays DEF Fresh, deskVars
<1> QED
  BY <1>1, <1>2, <1>3, <1>4 DEF IInv

LEMMA ReadInv == ASSUME IInv, doRead, UNCHANGED deskVars PROVE IInv'
<1>1. /\ page # 0 /\ trial' = record.tiers[page]
      /\ UNCHANGED <<lists, sealed, record, page, busy, req, fetches, ledger, report, overtaken, wallet, stamped, revoked, raced, crossed>>
  BY DEF doRead
<1>2. Grows
  BY <1>1, GrowsUnchanged DEF IInv, CopiesInv
<1>3. PICK tier : tier = record.tiers[page]
  OBVIOUS
<1>4. GoodTier(tier)' /\ trial' = tier
  BY <1>1, <1>2, <1>3, PageFacts, GrowTier
<1>5. TrialInv'
  <2>1. GoodTier(trial)'
    BY <1>4
  <2> QED
    BY <1>1, <2>1 DEF IInv, TrialInv
<1> QED
  BY <1>1, <1>5, TrialStep

LEMMA ReadBackInv == ASSUME IInv, ReadBack, UNCHANGED deskVars PROVE IInv'
<1>1. /\ trial # None /\ trial' = None /\ report' \in actRead(trial) \cup {None, report}
      /\ UNCHANGED <<lists, sealed, record, page, busy, req, fetches, ledger, overtaken, wallet, stamped, revoked, raced, crossed>>
  BY DEF ReadBack
<1>2. page # 0 /\ report \in {None, "granted", "refused"} /\ report' \in {None, "granted", "refused"}
  BY <1>1 DEF actRead, IInv, TrialInv
<1>3. ASSUME ~raced, ~overtaken, report' = "granted" PROVE Reader \in lists[record.tiers[page].listRef]
  <2>1. report = "granted" \/ MayOpen(Reader, trial)
    BY <1>1, <1>3, AccessConstants DEF actRead
  <2>2. GoodTier(trial) /\ trial = record.tiers[page]
    BY <1>1, <1>3 DEF IInv, TrialInv
  <2>3. CASE report = "granted"
    BY <1>3, <2>3 DEF IInv, TrialInv
  <2>4. CASE MayOpen(Reader, trial)
    BY <2>2, <2>4, OpensToItsList
  <2> QED
    BY <2>1, <2>3, <2>4
<1>4. TrialInv'
  BY <1>1, <1>2, <1>3 DEF IInv, TrialInv
<1> QED
  BY <1>1, <1>4, TrialStep

LEMMA AnchorInv == ASSUME IInv, anchor PROVE IInv'
<1>1. /\ page = 0 /\ sheet # None /\ wallet = None /\ wallet' = record /\ UNCHANGED deskVars
      /\ UNCHANGED <<lists, sealed, record, page, busy, req, fetches, ledger, readVars, stamped, revoked, raced, crossed>>
  BY DEF anchor
<1>2. CopiesInv' /\ InFlight' = InFlight /\ Grows
  BY <1>1, SameCopies
<1>3. InFlight = {}
  BY <1>1 DEF IInv, PageInv
<1>4. PageInv'
  BY <1>1, <1>2 DEF IInv, PageInv, Versions
<1>5. AloneInv'
  BY <1>1, <1>2, <1>3 DEF IInv, AloneInv
<1>6. LedgerInv'
  BY <1>1 DEF IInv, LedgerInv
<1>7. DeskInv'
  BY <1>1, <1>2, DeskStays DEF Fresh
<1>8. TrialInv'
  BY <1>1, <1>2, TrialStays
<1> QED
  BY <1>2, <1>4, <1>5, <1>6, <1>7, <1>8 DEF IInv

LEMMA Anchored ==
    ASSUME NEW w, GoodRecord(w), NEW s, s = [w EXCEPT !.anchor = TRUE]
    PROVE  GoodRecord(s) /\ s.tiers = w.tiers /\ s.anchor = TRUE
<1>1. w \in References
  BY DEF GoodRecord
<1>2. s \in References /\ s.tiers = w.tiers /\ s.envelope = w.envelope /\ s.anchor = TRUE
  BY <1>1 DEF References
<1> QED
  BY <1>2 DEF GoodRecord

LEMMA ConfirmedInv == ASSUME IInv, Confirmed PROVE IInv'
<1>1. /\ wallet # None /\ wallet' = None /\ UNCHANGED deskVars
      /\ UNCHANGED <<lists, sealed, page, busy, req, ledger, readVars, revoked, raced>>
  BY DEF Confirmed
<1>2. CASE UNCHANGED <<record, fetches, crossed>> /\ (stamped' = stamped \/ (stamped' = TRUE /\ record = NoRecord))
  <2>1. CopiesInv' /\ InFlight' = InFlight /\ Grows
    BY <1>1, <1>2, SameCopies
  <2>2. PageInv'
    BY <1>1, <1>2, <2>1 DEF IInv, PageInv, Versions
  <2>3. AloneInv'
    BY <1>1, <1>2, <2>1 DEF IInv, AloneInv
  <2>4. LedgerInv'
    BY <1>1, <1>2 DEF IInv, LedgerInv
  <2>5. DeskInv'
    BY <1>1, <1>2, <2>1, DeskStays DEF Fresh
  <2>6. TrialInv'
    BY <1>1, <1>2, <2>1, TrialStays
  <2> QED
    BY <2>1, <2>2, <2>3, <2>4, <2>5, <2>6 DEF IInv
<1>3. CASE /\ wallet # NoRecord /\ record' = [wallet EXCEPT !.anchor = TRUE] /\ stamped' = TRUE
           /\ IF page = 0 THEN UNCHANGED <<fetches, crossed>>
                          ELSE readLedger(record'.tiers[page].listRef) /\ crossed' = (crossed \/ fetches # {})
  <2>1. GoodRecord(wallet) /\ DOMAIN wallet.tiers = DOMAIN record.tiers /\ DOMAIN record.tiers # {}
    BY <1>1, <1>3 DEF IInv, CopiesInv
  <2>2. PICK s : s = record'
    OBVIOUS
  <2>3. GoodRecord(s) /\ s.tiers = wallet.tiers /\ s.anchor = TRUE
    BY <1>3, <2>1, <2>2, Anchored
  <2>4. Grows
    BY <1>1, GrowsUnchanged DEF IInv, CopiesInv
  <2>5. InFlight' = InFlight
    BY <1>1 DEF InFlight
  <2>6. CopiesInv'
    <3>1. GoodRecord(s)'
      BY <2>3, <2>4, GrowRecord
    <3>2. GoodRecord(record)'
      BY <2>2, <3>1
    <3>3. ASSUME NEW r \in InFlight PROVE GoodClick(req[r])' /\ DOMAIN req[r].record.tiers = DOMAIN record'.tiers
      BY <1>1, <2>1, <2>2, <2>3, <2>4, ClickFacts, GrowClick
    <3> QED
      BY <1>1, <2>5, <3>2, <3>3 DEF IInv, CopiesInv, ListsTypeOK, Versions
  <2>7. PageInv'
    <3>1. fetches' \subseteq Versions /\ crossed' \in BOOLEAN
      <4>1. CASE page = 0
        BY <1>3, <4>1 DEF IInv, PageInv
      <4>2. CASE page # 0
        <5>1. record'.tiers[page].listRef \in Versions
          BY <2>1, <2>2, <2>3, <4>2, PageFacts, RecordFacts
        <5> QED
          BY <1>3, <4>2, <5>1 DEF IInv, PageInv, readLedger
      <4> QED
        BY <4>1, <4>2
    <3>2. page = 0 => fetches' = {}
      BY <1>3 DEF IInv, PageInv
    <3> QED
      BY <1>1, <1>3, <2>1, <2>2, <2>3, <2>5, <3>1, <3>2 DEF IInv, PageInv, Versions
  <2>8. AloneInv'
    <3> SUFFICES ASSUME ~raced PROVE AloneInv'
      BY <1>1 DEF AloneInv
    <3>1. InFlight' = {} /\ wallet = record
      BY <1>1, <2>5 DEF IInv, AloneInv
    <3>2. record'.tiers = record.tiers /\ record'.anchor
      BY <2>2, <2>3, <3>1
    <3> QED
      BY <1>1, <1>3, <3>1, <3>2 DEF IInv, AloneInv
  <2>9. LedgerInv'
    <3>1. CASE page = 0
      BY <1>1, <1>3, <3>1 DEF IInv, LedgerInv, PageInv
    <3>2. CASE page # 0
      BY <1>1, <1>3, <3>2 DEF LedgerInv, readLedger
    <3> QED
      BY <3>1, <3>2
  <2>10. DeskInv'
    BY <1>1, <2>1, <2>2, <2>3, <2>4, DeskStays DEF Fresh
  <2>11. TrialInv'
    <3>1. ~raced => record'.tiers = record.tiers
      BY <1>1, <2>2, <2>3 DEF IInv, AloneInv
    <3> QED
      BY <1>1, <2>4, <3>1, TrialStays
  <2> QED
    BY <2>6, <2>7, <2>8, <2>9, <2>10, <2>11 DEF IInv
<1>4. CASE /\ wallet = NoRecord /\ record' = record /\ stamped' = TRUE
           /\ IF page = 0 THEN UNCHANGED <<fetches, crossed>>
                          ELSE readLedger(record'.tiers[page].listRef) /\ crossed' = (crossed \/ fetches # {})
  <2>1. DOMAIN record.tiers = {}
    BY <1>1, <1>4 DEF IInv, CopiesInv, NoRecord
  <2>2. record = NoRecord /\ page = 0
    BY <2>1 DEF IInv, PageInv
  <2> QED
    BY <1>2, <1>4, <2>2
<1> QED
  BY <1>2, <1>3, <1>4 DEF Confirmed

LEMMA LeaveInv == ASSUME IInv, Leave PROVE IInv'
<1>1. /\ page = 0 /\ record # NoRecord /\ ~heard /\ job.at = "closed" /\ phase' = "idle"
      /\ page' = CHOOSE n \in DOMAIN record.tiers : \A t \in DOMAIN record.tiers : n <= t
      /\ fetches' = fetches \cup {record.tiers[page'].listRef}
      /\ UNCHANGED <<lists, sealed, record, busy, req, ledger, readVars, wallet, stamped, revoked, raced, crossed>>
      /\ UNCHANGED <<job, stream, heard>>
  BY DEF Leave, Open, readLedger
<1>2. page' \in DOMAIN record.tiers
  <2>1. DOMAIN record.tiers # {} /\ DOMAIN record.tiers \subseteq Nat
    BY <1>1, RecordFacts, AccessConstants DEF IInv, PageInv, CopiesInv
  <2> QED
    BY <1>1, <2>1, Least
<1>3. page' # 0 /\ record.tiers[page'].listRef \in Versions
  BY <1>2, RecordFacts, AccessConstants DEF IInv, CopiesInv
<1>4. fetches = {} /\ ledger = Unread /\ report = None /\ trial = None /\ InFlight = {}
  BY <1>1 DEF IInv, PageInv, TrialInv
<1>5. CopiesInv' /\ InFlight' = InFlight /\ Grows
  BY <1>1, SameCopies
<1>6. PageInv'
  BY <1>1, <1>2, <1>3, <1>4, <1>5 DEF IInv, PageInv, Versions
<1>7. AloneInv'
  BY <1>1, <1>4, <1>5 DEF IInv, AloneInv
<1>8. LedgerInv'
  BY <1>1, <1>3, <1>4 DEF LedgerInv
<1>9. DeskInv'
  <2>1. \A n \in DOMAIN job.stored : GoodTier(job.stored[n])'
    BY <1>1, <1>5, GrowTier DEF IInv, DeskInv
  <2>2. stream = <<>>
    BY <1>1 DEF IInv, DeskInv
  <2> QED
    BY <1>1, <2>1, <2>2 DEF IInv, DeskInv
<1>10. TrialInv'
  BY <1>1, <1>3, <1>4, AccessConstants DEF IInv, TrialInv, readVars
<1> QED
  BY <1>5, <1>6, <1>7, <1>8, <1>9, <1>10 DEF IInv

LEMMA PageNextInv == ASSUME IInv, PageNext, UNCHANGED deskVars PROVE IInv'
<1>1. ASSUME NEW r \in Requests, NEW action \in {"grant", "revoke"}, NEW k \in Keys, patch(r, action, k) PROVE IInv'
  BY <1>1, PatchClickInv
<1>2. ASSUME NEW r \in Requests, Patch(r) \/ Reseal(r) \/ Answer(r) \/ Fail(r) PROVE IInv'
  BY <1>2, PatchInv, ResealInv, AnswerInv, FailInv
<1>3. CASE Refresh \/ doRead \/ ReadBack
  BY <1>3, RefreshInv, ReadInv, ReadBackInv
<1>4. ASSUME NEW n \in DOMAIN record.tiers, Turn(n) PROVE IInv'
  BY <1>4, TurnInv
<1>5. ASSUME NEW v \in Versions, Fetched(v) PROVE IInv'
  BY <1>5, FetchedInv
<1> QED
  BY <1>1, <1>2, <1>3, <1>4, <1>5 DEF PageNext
----------------------------------------------------------------------------
(* Issuing. *)

\* Nothing on page 07 changes while page 05 and the server work.
LEMMA DeskOnly ==
    ASSUME IInv, UNCHANGED pageVars
    PROVE  CopiesInv' /\ PageInv' /\ AloneInv' /\ TrialInv' /\ LedgerInv' /\ Grows
<1>1. /\ UNCHANGED <<lists, sealed, req>>
      /\ UNCHANGED <<record, page, busy, fetches, ledger, readVars, wallet, stamped, revoked, raced, crossed>>
  BY DEF pageVars
<1>2. Grows
  BY <1>1, GrowsUnchanged DEF IInv, CopiesInv
<1>3. InFlight' = InFlight /\ DOMAIN req' \subseteq Requests
  BY <1>1 DEF InFlight, IInv, CopiesInv
<1>4. \A r \in InFlight : GoodClick(req[r])' /\ req'[r].record = req[r].record
  BY <1>1, <1>2, ClickFacts, GrowClick
<1> QED
  BY <1>1, <1>2, <1>3, <1>4, BehindPage

LEMMA ClosedJob == Closed \in Job /\ Closed.at = "closed" /\ DOMAIN Closed.stored = {}
<1>1. <<>> \in [{} -> Receipts]
  OBVIOUS
<1>2. <<>> \in Mappings(Receipts)
  BY <1>1 DEF Mappings
<1> QED
  BY <1>2 DEF Closed, Job

LEMMA RunInv == ASSUME IInv, run PROVE IInv'
<1>1. /\ page = 0 /\ record = NoRecord /\ job.at = "closed" /\ ~heard
      /\ phase' = "signing" /\ sheet' = None /\ wallet' = None /\ stamped' = FALSE
      /\ UNCHANGED <<job, stream, heard, lists, sealed, record, page, busy, req, fetches, ledger, readVars, revoked, raced, crossed>>
  BY DEF run
<1>2. DOMAIN record.tiers = {} /\ stream = <<>>
  BY <1>1, NothingKept DEF IInv, DeskInv
<1>3. CopiesInv' /\ InFlight' = InFlight /\ Grows
  BY <1>1, SameCopies
<1>4. PageInv' /\ AloneInv'
  BY <1>1, <1>3 DEF IInv, PageInv, AloneInv, Versions
<1>5. LedgerInv'
  BY <1>1 DEF IInv, LedgerInv
<1>6. TrialInv'
  BY <1>1, <1>3, TrialStays
<1>7. DeskInv'
  <2>1. \A n \in DOMAIN job.stored : GoodTier(job.stored[n])'
    BY <1>1, <1>3, GrowTier DEF IInv, DeskInv
  <2> QED
    BY <1>1, <1>2, <2>1 DEF IInv, DeskInv, Fresh
<1> QED
  BY <1>3, <1>4, <1>5, <1>6, <1>7 DEF IInv

LEMMA UnsignedInv == ASSUME IInv, Unsigned PROVE IInv'
<1>1. CopiesInv' /\ PageInv' /\ AloneInv' /\ TrialInv' /\ LedgerInv' /\ Grows
  BY DeskOnly DEF Unsigned
<1>2. DeskInv'
  <2>1. job' = job /\ \A n \in DOMAIN job.stored : GoodTier(job.stored[n])'
    BY <1>1, GrowTier DEF IInv, DeskInv, Unsigned
  <2>2. stream = <<>>
    BY DEF Unsigned, IInv, DeskInv
  <2> QED
    BY <2>1, <2>2 DEF Unsigned, IInv, DeskInv, Fresh, pageVars
<1> QED
  BY <1>1, <1>2 DEF IInv

LEMMA SignedInv == ASSUME IInv, Signed PROVE IInv'
<1>1. CopiesInv' /\ PageInv' /\ AloneInv' /\ TrialInv' /\ LedgerInv' /\ Grows
  BY DeskOnly DEF Signed
<1>2. PICK names \in {{}, {Reader}} : job' = [Closed EXCEPT !.at = "posted", !.named = names]
  BY DEF Signed
<1>3. /\ phase = "signing" /\ phase' = "collecting" /\ heard' = TRUE /\ stream' = stream
      /\ UNCHANGED <<sheet, pageVars>>
  BY DEF Signed
<1>4. stream = <<>> /\ DOMAIN record.tiers = {} /\ page = 0
  BY <1>3 DEF IInv, DeskInv, PageInv
<1>5. /\ job' \in Job /\ job'.at = "posted" /\ job'.left = Tiers /\ DOMAIN job'.stored = {}
  BY <1>2, ClosedJob, AccessConstants DEF Closed, Job
<1>6. DeskInv'
  BY <1>3, <1>4, <1>5, AccessConstants DEF IInv, DeskInv, Fresh, pageVars
<1> QED
  BY <1>1, <1>6 DEF IInv

\* A run under way has sent no record yet; the one it sends is the last event.
LEMMA Sent ==
    ASSUME IInv, job.at # "closed", NEW event \in Event, send(event)
    PROVE  /\ stream' \in Seq(Event) /\ (~heard => stream' = <<>>)
           /\ \A i \in 1..Len(stream') :
                 stream'[i].type = "issued" => i = Len(stream') /\ stream'[i] = event
<1>1. /\ stream \in Seq(Event) /\ (~heard => stream = <<>>) /\ \A i \in 1..Len(stream) : stream[i].type # "issued"
  BY DEF IInv, DeskInv
<1>2. CASE heard
  <2>1. stream' = Append(stream, event)
    BY <1>2 DEF send
  <2>2. /\ stream' \in Seq(Event) /\ Len(stream') = Len(stream) + 1 /\ Len(stream) \in Nat
        /\ \A i \in 1..Len(stream') : stream'[i] = IF i = Len(stream) + 1 THEN event ELSE stream[i]
    BY <1>1, <2>1
  <2> QED
    BY <1>1, <1>2, <2>2
<1>3. CASE ~heard
  <2>1. stream' = <<>>
    BY <1>1, <1>3 DEF send
  <2> QED
    BY <2>1
<1> QED
  BY <1>2, <1>3

\* The server goes on, ends, or sends a line.
LEMMA ServerStep ==
    ASSUME IInv, UNCHANGED <<phase, heard, sheet>>, UNCHANGED pageVars, job.at # "closed",
           job' \in Job, \A n \in DOMAIN job'.stored : GoodTier(job'.stored[n]),
           job'.at \in {"posted", "collecting", "connecting", "sealing"} => job'.left # {},
           stream' \in Seq(Event) /\ (~heard => stream' = <<>>),
           \A i \in 1..Len(stream') : stream'[i].type = "issued" =>
               i = Len(stream') /\ job'.at = "closed" /\ GoodRecord(stream'[i].record)
    PROVE  IInv'
<1>1. CopiesInv' /\ PageInv' /\ AloneInv' /\ TrialInv' /\ LedgerInv' /\ Grows
  BY DeskOnly
<1>2. DOMAIN record.tiers = {} /\ phase # "signing" /\ Fresh'
  BY DEF IInv, DeskInv, Fresh, pageVars
<1>3. \A rec : GoodRecord(rec) => GoodRecord(rec)'
  BY <1>1, GrowRecord
<1>4. \A tier : GoodTier(tier) => GoodTier(tier)'
  BY <1>1, GrowTier
<1>5. \A n \in DOMAIN job'.stored : GoodTier(job.stored[n])'
  BY <1>4
<1>6. \A i \in 1..Len(stream') : stream'[i].type = "issued" => GoodRecord(stream[i].record)'
  BY <1>3
<1>7. DeskInv'
  BY <1>2, <1>5, <1>6 DEF IInv, DeskInv, pageVars
<1> QED
  BY <1>1, <1>7 DEF IInv

LEMMA EndedJob ==
    ASSUME IInv, UNCHANGED <<phase, heard, sheet>>, UNCHANGED pageVars, job.at # "closed", job' = Closed,
           NEW event \in Event, event.type = "issued" => GoodRecord(event.record),
           send(event) \/ (~heard /\ UNCHANGED stream)
    PROVE  IInv'
<1>1. job' \in Job /\ job'.at = "closed" /\ DOMAIN job'.stored = {}
  BY ClosedJob
<1>2. CASE send(event)
  BY <1>1, <1>2, Sent, ServerStep
<1>3. CASE ~heard /\ UNCHANGED stream
  <2>1. stream' = <<>>
    BY <1>3 DEF IInv, DeskInv
  <2> QED
    BY <1>1, <2>1, ServerStep
<1> QED
  BY <1>2, <1>3

LEMMA GoesOn ==
    ASSUME IInv, UNCHANGED <<phase, heard, sheet, stream>>, UNCHANGED pageVars, job.at # "closed",
           job' \in Job, job'.stored = job.stored,
           job'.at \in {"posted", "collecting", "connecting", "sealing"} => job'.left # {}
    PROVE  IInv'
<1>1. /\ stream \in Seq(Event) /\ (~heard => stream = <<>>)
      /\ \A i \in 1..Len(stream) : stream[i].type # "issued"
      /\ \A n \in DOMAIN job.stored : GoodTier(job.stored[n])
  BY DEF IInv, DeskInv
<1> QED
  BY <1>1, ServerStep

LEMMA AdmitInv == ASSUME IInv, Admit PROVE IInv'
<1>1. job.at = "posted" /\ job \in Job /\ job.left # {} /\ UNCHANGED <<phase, heard, sheet, pageVars>>
  BY DEF Admit, IInv, DeskInv
<1>2. CASE send([type |-> "refusal"]) /\ job' = Closed
  <2> DEFINE event == [type |-> "refusal"]
  <2>1. event \in Event /\ event.type # "issued" /\ send(event)
    BY <1>2 DEF Event
  <2> HIDE DEF event
  <2> QED
    BY <1>1, <1>2, <2>1, EndedJob
<1>3. CASE job' = [job EXCEPT !.at = "collecting"] /\ UNCHANGED stream
  <2>1. job' \in Job /\ job'.stored = job.stored /\ job'.left = job.left
    BY <1>1, <1>3 DEF Job
  <2> QED
    BY <1>1, <1>3, <2>1, GoesOn
<1> QED
  BY <1>2, <1>3 DEF Admit

LEMMA CollectInv == ASSUME IInv, Collect PROVE IInv'
<1>1. job.at = "collecting" /\ job \in Job /\ job.left # {} /\ UNCHANGED <<phase, heard, sheet, pageVars>>
  BY DEF Collect, IInv, DeskInv
<1>2. CASE thrown /\ job' = Closed
  <2> DEFINE event == [type |-> "error"]
  <2>1. event \in Event /\ event.type # "issued" /\ send(event)
    BY <1>2 DEF Event, thrown
  <2> HIDE DEF event
  <2> QED
    BY <1>1, <1>2, <2>1, EndedJob
<1>3. CASE send([type |-> "claims"]) /\ job' = [job EXCEPT !.at = "connecting"]
  <2> DEFINE event == [type |-> "claims"]
  <2>1. event \in Event /\ event.type # "issued"
    BY DEF Event
  <2>2. job' \in Job /\ job'.stored = job.stored /\ job'.left = job.left
    BY <1>1, <1>3 DEF Job
  <2>3. \A n \in DOMAIN job.stored : GoodTier(job.stored[n])
    BY DEF IInv, DeskInv
  <2> HIDE DEF event
  <2>4. send(event)
    BY <1>3 DEF event
  <2>5. /\ stream' \in Seq(Event) /\ (~heard => stream' = <<>>)
        /\ \A i \in 1..Len(stream') : stream'[i].type # "issued"
    BY <1>1, <2>1, <2>4, Sent
  <2> QED
    BY <1>1, <2>2, <2>3, <2>5, ServerStep
<1> QED
  BY <1>2, <1>3 DEF Collect

LEMMA ConnectInv == ASSUME IInv, Connect \/ SealFails PROVE IInv'
<1>1. /\ job.at \in {"connecting", "sealing"} /\ job \in Job /\ job.left # {}
      /\ UNCHANGED <<phase, stream, heard, sheet, pageVars>>
  BY DEF Connect, SealFails, IInv, DeskInv
<1>2. \/ job' = [job EXCEPT !.at = "issuing", !.failed = TRUE]
      \/ \E known \in BOOLEAN : job' = [job EXCEPT !.at = "sealing", !.publisher = known]
  BY DEF Connect, SealFails
<1>3. job' \in Job /\ job'.stored = job.stored /\ job'.left = job.left
  BY <1>1, <1>2 DEF Job
<1> QED
  BY <1>1, <1>3, GoesOn

LEMMA SealTierInv == ASSUME IInv, SealTier PROVE IInv'
<1> DEFINE n == CHOOSE t \in job.left : \A other \in job.left : t <= other
           tier == [swarmRef |-> newest(sealed'), history |-> newest(lists'),
                    listRef |-> IF seeded = {} THEN NoList ELSE newest(lists')]
<1>1. /\ job.at = "sealing" /\ lists' = Append(lists, seeded) /\ sealed' = Append(sealed, newest(lists'))
      /\ job' = [job EXCEPT !.left = @ \ {n}, !.at = IF job.left = {n} THEN "issuing" ELSE @,
                            !.stored = IF job.publisher THEN with(@, n, tier) ELSE @]
      /\ UNCHANGED <<phase, stream, heard, sheet>>
      /\ UNCHANGED <<record, page, busy, req, fetches, ledger, readVars, wallet, stamped, revoked, raced, crossed>>
  BY DEF SealTier, createList, upload
<1>2. job \in Job /\ job.left # {} /\ job.left \subseteq Tiers
  BY <1>1 DEF IInv, DeskInv, Job
<1>3. n \in job.left
  <2>1. job.left \subseteq Nat
    BY <1>2, AccessConstants
  <2> QED
    BY <1>2, <2>1, Least
<1>4. seeded \in SUBSET Keys /\ (job.publisher => seeded # {})
  BY <1>2, DeskConstants DEF seeded, Job
<1>5. ListsTypeOK
  BY DEF IInv, CopiesInv
<1>6. /\ lists' \in Seq(SUBSET Keys) /\ newest(lists') \in DOMAIN lists' /\ newest(lists') \in Nat
      /\ \A v \in Versions : v \in DOMAIN lists' /\ lists'[v] = lists[v]
      /\ sealed \in Seq(DOMAIN lists')
  BY <1>1, <1>4, <1>5, GrowsList
<1>7. /\ sealed' \in Seq(DOMAIN lists') /\ newest(sealed') \in DOMAIN sealed' /\ newest(sealed') \in Nat
      /\ sealed'[newest(sealed')] = newest(lists')
      /\ \A o \in Objects : o \in DOMAIN sealed' /\ sealed'[o] = sealed[o]
  BY <1>1, <1>6, GrowsObject
<1>8. Grows
  BY <1>6, <1>7 DEF Grows
<1>9. PICK kept : kept = tier
  OBVIOUS
<1>10. kept \in Receipts /\ (job.publisher => GoodTier(kept)')
  <2>1. tier \in Receipts
    BY <1>6, <1>7 DEF Receipts
  <2>2. /\ kept.swarmRef = newest(sealed') /\ kept.history = newest(lists')
        /\ job.publisher => kept.listRef = newest(lists')
    BY <1>4, <1>9
  <2> QED
    BY <1>6, <1>7, <1>9, <2>1, <2>2 DEF GoodTier, Versions, Objects
<1>11. CopiesInv' /\ PageInv' /\ AloneInv' /\ TrialInv' /\ LedgerInv'
  <2>1. InFlight' = InFlight /\ DOMAIN req' \subseteq Requests
    BY <1>1 DEF InFlight, IInv, CopiesInv
  <2>2. \A r \in InFlight : GoodClick(req[r])' /\ req'[r].record = req[r].record
    BY <1>1, <1>8, ClickFacts, GrowClick
  <2> QED
    BY <1>1, <1>8, <2>1, <2>2, BehindPage
<1> HIDE DEF tier, n
<1>12. job' = [job EXCEPT !.left = @ \ {n}, !.at = IF job.left = {n} THEN "issuing" ELSE @,
                          !.stored = IF job.publisher THEN with(@, n, kept) ELSE @]
  BY <1>1, <1>9
<1>13. with(job.stored, n, kept) \in Mappings(Receipts)
  <2>1. PICK D \in SUBSET Tiers : job.stored \in [D -> Receipts]
    BY <1>2 DEF Job, Mappings
  <2>2. with(job.stored, n, kept) \in [D \cup {n} -> Receipts]
    BY <1>10, <2>1 DEF with
  <2>3. D \cup {n} \in SUBSET Tiers
    BY <1>2, <1>3
  <2> QED
    BY <2>2, <2>3 DEF Mappings
<1>14. /\ job' \in Job /\ job'.at \in {"sealing", "issuing"} /\ (job'.at = "sealing" => job'.left # {})
       /\ job'.stored = IF job.publisher THEN with(job.stored, n, kept) ELSE job.stored
  <2>1. job'.at = (IF job.left = {n} THEN "issuing" ELSE "sealing") /\ job'.left = job.left \ {n}
    BY <1>1, <1>2, <1>12 DEF Job
  <2>2. job'.stored = IF job.publisher THEN with(job.stored, n, kept) ELSE job.stored
    BY <1>2, <1>12 DEF Job
  <2>3. job'.stored \in Mappings(Receipts)
    BY <1>2, <1>13, <2>2 DEF Job
  <2>4. job' \in Job
    BY <1>2, <1>12, <2>1, <2>3 DEF Job
  <2> QED
    BY <1>2, <1>3, <2>1, <2>2, <2>4
<1>15. \A t \in DOMAIN job'.stored : GoodTier(job.stored[t])'
  <2>1. \A t \in DOMAIN job.stored : GoodTier(job.stored[t])
    BY DEF IInv, DeskInv
  <2>2. ASSUME NEW t \in DOMAIN job'.stored, NEW one, one = job'.stored[t] PROVE GoodTier(one)'
    <3>1. (one = kept /\ job.publisher) \/ (t \in DOMAIN job.stored /\ one = job.stored[t])
      BY <1>14, <2>2 DEF with
    <3>2. CASE one = kept /\ job.publisher
      BY <1>10, <3>2
    <3>3. CASE t \in DOMAIN job.stored /\ one = job.stored[t]
      <4>1. GoodTier(one)
        BY <2>1, <3>3
      <4> QED
        BY <1>8, <4>1, GrowTier
    <3> QED
      BY <3>1, <3>2, <3>3
  <2> QED
    BY <2>2
<1>16. DeskInv'
  <2>1. /\ DOMAIN record.tiers = {} /\ phase # "signing" /\ stream \in Seq(Event) /\ heard \in BOOLEAN
        /\ (~heard => stream = <<>>) /\ (page # 0 => ~heard)
        /\ \A i \in 1..Len(stream) : stream[i].type # "issued"
        /\ Fresh'
    BY <1>1 DEF IInv, DeskInv, Fresh
  <2> QED
    BY <1>1, <1>14, <1>15, <2>1 DEF DeskInv
<1> QED
  BY <1>11, <1>16 DEF IInv

LEMMA IssueInv == ASSUME IInv, Issue PROVE IInv'
<1> DEFINE rec == [tiers |-> job.stored, envelope |-> named, anchor |-> FALSE]
           event == [type |-> "issued", record |-> rec]
<1>1. /\ job.at = "issuing" /\ send(event) /\ job' = Closed /\ job \in Job
      /\ UNCHANGED <<phase, heard, sheet, pageVars>>
      /\ \A n \in DOMAIN job.stored : GoodTier(job.stored[n])
  BY DEF Issue, IInv, DeskInv
<1>2. PICK D \in SUBSET Tiers : job.stored \in [D -> Receipts]
  BY <1>1 DEF Job, Mappings
<1>3. named \in Mappings(Places) /\ \A n \in DOMAIN named : n \in D /\ named[n] = coordinates(job.stored[n])
  <2>1. CASE job.failed
    <3>1. named = <<>>
      BY <2>1 DEF named
    <3>2. <<>> \in [{} -> Places]
      OBVIOUS
    <3> QED
      BY <3>1, <3>2 DEF Mappings
  <2>2. CASE ~job.failed
    <3>1. named = [n \in D |-> coordinates(job.stored[n])]
      BY <1>2, <2>2 DEF named
    <3>2. named \in [D -> Places]
      BY <1>2, <3>1 DEF coordinates, Places, Receipts
    <3> QED
      BY <3>1, <3>2 DEF Mappings
  <2> QED
    BY <2>1, <2>2
<1>4. GoodRecord(rec)
  <2>1. rec \in References
    BY <1>1, <1>3 DEF References, Job
  <2>2. rec.tiers = job.stored /\ rec.envelope = named /\ DOMAIN rec.tiers = D
    BY <1>2
  <2> HIDE DEF rec
  <2> QED
    BY <1>1, <1>2, <1>3, <2>1, <2>2 DEF GoodRecord
<1> HIDE DEF rec
<1>5. event \in Event /\ event.record = rec
  BY <1>4 DEF Event, GoodRecord
<1> HIDE DEF event
<1> QED
  BY <1>1, <1>4, <1>5, EndedJob

LEMMA AbandonedInv == ASSUME IInv, Abandoned PROVE IInv'
<1>1. job.at # "closed" /\ ~heard /\ job' = Closed /\ UNCHANGED <<phase, stream, heard, sheet, pageVars>>
  BY DEF Abandoned
<1>2. stream = <<>>
  BY <1>1 DEF IInv, DeskInv
<1> QED
  BY <1>1, <1>2, ClosedJob, ServerStep

\* What is left of the stream once a line was read.
LEMMA TailFacts ==
    ASSUME IInv, stream # <<>>
    PROVE  /\ Tail(stream) \in Seq(Event) /\ Head(stream) = stream[1] /\ Head(stream) \in Event
           /\ Len(stream) \in Nat /\ Len(stream) >= 1 /\ Len(Tail(stream)) = Len(stream) - 1
           /\ \A i \in 1..Len(Tail(stream)) : Tail(stream)[i] = stream[i + 1]
           /\ Head(stream).type = "issued" =>
                 /\ Tail(stream) = <<>> /\ job.at = "closed" /\ DOMAIN record.tiers = {} /\ Fresh
                 /\ GoodRecord(Head(stream).record)
<1>1. stream \in Seq(Event)
  BY DEF IInv, DeskInv
<1>2. /\ Tail(stream) \in Seq(Event) /\ Head(stream) = stream[1] /\ Head(stream) \in Event
      /\ Len(stream) \in Nat /\ Len(stream) >= 1 /\ Len(Tail(stream)) = Len(stream) - 1
      /\ \A i \in 1..Len(Tail(stream)) : Tail(stream)[i] = stream[i + 1]
  BY <1>1
<1>3. ASSUME Head(stream).type = "issued"
      PROVE  1 = Len(stream) /\ job.at = "closed" /\ DOMAIN record.tiers = {} /\ Fresh /\ GoodRecord(Head(stream).record)
  <2>1. 1 \in 1..Len(stream) /\ stream[1].type = "issued"
    BY <1>2, <1>3
  <2> QED
    BY <1>2, <2>1 DEF IInv, DeskInv
<1>4. 1 = Len(stream) => Tail(stream) = <<>>
  <2>1. PICK rest : rest = Tail(stream)
    OBVIOUS
  <2>2. rest \in Seq(Event) /\ Len(rest) = Len(stream) - 1
    BY <1>2, <2>1
  <2>3. rest # <<>> => Len(rest) \in Nat \ {0}
    BY <2>2, EmptySeq
  <2> QED
    BY <1>2, <2>1, <2>2, <2>3
<1> QED
  BY <1>2, <1>3, <1>4

LEMMA ReadLineInv == ASSUME IInv, Read PROVE IInv'
<1>1. /\ heard /\ stream # <<>> /\ phase' \in {"sealing", "refused"} /\ stream' = Tail(stream)
      /\ UNCHANGED <<job, heard, sheet, pageVars>>
  BY DEF Read
<1>2. CopiesInv' /\ PageInv' /\ AloneInv' /\ TrialInv' /\ LedgerInv' /\ Grows
  BY <1>1, DeskOnly
<1>3. \A n \in DOMAIN job.stored : GoodTier(job.stored[n])'
  BY <1>1, <1>2, GrowTier DEF IInv, DeskInv
<1>4. ASSUME NEW i \in 1..Len(stream'), stream'[i].type = "issued"
      PROVE  i = Len(stream') /\ job.at = "closed" /\ DOMAIN record.tiers = {} /\ Fresh /\ GoodRecord(stream[i].record)'
  <2>1. i + 1 \in 1..Len(stream) /\ stream'[i] = stream[i + 1] /\ Len(stream') = Len(stream) - 1
    BY <1>1, TailFacts
  <2>2. /\ i + 1 = Len(stream) /\ job.at = "closed" /\ DOMAIN record.tiers = {} /\ Fresh
        /\ GoodRecord(stream[i + 1].record)
    BY <1>4, <2>1 DEF IInv, DeskInv
  <2>3. PICK rec : rec = stream[i + 1].record
    OBVIOUS
  <2>4. GoodRecord(rec)'
    BY <1>2, <2>2, <2>3, GrowRecord
  <2> QED
    BY <2>1, <2>2, <2>3, <2>4, TailFacts
<1>5. DeskInv'
  <2>1. stream' \in Seq(Event) /\ page = 0
    BY <1>1, TailFacts DEF IInv, DeskInv
  <2> QED
    BY <1>1, <1>3, <1>4, <2>1 DEF IInv, DeskInv, Fresh, pageVars
<1> QED
  BY <1>2, <1>5 DEF IInv

LEMMA IssuedInv == ASSUME IInv, Issued PROVE IInv'
<1>1. /\ heard /\ stream # <<>> /\ Head(stream).type = "issued" /\ phase' = "done"
      /\ record' = IF Head(stream).record.tiers = <<>> THEN record ELSE Head(stream).record
      /\ stream' = Tail(stream)
      /\ UNCHANGED <<job, heard>>
      /\ UNCHANGED <<lists, sealed, page, busy, req, fetches, ledger, readVars, wallet, stamped, revoked, raced, crossed>>
  BY DEF Issued
<1>2. /\ stream' = <<>> /\ job.at = "closed" /\ DOMAIN record.tiers = {} /\ Fresh /\ GoodRecord(Head(stream).record)
  BY <1>1, TailFacts
<1>3. /\ page = 0 /\ fetches = {} /\ ledger = Unread /\ InFlight = {}
      /\ revoked = {} /\ wallet = None /\ ~stamped /\ record = NoRecord
  BY <1>1, <1>2 DEF IInv, DeskInv, PageInv, Fresh
<1>4. Grows
  BY <1>1, GrowsUnchanged DEF IInv, CopiesInv
<1>5. InFlight' = {}
  BY <1>1, <1>3 DEF InFlight
<1>6. PICK rec : rec = record'
  OBVIOUS
<1>7. GoodRecord(rec) /\ (DOMAIN rec.tiers = {} => rec = NoRecord)
  <2>1. CASE rec = record
    BY <1>3, <2>1 DEF IInv, CopiesInv
  <2>2. CASE rec = Head(stream).record /\ rec.tiers # <<>>
    <3>1. GoodRecord(rec)
      BY <1>2, <2>2
    <3>2. DOMAIN rec.tiers # {}
      <4>1. rec.tiers \in [DOMAIN rec.tiers -> Receipts]
        BY <3>1, RecordFacts
      <4>2. \A f : f \in [{} -> Receipts] => f = <<>>
        OBVIOUS
      <4> QED
        BY <2>2, <4>1, <4>2
    <3> QED
      BY <3>1, <3>2
  <2> QED
    BY <1>1, <1>6, <2>1, <2>2
<1>8. CopiesInv'
  <2>1. GoodRecord(rec)'
    BY <1>4, <1>7, GrowRecord
  <2>2. GoodRecord(record)'
    BY <1>6, <2>1
  <2> QED
    BY <1>1, <1>3, <1>5, <2>2 DEF IInv, CopiesInv, ListsTypeOK, Versions
<1>9. PageInv'
  BY <1>1, <1>3, <1>5, <1>6, <1>7 DEF IInv, PageInv, Versions
<1>10. AloneInv'
  BY <1>1, <1>3, <1>5 DEF AloneInv
<1>11. LedgerInv'
  BY <1>1, <1>3 DEF LedgerInv
<1>12. DeskInv'
  <2>1. \A n \in DOMAIN job.stored : GoodTier(job.stored[n])'
    BY <1>1, <1>4, GrowTier DEF IInv, DeskInv
  <2>2. stream' \in Seq(Event) /\ 1..Len(stream') = {}
    BY <1>2
  <2> QED
    BY <1>1, <1>2, <1>3, <2>1, <2>2 DEF IInv, DeskInv
<1>13. TrialInv'
  BY <1>1, <1>3, <1>4, TrialStays
<1> QED
  BY <1>8, <1>9, <1>10, <1>11, <1>12, <1>13 DEF IInv

LEMMA HangUpInv == ASSUME IInv, Ended \/ Broken PROVE IInv'
<1>1. /\ heard' = FALSE /\ stream' = <<>> /\ (phase' = phase \/ phase' = "refused")
      /\ UNCHANGED <<job, sheet, pageVars>>
  BY DEF Ended, Broken
<1>2. CopiesInv' /\ PageInv' /\ AloneInv' /\ TrialInv' /\ LedgerInv' /\ Grows
  BY <1>1, DeskOnly
<1>3. \A n \in DOMAIN job.stored : GoodTier(job.stored[n])'
  BY <1>1, <1>2, GrowTier DEF IInv, DeskInv
<1>4. stream' \in Seq(Event) /\ 1..Len(stream') = {}
  BY <1>1
<1>5. DeskInv'
  BY <1>1, <1>3, <1>4 DEF IInv, DeskInv, Fresh, pageVars
<1> QED
  BY <1>2, <1>5 DEF IInv

LEMMA StutterInv == ASSUME IInv, UNCHANGED vars PROVE IInv'
<1>1. CopiesInv' /\ PageInv' /\ AloneInv' /\ TrialInv' /\ LedgerInv' /\ Grows
  BY DeskOnly DEF vars
<1>2. DeskInv'
  BY <1>1, DeskStays DEF vars, Fresh, deskVars, pageVars
<1> QED
  BY <1>1, <1>2 DEF IInv

LEMMA NextInv == ASSUME IInv, [Next]_vars PROVE IInv'
<1>1. CASE run \/ Unsigned
  BY <1>1, RunInv, UnsignedInv
<1>2. CASE Signed
  BY <1>2, SignedInv
<1>3. CASE Server
  BY <1>3, AdmitInv, CollectInv, ConnectInv, SealTierInv, IssueInv DEF Server
<1>4. CASE Abandoned
  BY <1>4, AbandonedInv
<1>5. CASE Read
  BY <1>5, ReadLineInv
<1>6. CASE Issued
  BY <1>6, IssuedInv
<1>7. CASE Ended \/ Broken
  BY <1>7, HangUpInv
<1>8. CASE Leave
  BY <1>8, LeaveInv
<1>9. CASE PageNext /\ UNCHANGED deskVars
  BY <1>9, PageNextInv
<1>10. CASE anchor \/ Confirmed
  BY <1>10, AnchorInv, ConfirmedInv
<1>11. CASE UNCHANGED vars
  BY <1>11, StutterInv
<1> QED
  BY <1>1, <1>2, <1>3, <1>4, <1>5, <1>6, <1>7, <1>8, <1>9, <1>10, <1>11 DEF Next

LEMMA Invariant == Spec => []IInv
<1>1. DeskInit => IInv
  BY InitInv
<1>2. IInv /\ [Next]_vars => IInv'
  BY NextInv
<1> QED
  BY <1>1, <1>2, PTL DEF Spec
----------------------------------------------------------------------------

\* What the browser keeps and every request carries are complete coordinates of
\* content the node holds: seal, patch and reseal answer with what the next
\* call needs (app/src/lib/server/swarm.ts).
THEOREM TypeCorrect == Spec => []TypeOK
<1>1. IInv => TypeOK
  <2> SUFFICES ASSUME IInv PROVE TypeOK
    OBVIOUS
  <2>1. \A tier : GoodTier(tier) => tier \in SealReceipt
    BY DEF GoodTier, SealReceipt, Receipts
  <2>2. ASSUME NEW n \in DOMAIN record.tiers
        PROVE  /\ n \in Tiers /\ record.tiers[n] \in SealReceipt
               /\ sealed[record.tiers[n].swarmRef] = record.tiers[n].history
    <3>1. GoodRecord(record)
      BY DEF IInv, CopiesInv
    <3>2. n \in Tiers /\ GoodTier(record.tiers[n])
      BY <3>1, RecordFacts DEF GoodRecord
    <3> QED
      BY <2>1, <3>2 DEF GoodTier
  <2>3. ASSUME NEW r \in InFlight
        PROVE  req[r].phase \in {"sent", "patched", "resealed"} /\ req[r].tier \in SealReceipt
    <3>1. GoodClick(req[r]) /\ req[r] \in Click /\ req[r].page \in DOMAIN req[r].record.tiers
      BY ClickFacts DEF GoodClick
    <3>2. req[r].phase \in {"sent", "patched", "resealed"}
      BY <3>1 DEF Click
    <3>3. CASE req[r].phase = "resealed"
      <4>1. req[r].tier.swarmRef \in Objects /\ req[r].tier.history \in Versions /\ req[r].tier.listRef \in Versions
        BY <3>1, <3>3 DEF GoodClick
      <4> QED
        BY <3>1, <3>2, <4>1 DEF SealReceipt, Click, Receipts
    <3>4. CASE req[r].phase # "resealed"
      <4>1. req[r].tier = req[r].record.tiers[req[r].page] /\ GoodRecord(req[r].record)
        BY <3>1, <3>2, <3>4 DEF GoodClick
      <4>2. GoodTier(req[r].tier)
        BY <3>1, <4>1 DEF GoodRecord
      <4> QED
        BY <2>1, <3>2, <4>2
    <3> QED
      BY <3>3, <3>4
  <2>4. DOMAIN record.tiers \subseteq Tiers /\ record.anchor \in BOOLEAN
    BY RecordFacts DEF IInv, CopiesInv
  <2>5. trial \in SealReceipt \cup {None} /\ report \in {None, "granted", "refused"} /\ overtaken \in BOOLEAN
    BY <2>1 DEF IInv, TrialInv
  <2> QED
    BY <2>2, <2>3, <2>4, <2>5 DEF TypeOK, IInv, CopiesInv, PageInv
<1> QED
  BY <1>1, Invariant, PTL

\* However grants and withdrawals overlap, whichever step of a handler fails and
\* in whatever order the answers come back, a stored tier can be read by those
\* on the list its next patch starts from (app/src/lib/server/swarm.ts).
THEOREM ListsMatch == Spec => []ListMatchesContent
<1>1. IInv => ListMatchesContent
  <2> SUFFICES ASSUME IInv, NEW n \in DOMAIN record.tiers
               PROVE  record.tiers[n].listRef # NoList
                      /\ lists[record.tiers[n].listRef] = lists[record.tiers[n].history]
    BY DEF ListMatchesContent
  <2>1. GoodTier(record.tiers[n]) /\ ListsTypeOK
    BY DEF IInv, CopiesInv, GoodRecord
  <2>2. record.tiers[n].listRef \in Nat
    BY <2>1 DEF GoodTier, Versions, ListsTypeOK
  <2> QED
    BY <2>1, <2>2, AccessConstants DEF GoodTier
<1> QED
  BY <1>1, Invariant, PTL

\* app/src/components/access.tsx: one change after the other, a key whose
\* withdrawal was acknowledged does not open the tier that is published.
THEOREM RevokedIsOut == Spec => []RevokedStaysOutAlone
<1>1. IInv => RevokedStaysOutAlone
  <2> SUFFICES ASSUME IInv, ~raced, NEW about \in revoked
               PROVE  ~MayOpen(about[2], record.tiers[about[1]])
    BY DEF RevokedStaysOutAlone, RevokedStaysOut
  <2>1. about[1] \in DOMAIN record.tiers /\ about[2] \notin lists[record.tiers[about[1]].listRef]
    BY DEF IInv, PageInv, AloneInv
  <2>2. GoodTier(record.tiers[about[1]])
    BY <2>1 DEF IInv, CopiesInv, GoodRecord
  <2> QED
    BY <2>1, <2>2, OpensToItsList
<1> QED
  BY <1>1, Invariant, PTL

\* app/src/components/access.tsx: as long as no two reads cross, the ledger
\* comes to rest on exactly those who can open the tier on the page.
THEOREM LedgerShowsReaders == Spec => []LedgerIsTrue
<1>1. IInv => LedgerIsTrue
  <2> SUFFICES ASSUME IInv, fetches = {}, ~crossed, ledger # Unread
               PROVE  ledger = {k \in Keys : MayOpen(k, record.tiers[page])}
    BY DEF LedgerIsTrue
  <2>1. page # 0 /\ ledger = lists[record.tiers[page].listRef]
    BY DEF IInv, LedgerInv, PageInv
  <2>2. GoodTier(record.tiers[page]) /\ lists[record.tiers[page].listRef] \subseteq Keys
    BY <2>1, PageFacts
  <2>3. \A k : MayOpen(k, record.tiers[page]) <=> k \in lists[record.tiers[page].listRef]
    BY <2>2, OpensToItsList
  <2> QED
    BY <2>1, <2>2, <2>3
<1> QED
  BY <1>1, Invariant, PTL

\* app/src/lib/store.ts: whatever was granted, withdrawn or anchored, and in
\* whatever order, the envelope in the record names the tiers as last sealed.
THEOREM EnvelopeKeepsUp == Spec => []EnvelopeIsCurrent
<1>1. IInv => EnvelopeIsCurrent
  BY DEF IInv, CopiesInv, GoodRecord, EnvelopeIsCurrent
<1> QED
  BY <1>1, Invariant, PTL

\* app/src/components/issue.tsx: one change after the other, a transaction that
\* was shown for a reference the browser keeps stays in its record, though the
\* control can be used with no record and confirmed a page later.
THEOREM AnchorStays == Spec => []AnchorIsKeptAlone
<1>1. IInv => AnchorIsKeptAlone
  BY DEF IInv, AloneInv, AnchorIsKeptAlone
<1> QED
  BY <1>1, Invariant, PTL

\* app/src/components/access.tsx:421-435: unless a read was under way when a
\* change was answered or the page turned, a trial read that opened the tier
\* stands beside a ledger with the reader's node on it.
THEOREM TrialMatchesLedger == Spec => []TrialBearsOutLedger
<1>1. IInv => TrialBearsOutLedger
  <2> SUFFICES ASSUME IInv, report = "granted", ledger # Unread, fetches = {}, ~crossed, ~overtaken, ~raced
               PROVE  Reader \in ledger
    BY DEF TrialBearsOutLedger
  <2>1. page # 0 /\ ledger = lists[record.tiers[page].listRef]
    BY DEF IInv, LedgerInv, PageInv
  <2> QED
    BY <2>1 DEF IInv, TrialInv
<1> QED
  BY <1>1, Invariant, PTL

\* app/src/app/api/issue/route.ts:214-228: the envelope page 05 prints names
\* only tiers the browser keeps, at the coordinates it keeps.
THEOREM PrintedStays == Spec => PrintedIsKept
<1> DEFINE Kept == sheet' # sheet /\ sheet' # None =>
                      \A n \in DOMAIN sheet' : n \in DOMAIN record'.tiers /\ sheet'[n] = coordinates(record'.tiers[n])
<1>1. ASSUME IInv, [Next]_vars PROVE [Kept]_vars
  <2> SUFFICES ASSUME sheet' # sheet, sheet' # None, NEW n \in DOMAIN sheet'
               PROVE  n \in DOMAIN record'.tiers /\ sheet'[n] = coordinates(record'.tiers[n])
    OBVIOUS
  <2>1. Issued
    BY <1>1 DEF Next, run, Unsigned, Signed, Server, Admit, Collect, Connect, SealTier, SealFails, Issue,
                Abandoned, Read, Ended, Broken, Leave, anchor, Confirmed, deskVars, vars
  <2>2. PICK rec : rec = Head(stream).record
    OBVIOUS
  <2>3. GoodRecord(rec) /\ sheet' = rec.envelope /\ record' = IF rec.tiers = <<>> THEN record ELSE rec
    BY <1>1, <2>1, <2>2, TailFacts DEF Issued
  <2>4. n \in DOMAIN rec.tiers /\ rec.envelope[n] = coordinates(rec.tiers[n])
    BY <2>3 DEF GoodRecord
  <2>5. rec.tiers # <<>>
    BY <2>4
  <2> QED
    BY <2>3, <2>4, <2>5
<1> QED
  BY <1>1, Invariant, PTL DEF Spec, PrintedIsKept
=============================================================================
