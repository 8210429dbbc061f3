# Zegel in TLA+

Zegel lets an issuer turn a wallet's record into claims, seal them for named readers on Swarm, anchor a commitment
to them on a chain, and publish a pointer to it all under an ENS name. The counterparty resolves the name, opens
the tier sealed to its key, re-runs the derivation and looks up the anchor. Everything the product promises is about
*time*: a reference expires, is withdrawn, is superseded, is granted and taken back, while requests overlap, fail
half-way and are tried again. That is what these modules describe. Paths below are relative to the repository root.

1. [The system](#1-the-system)
2. [The modules and the code](#2-the-modules-and-the-code)
3. [What the runs check](#3-what-the-runs-check)
4. [Fairness](#4-fairness)
5. [What is proved](#5-what-is-proved)
6. [Where the code and its documentation differ](#6-where-the-code-and-its-documentation-differ)
7. [What is not modelled](#7-what-is-not-modelled)
8. [Plan](#8-plan)

Run `tlc -config MC<Name>.cfg MC<Name>.tla` and `tlapm <Name>Proofs.tla`. `PROJECT.json` lists runs, mutants, hazards,
theorems and, definition by definition, the source lines each one stands for.

## 1. The system

| Component | State it keeps | Operations | Talks to | What is hard |
|---|---|---|---|---|
| **ZegelAnchor** `contracts/src/ZegelAnchor.sol` | anchor per reference id, event log | `anchor`, `revoke`, views `isValid`, `verify`, `anchorOf` | SDK, app, CLI read it | expiry boundary; re-anchoring an expired id, never a revoked one; the log as the only history |
| **ZegelIssuerRegistry** `contracts/src/ZegelIssuerRegistry.sol` | entries, records, roles at four levels, assignee counters, parent | `register`, `unregister`, `bumpEacVersion`, `setRecord/Resolver/Subregistry`, `grant*/revoke*Roles` | ENS resolution | long sequences: lapse, grant while lapsed, drop, bump, register again; saturating counters |
| **ZegelResolver** `contracts/src/ZegelResolver.sol` | signers, envelopes stored on chain, gateway URLs | `resolve`, `data`, `resolveWithProof`; `setSigner`, `setEnvelope` | gateway through CCIP-Read | a response is a bearer token anyone can replay |
| **Gateway: frame** `gateway/src/config.ts`, `index.ts`, `worker.ts`, `vercel-entry.ts`, `health.ts`, `store/factory.ts` | the configuration of the process, a signing key | start, `GET /health` | environment, resolver on chain, store | three entry points with defaults of their own; probes that look at part of what serving needs |
| **Gateway: publishing** `gateway/src/admin.ts`, `owner.ts`, `envelope.ts`, `store/file.ts`, `store/memory.ts` | maps of records and nonces, a JSON file, a chain of flushes | `POST /admin/envelopes` | ENS registry and NameWrapper, disk | check, two awaits, put; an owner read in two hops; flushes that fail or are cut off; restarts |
| **Gateway: lookups** `gateway/src/app.ts`, `ccip.ts`, `signing.ts`, `store/swarm-feed.ts` | a cache of feed records | `GET /:sender/:data` | Swarm feed, HTTP caches, the resolver | overlapping reads, stale fallbacks, four caches with a lifetime each |
| **Seal** `packages/seal/src` | queue depth and floor, receipt log | `seal`, `grant`, `revoke`, `patchGrantees`, `reseal`, `listGrantees`, `drain` | a Bee node | Bee keys a list's versions by the second; nothing on Swarm is ever changed in place |
| **App: issue** `app/src/components/issue.tsx`, `app/api/issue/route.ts`, `lib/ndjson.ts` | a streamed answer, the record in localStorage | prepare, issue, anchor | evidence, seal, wallet | one step of several failing; a stream that breaks anywhere; an anchor confirmed late |
| **App: access** `app/src/components/access.tsx`, `lib/server/access.ts` | that record, the ledger and the trial read on screen | grant, withdraw, list, read | seal | the server keeps nothing: stale closures and overlapping clicks decide what is kept |
| **App: verify** `app/src/components/verify.tsx`, `app/api/verify/route.ts`, `lib/mrz.ts` | the document selected and the result shown | inspect | SDK, seal, anchor | precedence of partial answers; verdict, words and table computed apart |
| **CLI** `cli/src` | the receipt log and the envelope on disk | `issue`, `grant`, `revoke`, `verify`, `scan`, `doctor` | all of the above | a log that only `issue` writes; a fallback taken only while connecting; a doctor that judges by criteria of its own |
| **Evidence** `packages/evidence/src` | one collection; nothing is kept | `buildEvidence`, `deriveClaims`, `verifyClaims` | Mobula API | worker pool, retries, partial failure; a result that must not depend on the schedule |
| **Solana** `solana/src` | setup accounts, one attestation account per subject | `setupIssuer`, `issue`, `revoke`, `close`, `verify` | RPC node, SAS program | transactions that land after their caller gave up; an account that is reused |
| **SDK** `packages/sdk/src` | none | `resolveReference`, `verifyAnchor`, canonical digests | resolver, gateway, anchor | precedence of verdicts |

**How a reference moves.** `buildEvidence` collects responses and derives claims; `seal` writes one object per tier under
a grantee list; `ZegelAnchor.anchor` (or a Solana attestation) commits to the tier-1 projection; the envelope with the
coordinates of the tiers is published through the gateway or a Swarm feed; the resolver answers a lookup with what the
gateway signed. Withdrawal is a transaction on the anchor; taking back a grant makes a *new* list version, and the
content has to be written again under it and published again.

**What makes each part correct**, in a sentence each — these are the properties of section 3:

- the anchor: what was withdrawn stays withdrawn, and its log tells all of its state;
- the registry: the end of a registration cuts every delegate off, and counters that gate grants never drift;
- publishing: what was acknowledged survives a crash, is accepted once and is never rolled back to an older envelope;
- lookups: what a resolver accepts answers *this* question, never outlives its envelope, and is superseded in bounded time;
- the queue: two patches of one client never fall into the same second, and none is lost or left hanging;
- the gateway's frame: what health says, a lookup bears out; what is served, a client can read;
- issue and access: what is printed was kept; stored coordinates belong together; who was cut off stays cut off; the page shows
  what is, and comes to rest;
- the command line: exit 0 means sealed for those named; an address that was published can be found again; doctor's word holds;
- verdicts: nothing withdrawn passes, nothing passes unproved, and two readers do not disagree about a reference;
- evidence: the claims follow from the responses and from nothing else, whatever the schedule; an edit shows;
- Solana: what the operator was told is what the ledger holds, and a withdrawal is seen by whoever asks.

## 2. The modules and the code

Every module is written from the source files named in its first comment; an action is a whole handler, or the part of
it between two awaits where other callers can get in between. `MC<Name>.tla` only gives the constants values.

### Contracts

- **`ReferenceLifecycle`** is what a counterparty is promised, with no mapping and no log: a reference is unclaimed, live,
  lapsed or withdrawn. `Claim`, `Revive`, `Withdraw` and `Lapse` are the only moves; from withdrawn there is none.
- **`ZegelAnchor`** is the contract: `anchors` is `_anchors`, `events` the log, `now` the block timestamp. `anchor` and
  `revoke` have the contract's checks in their order; a call that reverts is no step. `isValid`, `verify` and
  `anchorOf` are operators. `StandingOf` and `HolderOf` map it to the lifecycle.
- **`IssuerRegistry`** keeps roles as the set of triples (resource, account, role) where the contract keeps a bitmap per
  resource and account. A resource is (node or version of a name, part), hashes being injective. Every external
  function that writes is an action; `hasScopedRoles` is the four-level ladder. `VersionModulus` is the wrap of `uint32`
  and `MaxAssignees` the nybble of a counter. Callers name any resource, those of versions still to come included; `seeded`
  remembers which of those the root granted at before their version began.
- **`ZegelResolver`** is the contract's signers and stored envelopes, `resolve`/`data` as "stored or OffchainLookup", and
  `resolveWithProof` as a predicate of whatever the caller presents.

### Gateway

- **`GatewayConfig`** is `loadConfig` and the choice of a store by each entry point, as one function from the environment: what
  starts, and with which store, owner lookup, key and chain.
- **`StoredEnvelope`** is `parseEnvelope` beside the client's `assertEnvelope`, over the fields of a text that either looks at.
- **`NameOwners`** is who may publish under a name: the operator's map, or `owner(node)` and, for a name the NameWrapper holds,
  `ownerOf` in a second read. Between the two the name may be wrapped, unwrapped or handed on (`Trade`), and the endpoint may fail.
  The configured addresses need not be those of ENS: another contract in the registry's place answers anything or reverts, and one
  in the wrapper's place leaves a wrapped name with the wrapper as its owner. `Stray` stands for it, a contract that holds no name.
- **`GatewayPublish`** cuts `POST /admin/envelopes` at its awaits: `Submit` (everything up to the owner lookup, nonce check
  included), `ReadOwner`, `ReadWrapper`, `Put` (signature, the rest of the handler and `put()` up to its flush). `mem` is the pair of
  maps, `disk` the file, `FlushStart` takes the snapshot, `FlushDone` and `FlushFail` settle it, `Load` is the first read of the
  file; `Restart` loses everything but `disk` and comes back from the file or the seed, with a new key if none is configured.
  `raced` remembers whether two publishes of one name were ever between check and put.
- **`GatewayHealth`** puts `/health` beside them: `buildHealthReport` is an operator of one moment, because a report says nothing of
  what changes later. `ResolverAccepts` and `signable` say what a lookup at that moment would come to; `Administer` is the
  owner of the resolver the configuration names, and never acts where it names none.
- **`FeedStore`** is `SwarmFeedEnvelopeStore.get`: `Lookup` takes what the cache holds or sends the requests, `Hear` is the
  moment the feed answers, `Finish` and `Fail` store the record or fall back on the entry taken *before* the requests.
- **`CcipRead`** composes `FeedStore` and `ZegelResolver` with `serveLookup` (`Respond`): refuse a lapsed envelope, sign
  `min(now + ttl, expiry)`, and let the response loose. `responses` is whatever a client or HTTP cache still holds; any
  of them may be presented, by anyone, with any query, to any block whose time is within `Lag` and `Ahead` of the gateway's.

### Sealing and access

- **`PatchQueue`** is the promise chain of `queue.ts`: `enqueue`, `Begin` (measure the floor, sleep or run), `Wake`, `Settle`,
  `Drain`/`Drained`. `Write` is the node's: at any instant of a running task, whether or not the task then fails. `Early`
  is how much too soon a timer may fire.
- **`GranteeLists`** is the Bee node as the sealing client uses it: a patch makes a new version, an upload a new object
  under a history, nothing already there ever changes. It is external, and small.
- **`AccessPatch`** is the access page (`patch`, `Turn`, `Fetched`, `doRead` and its answer `ReadBack`: state in React, closures
  taken at the click, `localStorage`) and the routes behind it (`Patch`, `Reseal`, `Answer`, `Fail`). A trial read lands whatever
  the page shows by then, and any answer of the node but 200, or none in time, is a refusal (`actRead`). `revoked`, `raced`,
  `crossed` and `overtaken` are history variables.
- **`IssueDesk`** extends it with the issue page and its two routes: `run`, `Signed`, the handler (`Admit`, `Collect`, `Connect`,
  `SealTier`, `SealFails`, `Issue`), the stream between them (`stream`, `Abandoned`, `Read`, `Ended`, `Broken`) and what is printed
  (`Issued`, `sheet`). The server goes on when nobody listens until a send throws. The anchor control below the printed envelope
  (`anchor`, `Confirmed`) is there with or without a record, and saves the one it was rendered with.
- **`SealBackend`** is `connectBackend`: node or gateway, which batch, which publisher, over services as they are and settings the
  operator made once. A slow node is one that `probeNode` (1.5 s) takes for none, `nodeAnswers` (2.5 s) may, and doctor (8 s) does not;
  the Mobula hosts are garbled while a collection gets a 200 that is no JSON.
- **`DoctorProbes`** is every row of `zegel doctor` and what the command concludes from them.
- **`CliSession`** is a session of commands over the two: `issue` in the requests it makes (`Collect`, `Connect`, `Fallback`,
  `CreateList`, `Upload`, `Keep`, then the files), `grant` and `revoke` over the receipt log (`Reach`, `ConnectNode`, `Patch`), `doctor`,
  `scan`; with services that change, answers that are lost and a `Kill` anywhere.

### Verdicts

- **`Verdicts`** extends the anchor with its two readers. The desk: `inspect`, `gather` (lookup, reads, re-derivation, anchor),
  `answer` (`decide`, `explain`), `show`. The command: `load`, `consultAnchor`, `assess` (`checks`, `assessReference`), `exit`.
  References are anchored, withdrawn and expire between any two of them. `openPayload` opens whatever decrypts. The desk asks the
  anchor; the command asks the contract of `--anchor`, else the one the envelope names (`anchorAsked`), which may answer anything.
- **`Mrz`** is the second line of the machine-readable zone as digits and letters: `buildMrz` prints it, `ladderFromLine2` cuts
  it up again and recomputes the check digits.

### Evidence and Solana

- **`ClaimDerivation`** is `deriveClaims` as a function of the sources and the window: which cycles count, once each, which asset a
  security response is about (the one it names, else the one that was asked for), which claims exist and whether they hold. Ratios
  are compared exactly where the code rounds; amounts are small integers.
- **`EvidenceCollection`** is `buildEvidence`: `Concurrency` workers over one slot counter, each awaiting a request or a retry
  pause (`answered`, `refused`, `unanswered`, `retry`, `unreadable`), the `Plan` of the first phase, the plan of the security lookups
  made from the first phase (`Rank`), `Assemble`, then an `Edit` of the bundle and `VerifyBundle`. An edit is of any part: a response, its digest and its note that it is
  unavailable, alone or together (`EditAnswer`); an endpoint or a parameter (`EditRequest`); the window, the schema, the derivation id and,
  as `subject`, everything no claim is derived from (`EditFrame`); a claim changed, dropped, invented or stated twice. Sources keep
  their places: one left out is one without a body, and added or renumbered ones are not offered. Kinds of request that no claim
  reads are left out.
- **`SolanaAttestation`** has one attestation account, which is what all calls for one subject share. A call goes from `issue`,
  `closeAttestation` or `setupIssuer` through `sign`, `send` and `confirm`; `land` is the network's, at any time while the
  blockhash lives. `verify` is two parallel reads (`fetchSchema`, `fetchAttestation`), a verdict (`judge`) and the history search
  (`findRevocation`, over the places in the history that `Candidates` names).

A module `<Name>Proofs` holds the theorems about a component and nothing of the model (section 5); `ZegelAnchorProofs` those about its
readers as well, and `EvidenceSolanaProofs` those about two components that share nothing.

## 3. What the runs check

Each property has a mutant in `PROJECT.json`: the code with a plausible bug, under which the run finds it violated.

| Run | Instance | What it shows |
|---|---|---|
| `verdict` | the anchor with 1 id, 2 claim sets, 2 accounts, 3 timestamps; 2 readers; 4 documents, one of which names a contract of its own; 7 kinds of sealed object; 2 lines | The contract implements `ReferenceLifecycle` (`ImplementsLifecycle`) and its log tells its state (`LogTellsState`). What was withdrawn before a reader began is called nothing kinder, if the anchor is the contract it asks and answers (`WithdrawnIsSeen`). Claims that pass are those the envelope was sealed over and, under the same condition, those the issuer anchored; the command also passes those of an id nobody anchored (`ValidBindsClaims`). Verdict, words and table bear each other out, but where the words overstate (`RowsBearOutVerdict`; section 6 lists it). On the same facts the tools give the same verdict, but in the four cases of section 6 (`DeskAndCommandAgree`). A printed line reads back, and one digit misread for another shows (`MrzReadsBack`). |
| `registry` | 1 name, 1 record, root and 2 accounts; 2 holders of a role at most; a name's version moves once; 2 timestamps | Counters are the number of assignees, up to the limit and back (`CountersMatchAssignees`). After a bump, a drop or any registration only the new owner has authority that is not over every name, unless the root itself granted it ahead (`ResetCutsDelegates`). |
| `registry_inherit` | the same, two record values | Violated: the new holder of a label finds the old records. |
| `gateway` | 6 environments, one of which does not start, two with another contract's address for the wrapper or the registry; 2 names, one of them traded; 5 messages, 2 requests, 1 fault of RPC or resolver at a time, 1 tick | What got a 201 is on file (`AckedIsDurable`). A record whose flush failed is written by a later one (`LastFlushWritesEverything`). Over the file store, without two overlapping publishes of a name, a running process rolls nothing back and a restart serves nothing older than what got a 201 (`NeverRolledBackAlone`). Whoever signed held the name at some moment of the request, if the registry read is ENS's (`PublisherHeldTheName`). What health says of a moment, lookups bear out, but for wrong addresses (`HealthForetells`); what is served, a client can read to the end of the second (`ServedIsReadable`). Every request settles (`EveryRequestSettles`). |
| `gateway_race` | 1 name, 3 requests at once | Violated: `NeverRolledBack`, two publishes racing. |
| `queue` | 3 patches of 1 client, second of 2 ticks, floor 3, timers 1 early, 7 ticks | Never two patches in a second (`QueueNeverCollides`). `drain()` returns after all it covers (`DrainCoversAll`). A rejection stalls nobody (`EveryPatchSettles`). |
| `access` | one run of the issue page, 2 tiers, 1 reader beside the publisher, 2 clicks on the access page, 1 trial read at a time, 4 list versions | What is printed was kept (`PrintedIsKept`). Every run ends on the page (`DeskComesToRest`). The stored list is the one the content is open to (`ListMatchesContent`). An acknowledged withdrawal, or an anchor shown, holds unless two changes overlapped (`RevokedStaysOutAlone`, `AnchorIsKeptAlone`). The ledger comes to rest on the truth unless two reads crossed (`LedgerIsTrue`), a trial read that nothing overtook bears it out (`TrialBearsOutLedger`) and the envelope in the record names what was sealed last (`EnvelopeIsCurrent`). |
| `commands` | three commands of {doctor, issue}, {scan, issue}, {grant, revoke}; 1 key; settings that differ from the default in one variable or two, among them a batch the node does not have and a publisher that does not parse; at first a host down, or garbled answers, or a slow node or one out of order, or none of these; 1 change of a service | Exit 0 means both tiers are sealed for exactly those named (`SuccessMeansSealed`). What was said to be sealed is on the log (`SaidIsKept`). While no service changes, what doctor told holds (`DoctorForetells`). A patch never reaches behind the last complete reference (`PatchesNoOlderReference`). |
| `commands_revoked` | issue, revoke, grant; 2 keys; everything up | Violated: `RevokedStaysOff`, revoke then grant. |
| `resolve` | 1 feed of two versions, the second lapsing first; 2 lookups at once; 2 resolvers with one signer; feed cache 1, read 1, signature 3, HTTP 3; block clock 1 behind to 2 ahead; 4 instants | What a resolver accepts answers this query for this contract (`ProofIsBound`) and never outlives its envelope (`NoEnvelopeOutlivesItself`). A superseded version is accepted for at most read + cache + signature time (`StalenessIsBounded`), fallbacks aside. |
| `solana` | 2 writing calls, 1 `verify`, 2 references, expiries "never" and 1; blockhash and confirmation 1 tick; 1 stranger's transaction | While a call waits for the one before it to settle: what operators were told is what the account holds (`AnswersTellTheLedger`); who asks after a withdrawal is told of it, unless the node withholds history or the close is out of reach at the moment of the answer (`WithdrawalIsSeen`); a named reference is the one that is closed (`StaleIdClosesNothingAlone`). |
| `evidence` | 2 chains, 4 bodies a history (overlapping, restated, open, outside the window, undated), trades, funding, up to 2 security lookups; 2 workers; 2 attempts; 1 edit | The claims are those of the cycles reported, each counted once, whatever the schedule (`ClaimsAreReproducible`). What passes the re-run after an edit has no response under the digest it was issued with but that response or none, and over the issued sources and window the issued claims (`EditsAreSeen`). A collection ends (`CollectionSettles`). |

The modules that keep state over many steps also define a type invariant, `TypeOK`. It is part of an inductive invariant of
section 5 wherever there is one, so no run spends its time on it.

**Why the bounds are enough.** Each is the smallest at which the hard case happens, and a mutant that needs the case
confirms that it does.

- *Two of everything that can overlap*: two requests, lookups, workers, clicks or calls. Overlap properties relate a pair; a
  third actor adds another pair. `gateway_race` has a third, so that a publish may also be sent again.
- *Time*: long enough for everything with a lifetime to begin, end and be used after its end; in `resolve` the read, cache
  and signature windows follow each other within the four instants.
- *Counters*: `MaxAssignees` 2 stands for 15, so that saturation is reached. `MaxVersion` keeps versions below `VersionModulus`
  (2^32 in the code): a name that came round would meet the roles of its first life, of which no property here speaks.
  `MaxHolders` only keeps down how many hold roles at once.
- *Lists and logs*: four versions let two tiers be sealed and patched once each or one of them twice; three events an id are claim,
  revive, withdraw. In `access` the node holds nothing when the page's run begins (`LastVersion` 0); the browser keeps one booklet: the
  button is not pressed again before a run that was given up has ended. Storage accepts every write.
- *Access*: page 07 is opened once the answer is complete, and the page is turned when no list is being read (`MaxReads` 1): reads
  cross when a patch or an anchor is answered meanwhile. Without `Repeats` what was anchored is not anchored once more, and no read
  is tried after one was overtaken, of which `TrialBearsOutLedger` says nothing.
- *Verdict*: `FewAtOnce` keeps a reader to two transactions and lets two requests of the page overlap in the first block, because
  a third step of the contract repeats one of the first two. The readers' clock is the chain's: section 6 lists the one instant at
  which `<` and `<=` part.
- *Gateway*: production on a chain, a laptop with nothing set, a Worker with a pinned envelope (and a wrong wrapper address) or
  without one, a memory store with a wrong registry address, and one that does not start. `TicksPerSecond` 2 lets an envelope expire
  in the middle of a second. `Traded` lets one name change hands while the other stays; the feed store's probe may be any answer.
- *Commands*: a local disk accepts every write, the production host is up where a key is set, the Ethereum endpoint of one's own is
  up, `--rpc` and `--reference` are not used, and a configured batch names the node's one batch or one it does not have: not
  a second one that is full while the first has room. A gateway at the Bee URL says that it is one in time. URLs that are set
  are URLs.
- *Solana*: `HistoryLimit` 2 and `MaxHistoryTransactions` 1 stand for 20 and 5, so that one stranger can crowd out a close. The
  constraint `OneAfterTheOther` cuts behaviours off after the first overlap: no property says anything past it.

`CHECK_DEADLOCK FALSE` is there where a system may stop: a clock at its bound, a collection done, a session over, no request
left to make. `gateway` and `gateway_race` need none: their environment is never at an end. Symmetry is used for callers, clicks
and the like, and only in runs without liveness properties.

## 4. Fairness

Only four specifications have any, because only four properties say that something happens.

- `GatewayPublish` (and `GatewayHealth` over it): `FlushStart \/ FlushDone \/ FlushFail` and each handler's next step are weakly
  fair. Each is the settling of one awaited file operation or RPC call, or a promise whose turn has come; it may settle either way.
  Nobody owes the gateway a request, the first read of its file, a change of owner, a tick or a restart.
- `IssueDesk`: the handler's step is weakly fair, since upstream calls time out and the node answers or fails; so is the page's
  reading of a stream that has something to read. Nobody owes a click, a confirmation, or a connection that lasts.
- `PatchQueue`: `Begin`, `Wake`, `Settle` (either way) and `Drained` are weakly fair: promises that are ready run, and a request to
  the node ends. Time passes while a task sleeps. As the model's clock ends, `EveryPatchSettles` excepts its last instant.
- `EvidenceCollection`: each worker's step is weakly fair, since `AbortSignal.timeout` bounds every request and a retry pause
  ends; so are `Rank` and `Assemble`, which follow a settled `Promise.all`. The attempts are counted in the code, not bounded by fairness.

Everything else is safety, checked without fairness: operators, readers, networks and the node may stop for good.

## 5. What is proved

Eight modules hold machine-checked proofs for *every* value of the constants: any number of references, names, accounts, tasks,
requests, clicks, commands, workers and calls, and any bound on time, versions and logs, which therefore takes no part in them. Each rests on the named
assumptions of the modules it extends, which TLC evaluates on every run. For each, an inductive invariant was checked by TLC on the
run of its component and then proved: `Init => IInv`, one lemma per action for `IInv /\ [Next]_vars => IInv'`, and the properties from it.

**The anchor** — `ZegelAnchorProofs`, from `AnchorConstants` (the zero values are what they are, the bounds are numbers).

| Theorem | Statement |
|---|---|
| `TypeCorrect` | `TypeOK` always holds. |
| `LogAlwaysTellsState` | The events of an id determine its issuer, its terms and its standing. |
| `ViewsAlwaysAgree` | `isValid` and `verify` agree. |
| `RevokedForever` | No step changes a withdrawn anchor or its log. |
| `Implementation` | `ZegelAnchor` implements `ReferenceLifecycle`. |

The inductive invariant is `TypeOK /\ LogTellsState /\ TimesInOrder`. `AnchorInductive` and `RevokeInductive` are about appending to
the log. `TypeOK` alone carries `ViewsAgree` but not the rest: the contract lets anyone claim an id whose `anchoredAt` is 0 without
looking at `revokedAt`, so "a withdrawn anchor is never claimed again" rests on `TimesInOrder`, by which what is withdrawn was
claimed. The refinement is proved action by action: `anchor` is a `Claim`, a `Revive` or, for a live reference anchored again, a
stutter; `revoke` is `Withdraw`; a tick is `Lapse` of whatever it takes past its expiry.

**Its readers** — `ZegelAnchorProofs` as well, from `VerdictConstants` besides (a document shown is about an id of the contract and has at
most two tiers; there are claims other than those the holder has).

| Theorem | Statement |
|---|---|
| `ReadersChangeNothing` | `VerdictSpec => Spec`: all that is proved of the contract holds beside any number of verifications. |
| `WithdrawalSeen` | `WithdrawnIsSeen`. |
| `ValidIsBound` | `ValidBindsClaims`. |
| `RowsTrue` | `RowsBearOutVerdict`. |
| `ReadersAgree` | `DeskAndCommandAgree`. |
| `PrintedLineReadsBack` | For every id, commitment, dates and tier the line that is printed is cut into what it was made of. |
| `VerdictInvariant` | The inductive invariant below. |

A verification reads the contract at one moment and concludes at another, and in between ids are claimed, withdrawn and claimed anew. What
it has read may be out of date, but never in its favour: a withdrawal is final and the log only grows (`ReadStays`, from the anchor's
own invariant), so a run that remembers "revoked before I began" has read "Revoked", and one that read "Valid" has the event that
anchored its claims on the log for good (`RunOk`). The rest is a case analysis of the two chains of early returns. `PrintedLineReadsBack`
takes a check digit for whatever it is: that the places where the line is cut are those where it was joined does not depend on it.

**The registry** — `IssuerRegistryProofs`, from `RegistryConstants` (finitely many accounts; the parts of a resource are distinct).

| Theorem | Statement |
|---|---|
| `TypeCorrect` | `TypeOK`: no counter leaves its nybble. |
| `CountersAlwaysMatch` | Every counter is the number of accounts that hold the role (`CountersMatchAssignees`). |
| `AheadIsRootsDoing` | Whatever is held against a version that has yet to begin, the root granted first. |
| `DelegatesAreCutOff` | A bump, a drop and every registration leave no delegate with authority the root did not grant ahead (`ResetCutsDelegates`). |

The counters are their own induction (`SetRolesCounts`, by counting the assignees one account gains or loses), whatever versions do.
That delegates are cut off is not inductive: a role that already lies at the version a name is about to move to comes alive with it.
`AheadIsSeeded` says who can have put it there: to grant at a resource takes its admin roles, there or at the root, so the first
grant at a version to come is the root's. Both theorems that use it have the hypothesis `VersionsDoNotWrap`, since a `uint32` that
came round would meet the roles of its first life; the run satisfies it.

**The gateway** — `GatewayProofs`, from the constants of `GatewayPublish`, `NameOwners` and `StoredEnvelope` (finitely many names;
a seed is an envelope for one of them).

| Theorem | Statement |
|---|---|
| `PublishIsDurable` | Over a file store a nonce that got a 201, or a higher one, is on file ever after (`AckedIsDurable`). |
| `NonceOnFileOnlyGrows` | No write to the file takes a nonce back. |
| `LastFlushIsComplete` | When the last flush of a burst succeeds, the file holds what the maps hold (`LastFlushWritesEverything`). |
| `NoRollbackAlone` | Without two publishes of a name under way, no record gives way to an older one in a process or on file, and after a restart nothing is served that is older than what got a 201 (`NeverRolledBackAlone`). |
| `SignerHeldTheName` | Whoever signed what is put held the name at a moment of the request, where the registry read is ENS's (`PublisherHeldTheName`). |
| `ServiceIsPublishPath` | `GatewayHealth`'s service implements the publish path, whose theorems therefore hold of it. |
| `HealthIsTrue` | `HealthForetells`, for any configuration that boots, wrong addresses included. |
| `ServedCanBeRead` | Whatever can be signed for can be read by a client (`ServedIsReadable`). |

None of them is inductive. The invariant orders the nonces: file, snapshot being written and maps never decrease from one to the
next, and the snapshot covers the oldest put of the chain (`NonceInv`). That is why a failed flush does not lose what a later one
writes, and why a crash between any two steps leaves an acknowledged nonce on file. The records follow the same order as long as nothing raced
(`RaceInv`); there the check of the nonce, two awaits before the put, still holds at the put, and the snapshot holds the record of
its put, or a later one, so that an answered record is on file (`AckedInv`). `HolderInv` keeps for each request
the set of those who held its name since it came, and the owner that was read is one of them, or the wrapper itself.

**Lookups** — `CcipReadProofs`, from `CcipConstants`, `FeedConstants` and `ResolverConstants` (some name is served; the HTTP lifetime is
at most the signature's; a cache entry lives a moment).

| Theorem | Statement |
|---|---|
| `TypeCorrect` | Store, resolver and responses at large are of their types. |
| `ResponsesAreBound` | `ProofIsBound`. |
| `EnvelopesLapse` | `NoEnvelopeOutlivesItself`. |
| `StaleForSoLong` | `StalenessIsBounded`, with the sum of the lifetimes for any values of them and any skew of the clocks. |

The invariant follows the moment a version was superseded through the store: what a read has heard was current when the read began
or later; a cached record was stored at most `ReadTime` after it was superseded and is used for less than `CacheTtl`; no answer waits
for its signature while time passes.

**Queue** — `PatchQueueProofs`, from `QueueConstants`, of which `Second + Early =< MinInterval` is the one that matters: 1000 ms
and a timer that fires less than 100 ms early against a floor of 1100 ms.

| Theorem | Statement |
|---|---|
| `PatchesOfAClientNeverCollide` | Two patches of one client never fall into one second of the node. |
| `DrainWaitsForAll` | `drain()` returns after everything it covers (`DrainCoversAll`). |
| `DepthIsHonest` | The depth is the number of unsettled tasks and only the oldest has begun. |
| `QueueInvariant` | The inductive invariant below. |

That no two writes share a second is not inductive: a state in which the last patch was written *after*
`lastFinishedAt` satisfies it and has a bad successor. The invariant adds where each instant lies. A write lies within its
task (`WritesInTask`), the end of the task at or after the write (`EndsAfterWrites`), the wake-up of the next a floor after that and
its start at least a second after it (`FloorKept`), hence its write too (`RunningWritesLate`), hence any two writes are a second
apart (`WritesApart`). `ApartSeconds` turns that distance into different seconds. That `EndsAfterWrites` also holds for tasks that *failed*
is where measuring the floor from every completion, and not from successes, is needed. `drain()` awaits one promise, the tail of
that moment: what it covers and is not settled stands in the chain at or before that tail (`DrainsInv`), and a chain holds the unsettled
tasks of its client, each once (`ChainsInv`).

**The issue desk and the access page** — `IssueDeskProofs`, from `AccessConstants` and `DeskConstants`, over `IssueDesk`, which
contains the steps of `AccessPatch`.

| Theorem | Statement |
|---|---|
| `TypeCorrect` | Every copy of the record holds complete coordinates of content the node has. |
| `ListsMatch` | `ListMatchesContent`, however requests overlap and fail. |
| `RevokedIsOut`, `AnchorStays` | `RevokedStaysOutAlone`, `AnchorIsKeptAlone`: one change after the other; of a hash shown for a reference that was kept. |
| `LedgerShowsReaders` | `LedgerIsTrue`, unless two reads crossed. |
| `EnvelopeKeepsUp` | `EnvelopeIsCurrent`. |
| `TrialMatchesLedger` | `TrialBearsOutLedger`, unless a read was overtaken. |
| `PrintedStays` | `PrintedIsKept`: the envelope that is printed names only what the browser keeps. |

The record is a value, and copies of it are in many hands: in the stream of the run that made it, in the browser, in every click under
way and in the wallet's closure. What is in the browser says nothing of what comes back with an answer, so the invariant says of
*each* copy that whoever is on the list of a tier can read the tier (`GoodRecord`), and of a click that the list it made is the one
before it with one key put in or taken out (`GoodClick`). Nothing on the node is ever changed in place (`Grows`), which is what carries
it over the steps of others. While no two changes overlap, every copy is the record itself (`AloneInv`), and a trial read that nothing
overtook is of the tier on the page (`TrialInv`). Between the run that clears page 05 and the envelope it prints nothing can be
anchored (`Fresh`), which is why a confirmation that comes late finds the record it was asked for, or none.

**The command line** — `CliSessionProofs`, from `SessionConstants` (services and settings are some of the possible ones; a script is a
sequence of sets of commands).

| Theorem | Statement |
|---|---|
| `TypeCorrect` | `TypeOK`: a receipt is filled in before it is kept, every object lies under a version that is there. |
| `ZeroMeansSealed` | `SuccessMeansSealed`. |
| `SaidReceiptsKept` | `SaidIsKept`. |
| `DoctorTellsTrue` | `DoctorForetells`, with the exceptions its comment lists: what doctor does not look at. |
| `YoungestPatched` | `PatchesNoOlderReference`. |

None speaks of an issue half done, and that is all the induction is about. `RequestOk` says what the next request is made from: the
list it uploads under has the named readers, a receipt that is about to be kept is `Sound` (its object lies under its own history).
`TiersOk` says that the tiers an issue is past are on the log under these readers unless it remembers a failure, and `LeftInv` hands that on
to what an issue that exited 0 leaves behind. Nothing on the node or on the log is changed or taken back (`Grown`), which carries all of
it over the steps of later commands. What doctor told is true of the services of its moment (`ToldInv`) and forgotten when one changes; the
invariant follows it into the commands it was told of (`IssueForetold`). `PatchesNoOlderReference` needs that the log is in the order of
the issues (`KeptInv`), so that the last receipt of a tier is as young as the last complete reference.

**The evidence** — `EvidenceSolanaProofs`, from `CollectionAssumption` (at least one worker and one attempt; finitely many assets) and
`BodiesAssumption` (what can be read is a body; the date of a first funding is a time or is not told).

| Theorem | Statement |
|---|---|
| `SourcesOrdered` | The sources of a new bundle stand in the order of the two plans, in whatever order they were settled. |
| `EditsSeen` | `EditsAreSeen`, after any number of edits. |
| `ClaimsCiteAnswers` | Every claim of a bundle as it was made, or of one that was confirmed, cites only responses that are in it, none that failed. |
| `CollectionInvariant` | The inductive invariant below. |

The bundle is made of an array that several workers fill in any order, and nothing in the code checks at the end that it is full.
`SlotsInv` says why it is: a slot below the shared counter is at a worker or holds the source of its own request, and a worker stops only
when the counter has passed the plan, so when all have stopped no slot is left (`PlanDone`). `BundleInv` then says of a
bundle under edits that a source has its endpoint, or one that no claim reads, and a body of that endpoint or none, which is what
`ClaimsCiteAnswers` needs. `EditsSeen` needs less of it: a source is issued with the digest of its body, or without a body and with
the digest of nothing; and a body that passes is under its own digest, so one that is not the issued one is not under the issued
digest. `ClaimsCiteAnswers` goes through all ten claims
(`MetricsCite`): the one with the oldest funding, and the last security reading of an asset, exist because the sources are finitely many.

**Solana** — `EvidenceSolanaProofs`, from `TimesAssumption` (a confirmation is awaited at least as long as a blockhash lives) and `ValuesAssumption`.

| Theorem | Statement |
|---|---|
| `TypeCorrect` | Calls, account and verifications are of their types. |
| `AnswersHold` | `AnswersTellTheLedger`. |
| `WithdrawalSeen` | `WithdrawalIsSeen`. |
| `StaleIdHarmless` | `StaleIdClosesNothingAlone`. |

A transaction names the account and not what is in it, so everything hangs on who can still change the account. A transaction whose caller was told how it ended,
or who gave up at the deadline, cannot run any more (`CallOK`, and `AliveUnsettled` from it): the deadline lies a lifetime after the
signature. Hence, while calls follow one another, the one that is not settled is alone, the last answer is withheld, and
the account is as that call found or left it (`AloneInv`). `SetupInv` is what makes "the schema is absent" impossible after a withdrawal, and
`VerifyOK` that an account read after it holds another reference.

The proof showed an error of the model: `WithdrawalIsSeen` was an invariant, compared with the history *after* the answer, and true only
because two calls are too few to violate it — a third close, landing later, puts a close within reach of an answer long given. It is
now judged at the step that gives the answer.

**Only model-checked**:

- liveness and fairness (`EveryRequestSettles`, `EveryPatchSettles`, `DeskComesToRest`, `CollectionSettles`): out of the prover's reach;
- what folds over data compute, which needs induction over data: `ClaimsAreReproducible` (sums over cycles; that its claims cite sources
  that answered is `ClaimsCiteAnswers`) and the half of `MrzReadsBack` about a misread digit (`CatchesSmudge`, a weighted sum modulo
  ten; the other half is `PrintedLineReadsBack`).

Every other property of a passing run is stated by a theorem. The three properties of section 6 are violated by the code.

## 6. Where the code and its documentation differ

Three disagreements have a run that shows them.

- `registry_inherit` — **the new holder of a label inherits its records.** `_records` is keyed by the canonical id and neither
  `register` nor `unregister` touches it (`contracts/src/ZegelIssuerRegistry.sol:285`). `contracts/test/ZegelIssuerRegistry.t.sol:420` says
  "the new holder inherits nothing" and line 152 of the contract that there are no zombie records.
- `gateway_race` — **two overlapping publishes can roll a name back.** The nonce is compared, two awaits follow, and the put sets
  the record unconditionally (`gateway/src/admin.ts:78`, `:113`, `store/file.ts:77`). `store/types.ts:53` calls that impossible.
  `NeverRolledBackAlone` holds otherwise.
- `commands_revoked` — **`zegel grant` after `zegel revoke` brings the revoked key back.** Both patch the list of the last kept receipt,
  and neither keeps the list it made (`cli/src/commands/grantee.ts:88`, `:131`, against `:43`).

Others were met while modelling. They are in the models as the code has them and no property claims otherwise.

The registry, the gateway and the lookup:

- `ZegelIssuerRegistry.sol:295` says a bump invalidates every role ever granted against the name, and `:217` that a registration must not
  inherit delegations. A grant by the root at a resource of the version to come (`:412` takes any, `:327` derives any)
  survives both. `ResetCutsDelegates` excepts what was begun so.
- `store/types.ts:53` again: the memory store forgets its nonces with the process, so that after a restart an old publish is
  accepted within its hour. `NeverRolledBackAlone` is about the file store. There a publish whose flush failed, answered 500, is
  served until the process stops and gone after the restart (`store/file.ts:76-84`); the property calls a rollback what is older
  than a 201.
- `gateway/src/health.ts:66`: the feed store counts cached 404s and expired envelopes as records held, so that one that can answer
  nothing reports degraded and not down. Health looks at `resolvers[0]` alone, calls itself ok with every probe of the chain skipped,
  and looks neither for wrapped names when no NameWrapper is configured, whose publishes are refused, nor at the NameWrapper when
  one is; of the registry it asks only whether there is code (`owner.ts:124`). With a well-formed wrong address it is ok while
  publishes of wrapped names, or of all, go by the wrong owner. `HealthForetells` says only what is left.
- `gateway/src/config.ts:17` counts only the signature's 60 s as staleness. The feed cache and a read stand before it, and a
  feed that cannot be read is served from the cache until its envelope expires. `StalenessIsBounded` has the sum.

Sealing, the app and the command line:

- Access page: a withdrawal can be clicked while a grant is under way (`access.tsx:355`, `:527`); the grant's answer, coming
  last, saves the record it was clicked on and so the key is in again. `RevokedStaysOutAlone` excludes exactly that.
- Access page: two reads of the grantee list may cross and the later *answer* is shown (`access.tsx:106`); `app/README.md:94-96` says that
  the ledger on screen is the node's answer. `LedgerIsTrue` excludes that.
- `app/src/lib/server/swarm.ts:41-46` makes a client, and so a queue, for each request; `packages/seal/README.md:184-188` says every grantee
  write goes through a serialised queue. Two requests are not spaced; the theorem is about one client.
- `packages/seal/src/client.ts:223`: `reseal` defaults to the history of the receipt it is given. The example in
  `packages/seal/README.md:244-246` revokes and then reseals without the new history, which leaves the content open to the key.
- `cli/src/commands/grantee.ts:179` prints after a grant that the grantee can now resolve the name and decrypt: the new version is
  neither sealed nor published by that command.
- `app/src/app/api/issue/route.ts:203`: when the second tier fails the envelope names no tier although the first is stored (`:223`,
  `:239`). A connection that breaks after the record was saved shows a refusal beside it.
- The anchor control saves the record it was rendered with (`issue.tsx:689`), and so does a grant or a withdrawal (`access.tsx:169`): an
  anchor confirmed late puts the old coordinates back, and the other way round. `AnchorIsKeptAlone` and
  `RevokedStaysOutAlone` exclude overlapping changes.
- The control is there as soon as an envelope is printed (`issue.tsx:478`). If nothing was sealed, the hash is shown and kept nowhere
  (`:687-688`); a confirmation that comes after the button was pressed again finds no control. `AnchorIsKeptAlone` is about
  references that were kept.
- A trial read that is answered after a grant, a withdrawal or a turn of the page is shown beside the ledger it no longer goes with
  (`access.tsx:195`, `:214`, `:308`); `TrialBearsOutLedger` excepts it. And a node that is down, slow or answers 500 is
  reported as refusing (`swarm.ts:162`, `:181`), while `api/access/read/route.ts:15-17` calls a failure "unambiguously *access*":
  the property concludes nothing from a refusal.
- The access page shows a key that was withdrawn and granted again as withdrawn while the list cannot be read.
- `cli/README.md:336` says that a node with no postage capacity left falls back to the gateway, loudly, and `probes.ts:348` that issue
  does. A batch named by `ZEGEL_POSTAGE_BATCH_ID` is accepted once usable (`postage.ts:209`), full or not: connecting succeeds,
  the uploads fail, and the fallback at `issue.ts:269` is only for connecting. `DoctorForetells` excepts that batch.
- `ZEGEL_ACT_PUBLISHER` is used for whichever backend answers (`backend.ts:263`), so that after a fallback the envelope may name a
  publisher that sealed nothing. `SuccessMeansSealed` excepts a configured publisher.
- `cli/README.md:301` and `subject.ts:104` offer `ETH_RPC_URL` for names; the command line's doctor probes it
  (`probes.ts:123`) and its lookups never read it. The regular expressions at `subject.ts:36-42` lack backslashes, so that a name with
  an `s` in its label is not taken for one; the model takes a name for what it is.
- `probes.ts:205` says that a rejected key falls back to the demo host; `client.ts:131` asks the production host alone. Doctor's row
  for the node looks neither at the depth of the batch nor at the one that is configured, which the node may not have.
- Three more ways for `zegel issue` to fail under a green doctor, all excepted by `DoctorForetells`. A host that answers 200 with a
  body that is no JSON is "ok" to doctor (`probes.ts:75`) and throws at the collection (`client.ts:191`). A `ZEGEL_ACT_PUBLISHER` that
  does not parse is never looked at by doctor and thrown by the node's connection and by the gateway's (`backend.ts:263`), so that
  nothing is sealed. A node that takes between 1.5 s (`backend.ts:117`) and 8 s (`probes.ts:40`) is in working order to doctor and not
  there to `issue`, which then cannot name readers.
- `zegel issue --no-seal` ignores `--grant` without a word. `app/README.md:77` says the app buys a batch if it has none; no caller
  allows it to.

Verdicts:

- `verify.tsx` shows the answer that came last, beside whatever document is selected by then.
- `cli/src/commands/verify.ts:85`: without `--anchor` the command asks the contract that the envelope's `revocationHint` names, which is
  whatever its author wrote. A doctored copy of a withdrawn reference can so be called valid, with a live anchor; the comment at
  `:326` says the chain is asked about the claims lest a doctored envelope vouch for itself. `WithdrawnIsSeen` and `ValidBindsClaims`
  speak of runs that ask the anchor.
- `cli/src/core/status.ts:171` skips an id that was never anchored, and matching claims then pass with exit code 0; the desk
  says there is nothing on file, since "saying otherwise would be the one thing this desk must never do" (`verify.tsx:408-413`).
  `ValidBindsClaims` and `DeskAndCommandAgree` except it.
- The other three cases of `DeskAndCommandAgree`: the desk re-derives a bundle and calls it tampered where the command, which never
  does, goes on; the desk says valid where nothing could be checked and the command unverifiable; and `verify/route.ts:147` compares
  the expiry with `<`, the command and the contract with `<=`.
- What the page's words overstate (`overstates`, `RowsBearOutVerdict`), `verify/route.ts:212-254`: an anchor that could not be read falls
  through to valid, under "the anchor on Base is live", or to expired, under "nobody withdrew anything"; a read that opened no claims
  to "the commitment matches". A refusal for the commitment in the anchor alone, or for a claim whose terms were edited or that is
  missing from the bundle, is explained by recorded responses that no longer hash. A refusal of the claims says that the anchor holds the
  envelope's commitment, and a read that opened nothing that every tier answered 404: neither was looked at, and an error, a
  timeout or bytes that are not JSON count as refused too (`swarm.ts:162-191`).
- `app/src/lib/server/swarm.ts:225-237` says swapped bytes fail at the digest; what does not decode as an envelope is opened as
  a bare payload (`:241`), and only the commitment catches it.

Solana and evidence:

- `solana/src/revoke.ts:49-53` says a stale id cannot tear down whatever the subject holds. The transaction names the
  account only, so a close and a new issue in between are torn down all the same; `StaleIdClosesNothingAlone` excludes that.
- `solana/README.md:192` says later traffic cannot bury the close: five successful transactions do. `WithdrawalIsSeen` says "in reach".
- `packages/evidence/src/collect.ts:101` says whatever fails is recorded as unavailable. A 200 that is not JSON rejects the whole
  collection (`client.ts:191`, `:236-243`); `unreadable` in `EvidenceCollection`.
- `packages/evidence/README.md:26-27` says that every claim depending on a failed source is omitted. A claim over several chains is
  made from the chains that answered; `ClaimsAreReproducible` describes it so.
- `packages/evidence/src/verify.ts:8-15` says that an edited bundle fails, one with a claim flipped or a source swapped among them. A
  response is compared only while it is there (`:48`), and only claims are re-derived. So a response that no claim needs may be taken
  out, with or without a note that it is unavailable; the subject, the reference, the date and the proof of control may be changed, and the
  endpoint, the parameters and the window as long as no claim changes; and `:58` keeps the last claim of an id, so another may stand
  ahead of it. A response put in place of another passes with its own digest if the claims stay. `EditsAreSeen` says what is left. (A
  body that is JSON `null` is to the model one that is gone.)
- `packages/evidence/src/client.ts:124` says `tryGet` never throws; the same 200 with an unreadable body does.

## 7. What is not modelled

- **What keeps nothing**: the landing page with its evidence streams, the app's exposure, subject and health routes and the pages that
  render them, the CLI's rendering and its dossier of exposure, `keypair`. They ask, answer and forget; the streams they answer
  with are those of `IssueDesk`.
- **Cryptography**: hashes are injective, a signature is who signed what, a sealed object opens to the keys of its history.
- **Formats and wording**: ABI, JSON and schema codecs, except the two encodings of a resolver's answer, which `ProofIsBound`
  is about; labels, reasons beyond their length, messages. Rounding of claim ratios.
- **Transport and provisioning**: Bee transport, buying postage, deferral of a seal on a gateway, keypairs, deployment scripts, the
  two-step transfer of contract ownership, the evidence client's rate-limit observer, the gateway's publish script.
- **Vendored code**: the Foundry test library.

In the modelled parts: one publisher and one browser tab; one subject and one issuer on Solana; one name in the registry
run. In `CcipRead` an envelope is a version with an expiry; `StoredEnvelope` has its fields.

## 8. Plan

Done, in this order: anchor and its lifecycle, registry, publishing, queue, access and commands, resolution, Solana, evidence;
proofs of the anchor and the queue; verdicts, the issue page, the commands over changing services, the gateway's frame; proofs of the
registry, the gateway, lookups, the issue desk with the access page, and Solana; proofs of the two readers of the anchor, the commands
and the evidence.

Model next:

1. The two-step ownership of the contracts, as callers of `ZegelResolver` and the roots of `IssuerRegistry`.
2. An abstract specification of publishing (a register of the highest publish per name) that `GatewayPublish` implements
   while no two publishes race, in place of the separate nonce properties.
3. The exposure report that `scan` and the app compute from a bundle, as a function of its sources beside `ClaimDerivation`.

Prove next: that publishing implements that register, from `NonceInv` and `RaceInv`; then, if a prover with induction over finite sets
is at hand, that `MapThenSumSet` does not depend on the order of its set, from which `ClaimsAreReproducible` follows by `counted` being one
source for a cycle.
