--------------------------- MODULE GatewayPublish ---------------------------
(***************************************************************************)
(* Publishing an envelope to the gateway: POST /admin/envelopes            *)
(* (gateway/src/app.ts, admin.ts) over the memory store                    *)
(* (store/memory.ts) or the file store (store/file.ts), its two maps       *)
(* written to a file.                                                      *)
(*                                                                         *)
(* A handler runs up to its next await; between awaits other handlers run. *)
(* It checks the request and the last nonce, awaits the owner of the name, *)
(* verifies the signature against that answer, and puts the record. The    *)
(* file store answers from two maps in memory and writes them out one      *)
(* flush at a time, to a temporary file that is renamed into place. The    *)
(* process may stop at any point and starts again from the file, or from   *)
(* its seed if there is none.                                              *)
(***************************************************************************)
EXTENDS NameOwners, FiniteSets

CONSTANTS
    Envs,         \* the environments a gateway is started in
    Safes,        \* the owners that are contracts: their signatures are checked on chain
    BootKeys,     \* keys generated at boot
    Messages,     \* the signed publishes in circulation; one may be sent again
    Requests,     \* the requests the gateway handles
    MaxWindow,    \* MAX_AUTHORISATION_WINDOW_SECONDS
    MaxInFlight,  \* bound: handlers between their first and last await
    MaxTime       \* bound: the last instant of the model

Message == [node : Nodes, signer : Owners, nonce : Nat \ {0}, validUntil : Nat,
            gateway : BootKeys \cup {SignerKey}, envelope : EnvelopeText]

ASSUME PublishConstants ==
    /\ NoRecord \notin Messages \cup Seeds
    /\ Messages \subseteq Message
    /\ IsFiniteSet(Nodes)
    /\ \A s \in Seeds : s.nonce = 0 /\ s.node \in Nodes /\ s.envelope \in EnvelopeText
    /\ Safes \subseteq Owners /\ SignerKey \notin BootKeys
    /\ Envs \subseteq Env
    /\ MaxWindow \in Nat /\ MaxInFlight \in Nat /\ MaxTime \in Nat

VARIABLES
    now,      \* config.now()
    key,      \* config.signer
    loaded,   \* #loaded: not begun, resolved, or rejected for good
    mem,      \* #records and #nonces
    disk,     \* the JSON file
    req,      \* req[q]: where the handler of request q stands
    chain,    \* #writes: the puts whose flush has not settled, oldest first
    writing,  \* the snapshot the running flush writes, or NoSnapshot
    raced     \* whether two publishes of one name were ever between check and put

processVars == <<config, now, key, loaded, mem, disk, req, chain, writing, raced>>
vars == <<processVars, nameVars>>

\* Everything but the handlers.
store == <<loaded, mem, disk, chain, writing>>
settings == <<config, now, key, nameVars>>

EmptyStore == [records |-> [n \in Nodes |-> NoRecord], nonces |-> [n \in Nodes |-> 0]]

\* No flush is running.
NoSnapshot == [records |-> <<>>, nonces |-> <<>>]

\* The records the memory store is made with; the seed of other stores is empty.
seeded(conf) == [records |-> conf.seed, nonces |-> EmptyStore.nonces]

InFlight == {"admitted", "wrapped", "owned", "queued"}

Handling == {q \in Requests : req[q].phase \in InFlight}

\* The requests that are past the nonce check and have not put yet.
Undecided == {q \in Requests : req[q].phase \in {"admitted", "wrapped", "owned"}}

\* A handler with nothing to remember. The message of a publish that was not
\* accepted does not matter any more.
handler(phase) == [phase |-> phase, msg |-> NoRecord, owner |-> NoOwner, holders |-> {}]
----------------------------------------------------------------------------
(* The handler, from await to await. *)

\* Everything up to and including the nonce check.
Acceptable(m) ==
    /\ config.writable
    /\ parses(m.envelope)
    /\ m.validUntil > now /\ m.validUntil - now =< MaxWindow
    /\ expiresAtSeconds(m.envelope) > now
    /\ loaded = "ok"
    /\ m.nonce > mem.nonces[m.node]

Submit(q, m) ==
    /\ req[q].phase = "new"
    /\ loaded # "no"
    /\ Cardinality(Handling) < MaxInFlight
    /\ req' = [req EXCEPT ![q] = IF Acceptable(m)
                                THEN [phase |-> "admitted", msg |-> m, owner |-> NoOwner, holders |-> {holder(m.node)}]
                                ELSE handler("refused")]
    /\ raced' = (raced \/ (Acceptable(m) /\ \E r \in Undecided : req[r].msg.node = m.node))
    /\ UNCHANGED <<settings, store>>

\* The owner lookup has its answer; nobody's name cannot be published under.
answer(q, owner) ==
    req' = [req EXCEPT ![q] = IF owner = NoOwner THEN handler("refused") ELSE [@ EXCEPT !.phase = "owned", !.owner = owner]]

\* The operator's map answers, or the registry does, with the owner of this
\* moment; a registry that cannot be read is a 500.
ReadOwner(q) ==
    LET n == req[q].msg.node
    IN  /\ req[q].phase = "admitted"
        /\ IF config.owners.kind = "static" THEN answer(q, config.owners.map[n])
           ELSE \/ /\ ~RegistryAnswers \/ MayRevert
                   /\ req' = [req EXCEPT ![q] = handler("failed")]
                \/ /\ RegistryAnswers
                   /\ \E owner \in registryReads(n) :
                         IF secondHop(owner) THEN req' = [req EXCEPT ![q].phase = "wrapped"] ELSE answer(q, owner)
        /\ UNCHANGED <<settings, store, raced>>

\* The NameWrapper answers with the owner of a later moment.
ReadWrapper(q) ==
    /\ req[q].phase = "wrapped"
    /\ IF reachable THEN answer(q, wrapperOwner[req[q].msg.node])
       ELSE req' = [req EXCEPT ![q] = handler("failed")]
    /\ UNCHANGED <<settings, store, raced>>

\* What put writes to the maps: the record always, the nonce if it is higher.
remember(maps, m) ==
    [records |-> [maps.records EXCEPT ![m.node] = m],
     nonces |-> [maps.nonces EXCEPT ![m.node] = IF m.nonce > @ THEN m.nonce ELSE @]]

\* verifyPublishSignature: for this gateway, by the owner as read before; a
\* contract's signature takes a chain that answers.
authorised(m, owner) ==
    /\ m.gateway = key
    /\ m.signer = owner
    /\ owner \in Safes => config.client /\ reachable

\* The maps change at once, and readers see it; the put of the file store
\* resolves with its flush.
Put(q) ==
    LET m == req[q].msg
    IN  /\ req[q].phase = "owned"
        /\ IF ~authorised(m, req[q].owner)
           THEN req' = [req EXCEPT ![q] = handler("refused")] /\ UNCHANGED <<mem, chain>>
           ELSE /\ mem' = remember(mem, m)
                /\ IF config.store = "file"
                   THEN /\ req' = [req EXCEPT ![q] = [handler("queued") EXCEPT !.msg = m]]
                        /\ chain' = Append(chain, q)
                   ELSE /\ req' = [req EXCEPT ![q] = [handler("ok") EXCEPT !.msg = m]]
                        /\ UNCHANGED chain
        /\ UNCHANGED <<settings, loaded, disk, writing, raced>>
----------------------------------------------------------------------------
(* The file. *)

\* Mutant of Load: the nonces are not read back.
Load_RecordsOnly ==
    /\ loaded = "no"
    /\ \/ loaded' = "ok" /\ mem' = [disk EXCEPT !.nonces = EmptyStore.nonces]
       \/ loaded' = "failed" /\ UNCHANGED mem
    /\ UNCHANGED <<settings, disk, req, chain, writing, raced>>

\* The file is read once per process, on first use; a failure other than a
\* missing file is remembered for as long as the process lives.
Load ==
    /\ loaded = "no"
    /\ \/ loaded' = "ok" /\ mem' = disk
       \/ loaded' = "failed" /\ UNCHANGED mem
    /\ UNCHANGED <<settings, disk, req, chain, writing, raced>>

\* Mutants of FlushStart: a flush writes its own record only, and a flush is
\* skipped while others wait behind it.
FlushStart_OwnRecord ==
    /\ chain # <<>> /\ writing = NoSnapshot
    /\ writing' = remember(disk, req[Head(chain)].msg)
    /\ UNCHANGED <<settings, loaded, mem, disk, req, chain, raced>>

FlushStart_Alone ==
    /\ Len(chain) = 1 /\ writing = NoSnapshot
    /\ writing' = mem
    /\ UNCHANGED <<settings, loaded, mem, disk, req, chain, raced>>

\* A flush starts when the one before it has settled, with the maps as they
\* are then, which may already hold later puts.
FlushStart ==
    /\ chain # <<>> /\ writing = NoSnapshot
    /\ writing' = mem
    /\ UNCHANGED <<settings, loaded, mem, disk, req, chain, raced>>

FlushDone ==
    /\ writing # NoSnapshot
    /\ disk' = writing
    /\ writing' = NoSnapshot
    /\ req' = [req EXCEPT ![Head(chain)].phase = "ok"]
    /\ chain' = Tail(chain)
    /\ UNCHANGED <<settings, loaded, mem, raced>>

\* Mutant: the put awaits the guarded chain, whose rejection is swallowed.
FlushFail_Swallowed ==
    /\ writing # NoSnapshot
    /\ writing' = NoSnapshot
    /\ req' = [req EXCEPT ![Head(chain)].phase = "ok"]
    /\ chain' = Tail(chain)
    /\ UNCHANGED <<settings, loaded, mem, disk, raced>>

\* A flush that fails rejects its own put only; the next one starts all the same.
FlushFail ==
    /\ writing # NoSnapshot
    /\ writing' = NoSnapshot
    /\ req' = [req EXCEPT ![Head(chain)] = handler("failed")]
    /\ chain' = Tail(chain)
    /\ UNCHANGED <<settings, loaded, mem, disk, raced>>

\* What a process starts with. The key of the last one is gone.
boot(conf) ==
    /\ loaded' = IF conf.store = "file" THEN "no" ELSE "ok"
    /\ mem' = seeded(conf)
    /\ chain' = <<>> /\ writing' = NoSnapshot
    /\ key' \in IF conf.ephemeralSigner THEN BootKeys \ {key} ELSE {SignerKey}

\* The process stops, before or after the rename of a flush under way, and
\* starts again with nothing but the file or the seed, and with a new key if
\* none is configured.
Restart ==
    /\ disk' \in {disk} \cup IF writing = NoSnapshot THEN {} ELSE {writing}
    /\ boot(config)
    /\ req' = [q \in Requests |-> IF q \in Handling THEN handler("lost") ELSE req[q]]
    /\ UNCHANGED <<config, now, nameVars, raced>>
----------------------------------------------------------------------------
\* A name changes hands or goes into or out of the wrapper, whatever the
\* gateway is doing. The history notes who held it while a request was handled.
Trade(n) ==
    /\ (\E o \in Owners \cup {NoOwner} : Transfer(n, o)) \/ Wrap(n) \/ Unwrap(n)
    /\ req' = [q \in Requests |-> IF q \in Undecided /\ req[q].msg.node = n
                                 THEN [req[q] EXCEPT !.holders = @ \cup {holder(n)'}] ELSE req[q]]
    /\ UNCHANGED <<config, now, key, reachable, store, raced>>

\* The RPC endpoint fails, or comes back.
Outage ==
    /\ config.client
    /\ reachable' = ~reachable
    /\ UNCHANGED <<processVars, registryOwner, wrapperOwner>>

Tick ==
    /\ now < MaxTime
    /\ now' = now + 1
    /\ UNCHANGED <<config, key, nameVars, store, req, raced>>

Init ==
    /\ config \in {loadConfig(env) : env \in {e \in Envs : boots(e)}}
    /\ NameInit
    /\ now = 0
    /\ key \in IF config.ephemeralSigner THEN BootKeys ELSE {SignerKey}
    /\ loaded = IF config.store = "file" THEN "no" ELSE "ok"
    /\ mem = seeded(config) /\ disk = EmptyStore
    /\ req = [q \in Requests |-> handler("new")]
    /\ chain = <<>> /\ writing = NoSnapshot
    /\ raced = FALSE

\* A handler takes its next step.
Handle(q) == ReadOwner(q) \/ ReadWrapper(q) \/ Put(q)

Next ==
    \/ \E q \in Requests : (\E m \in Messages : Submit(q, m)) \/ Handle(q)
    \/ Load \/ FlushStart \/ FlushDone \/ FlushFail \/ Restart
    \/ \E n \in Traded : Trade(n)
    \/ Outage \/ Tick

\* An await settles: a lookup, and the flush at the head of the chain, which
\* starts and ends one way or the other. Nobody owes the gateway a request, a
\* first read of its file, a transfer or a restart.
Fairness ==
    /\ WF_vars(FlushStart \/ FlushDone \/ FlushFail)
    /\ \A q \in Requests : WF_vars(Handle(q))

Spec == Init /\ [][Next]_vars
FairSpec == Spec /\ Fairness
----------------------------------------------------------------------------
\* A publish the gateway answered with 201 survives any restart: the file has
\* accepted its nonce, so the same signed message is never accepted again.
AckedIsDurable ==
    \A q \in Requests : config.store = "file" /\ req[q].phase = "ok" =>
        disk.nonces[req[q].msg.node] >= req[q].msg.nonce

\* Whatever puts, failed flushes and restarts come in between, the file never
\* forgets a nonce it accepted.
FileNoncesNeverRegress ==
    [][\A n \in Nodes : disk'.nonces[n] >= disk.nonces[n]]_vars

\* The last flush of a burst leaves file and maps equal, so a record whose own
\* flush failed is written by the next flush that succeeds.
LastFlushWritesEverything ==
    [][disk' # disk /\ loaded' = "ok" /\ chain' = <<>> => disk' = mem']_vars

\* Every request the gateway has begun to handle is answered, or its process is
\* gone: a failed flush does not hold up the puts behind it. A request is handled
\* once and they are finitely many, so that each settles means that again and
\* again none is in flight.
EveryRequestSettles == []<>(Handling = {})

\* What is served for a name, and what is on file, only moves to higher nonces.
Advances(n) ==
    /\ loaded = "ok" /\ loaded' = "ok" /\ mem.records[n] # NoRecord
          => mem'.records[n].nonce >= mem.records[n].nonce
    /\ disk.records[n] # NoRecord => disk'.records[n].nonce >= disk.records[n].nonce

\* gateway/src/store/types.ts:53 and file.ts:26: a publish is a signed message
\* and replaying an old one, which would revert the name to a superseded
\* envelope, is impossible.
NeverRolledBack == [][\A n \in Nodes : Advances(n)]_vars

\* What is served for a name is no older than any publish of it answered with 201.
KeepsAcknowledged(n) ==
    loaded' = "ok" =>
        \A q \in Requests : req[q].phase = "ok" /\ req[q].msg.node = n =>
            mem'.records[n] # NoRecord /\ mem'.records[n].nonce >= req[q].msg.nonce

\* As long as no two publishes of a name are between check and put at once, that
\* is so over the file store, whatever flushes fail, names change hands or other
\* names are published: a running process and its file only move forwards, and
\* after a restart too nothing is served that is older than what was answered
\* with 201. A publish whose flush failed, a 500, is served all the same until the
\* process stops, and is gone after that unless a later flush wrote it. The
\* memory store forgets its nonces with the process.
NeverRolledBackAlone ==
    [][raced' \/ config.store # "file" \/ \A n \in Nodes : Advances(n) /\ KeepsAcknowledged(n)]_vars

\* gateway/src/admin.ts:50: the authority is ownership of the name, as ENS
\* itself establishes it. Whoever signed what a gateway that reads ENS's registry
\* puts held the name at some moment since the request came, although the registry
\* and the wrapper are read one after the other and the wrapper's address may be
\* wrong. Another contract in the registry's place would be taken at its word.
ReadsEns == config.client /\ (config.owners.kind = "chain" => config.owners.registry = EnsRegistry)

PublisherHeldTheName ==
    [][\A q \in Requests : ReadsEns /\ req[q].phase = "owned" /\ req'[q].phase \in {"queued", "ok"} =>
          req[q].msg.signer \in req[q].holders]_vars
=============================================================================
