---------------------------- MODULE GatewayProofs ----------------------------
(***************************************************************************)
(* Theorems about the gateway's publish path and health report, for every  *)
(* set of names, owners, messages and environments and every bound.        *)
(*                                                                         *)
(* None of the properties is inductive. What carries them is an order: the *)
(* nonces on file, in the snapshot being written and in the maps never     *)
(* decrease from one to the next, while the oldest put in the chain is     *)
(* covered by the snapshot. The records follow the same order as long as   *)
(* no two publishes of a name were between check and put. The authority of *)
(* a publish rests on whom the contracts said to hold the name since the   *)
(* request came.                                                           *)
(***************************************************************************)
EXTENDS GatewayHealth, FiniteSetTheorems, TLAPS

Records == Messages \cup Seeds \cup {NoRecord}
Maps == [records : [Nodes -> Records], nonces : [Nodes -> Nat]]
Phases == InFlight \cup {"new", "ok", "refused", "failed", "lost"}
Answers == Owners \cup {NoOwner, Wrapper}
Handler == [phase : Phases, msg : Messages \cup {NoRecord}, owner : Answers,
            holders : SUBSET (Owners \cup {NoOwner})]

\* What loadConfig makes of an environment that boots.
ConfigInv ==
    /\ config.store \in {"memory", "file", "swarm-feed"}
    /\ config.writable <=> config.store # "swarm-feed"
    /\ config.client \in BOOLEAN /\ config.ephemeralSigner \in BOOLEAN
    /\ config.seed \in [Nodes -> Seeds \cup {NoRecord}]
    /\ \A n \in Nodes : config.seed[n] # NoRecord => config.store = "memory" /\ parses(config.seed[n].envelope)
    /\ IF config.client
       THEN /\ config.owners.kind = "chain" /\ config.owners.nameWrapper \in {Unset, Wrapper, Stray}
            /\ config.owners.registry \in {EnsRegistry, Stray}
       ELSE config.owners.kind = "static" /\ config.owners.map \in [Nodes -> Owners \cup {NoOwner}]
    /\ ~config.ephemeralSigner => key = SignerKey

TypeInv ==
    /\ now \in Nat
    /\ loaded \in {"no", "ok", "failed"}
    /\ mem \in Maps /\ disk \in Maps /\ writing \in Maps \cup {NoSnapshot}
    /\ req \in [Requests -> Handler]
    /\ chain \in Seq(Requests)
    /\ raced \in BOOLEAN
    /\ registryOwner \in [Nodes -> Answers] /\ wrapperOwner \in [Nodes -> Owners \cup {NoOwner}]
    /\ \A q \in Requests : req[q].phase \in InFlight \cup {"ok"} => req[q].msg \in Messages

\* The chain holds puts that wait for their flush, each once, and only over a
\* file that was read; a flush runs for the oldest.
ChainInv ==
    /\ \A i \in 1..Len(chain) : req[chain[i]].phase = "queued"
    /\ \A i, j \in 1..Len(chain) : chain[i] = chain[j] => i = j
    /\ config.store # "file" => loaded = "ok" /\ chain = <<>>
    /\ writing # NoSnapshot => chain # <<>>
    /\ loaded # "ok" => chain = <<>> /\ \A q \in Requests : req[q].phase \notin InFlight

\* No nonce decreases from the first maps to the second.
NoncesUpTo(before, after) == \A n \in Nodes : before.nonces[n] =< after.nonces[n]

Covers(maps, m) == maps.nonces[m.node] >= m.nonce

\* File, snapshot and maps in the order of their nonces, and the puts they cover.
NonceInv ==
    /\ loaded = "ok" /\ config.store = "file" => NoncesUpTo(disk, mem)
    /\ writing # NoSnapshot =>
          /\ NoncesUpTo(disk, writing) /\ NoncesUpTo(writing, mem)
          /\ Covers(writing, req[chain[1]].msg)
          /\ Len(chain) = 1 => writing = mem
    /\ \A q \in Requests : req[q].phase = "queued" => Covers(mem, req[q].msg)
    /\ AckedIsDurable

\* Nothing is kept that parseEnvelope would not take, and no record has a later
\* nonce than its name over a file.
Kept(maps) ==
    \A n \in Nodes : maps.records[n] # NoRecord =>
        /\ parses(maps.records[n].envelope)
        /\ maps.records[n].envelope \in EnvelopeText
        /\ maps.records[n].nonce \in Nat
        /\ maps.records[n].nonce =< maps.nonces[n]

KeptInv ==
    /\ Kept(mem) /\ Kept(disk) /\ (writing # NoSnapshot => Kept(writing))
    /\ \A q \in Requests : req[q].phase \in InFlight => parses(req[q].msg.envelope)

\* No record gives way to an older one from the first maps to the second.
RecordsUpTo(before, after) ==
    \A n \in Nodes : before.records[n] # NoRecord =>
        after.records[n] # NoRecord /\ before.records[n].nonce =< after.records[n].nonce

\* As long as no two publishes of a name were under way at once.
RaceInv ==
    ~raced =>
        /\ \A q \in Undecided : req[q].msg.nonce > mem.nonces[req[q].msg.node]
        /\ \A q, r \in Undecided : req[q].msg.node = req[r].msg.node => q = r
        /\ loaded = "ok" /\ config.store = "file" => RecordsUpTo(disk, mem)
        /\ writing # NoSnapshot => RecordsUpTo(disk, writing) /\ RecordsUpTo(writing, mem)

\* The record of the name is no older than the message.
HeldBy(maps, m) == maps.records[m.node] # NoRecord /\ m.nonce =< maps.records[m.node].nonce

\* Then what is answered with 201 is on file, with its record.
AckedInv ==
    ~raced /\ config.store = "file" =>
        /\ \A q \in Requests : req[q].phase = "queued" => HeldBy(mem, req[q].msg)
        /\ \A q \in Requests : req[q].phase = "ok" => HeldBy(disk, req[q].msg)
        /\ writing # NoSnapshot => HeldBy(writing, req[chain[1]].msg)

\* A request has seen everybody who held its name since it came, and the owner
\* it goes by is one of them or the wrapper itself, which signs nothing.
HolderInv ==
    /\ \A n \in Nodes : ~Wrapped(n) => wrapperOwner[n] = NoOwner
    /\ \A q \in Undecided :
          /\ holder(req[q].msg.node) \in req[q].holders
          /\ req[q].phase = "owned" /\ ReadsEns => req[q].owner \in req[q].holders \cup {Wrapper}

IInv == ConfigInv /\ TypeInv /\ ChainInv /\ NonceInv /\ KeptInv /\ RaceInv /\ AckedInv /\ HolderInv
----------------------------------------------------------------------------
\* What loadConfig makes of an environment the process boots in.
LEMMA BootedConfig ==
    ASSUME NEW env \in Envs, boots(env), config = loadConfig(env),
           ~config.ephemeralSigner => key = SignerKey
    PROVE  ConfigInv
<1> USE PublishConstants, OwnerConstants
<1>1. env \in Env
  OBVIOUS
<1>2. /\ config.store = storeOf(env) /\ config.client = env.rpcUrl /\ config.owners = ownersOf(env)
      /\ config.seed = IF env.entry = "worker" /\ env.seed # Unset THEN env.seed ELSE [n \in Nodes |-> NoRecord]
  BY DEF loadConfig
<1>3. storeOf(env) \in {"memory", "file", "swarm-feed"}
  BY <1>1 DEF boots, storeBoots, storeOf, Env, optional
<1>4. config.seed \in [Nodes -> Seeds \cup {NoRecord}]
  BY <1>1, <1>2 DEF boots, storeBoots, Env, optional
<1>5. ASSUME NEW n \in Nodes, config.seed[n] # NoRecord
      PROVE  config.store = "memory" /\ parses(config.seed[n].envelope)
  BY <1>2, <1>5 DEF boots, storeBoots, storeOf
<1>6. /\ config.ephemeralSigner \in BOOLEAN /\ config.client \in BOOLEAN
      /\ config.writable <=> storeOf(env) # "swarm-feed"
  BY <1>1 DEF loadConfig, Env
<1>7. CASE env.rpcUrl
  <2>1. /\ config.owners.kind = "chain" /\ config.owners.nameWrapper = env.nameWrapper
        /\ config.owners.registry = IF env.ensRegistry = Unset THEN EnsRegistry ELSE env.ensRegistry
    BY <1>2, <1>7 DEF ownersOf
  <2>2. env.nameWrapper \in {Unset, Wrapper, Stray} /\ env.ensRegistry \in {Unset, EnsRegistry, Stray}
    BY <1>1 DEF boots, Env, optional
  <2> QED
    BY <1>2, <1>3, <1>4, <1>5, <1>6, <1>7, <2>1, <2>2 DEF ConfigInv
<1>8. CASE ~env.rpcUrl
  <2>1. config.owners.kind = "static" /\ config.owners.map = env.nameOwners
    BY <1>2, <1>8 DEF ownersOf
  <2>2. env.nameOwners \in [Nodes -> Owners \cup {NoOwner}]
    BY <1>1, <1>8 DEF boots, Env
  <2> QED
    BY <1>2, <1>3, <1>4, <1>5, <1>6, <1>8, <2>1, <2>2 DEF ConfigInv
<1> QED
  BY <1>7, <1>8

LEMMA SeedFacts ==
    ASSUME ConfigInv
    PROVE  /\ seeded(config) \in Maps /\ Kept(seeded(config))
           /\ seeded(config).nonces = EmptyStore.nonces /\ seeded(config).records = config.seed
           /\ config.store # "memory" => seeded(config) = EmptyStore
           /\ EmptyStore \in Maps /\ Kept(EmptyStore)
<1> USE PublishConstants
<1>1. /\ EmptyStore.nonces \in [Nodes -> Nat] /\ \A n \in Nodes : EmptyStore.nonces[n] = 0
      /\ EmptyStore.records \in [Nodes -> Records] /\ \A n \in Nodes : EmptyStore.records[n] = NoRecord
      /\ EmptyStore \in Maps
  BY DEF EmptyStore, Maps, Records
<1>2. seeded(config).nonces = EmptyStore.nonces /\ seeded(config).records = config.seed
  BY DEF seeded
<1>3. seeded(config) \in Maps
  BY <1>1 DEF seeded, Maps, Records, ConfigInv
<1>4. Kept(seeded(config))
  <2> SUFFICES ASSUME NEW n \in Nodes, config.seed[n] # NoRecord
               PROVE  /\ parses(config.seed[n].envelope) /\ config.seed[n].envelope \in EnvelopeText
                      /\ config.seed[n].nonce \in Nat /\ config.seed[n].nonce =< EmptyStore.nonces[n]
    BY <1>2 DEF Kept
  <2>1. config.seed[n] \in Seeds
    BY DEF ConfigInv
  <2> QED
    BY <1>1, <2>1 DEF ConfigInv
<1>5. Kept(EmptyStore)
  BY <1>1 DEF Kept
<1>6. config.store # "memory" => seeded(config) = EmptyStore
  <2> SUFFICES ASSUME config.store # "memory" PROVE config.seed = [n \in Nodes |-> NoRecord]
    BY DEF seeded, EmptyStore
  <2> QED
    BY DEF ConfigInv
<1> QED
  BY <1>1, <1>2, <1>3, <1>4, <1>5, <1>6

LEMMA InitInv == Init => IInv
<1> SUFFICES ASSUME Init PROVE IInv
  OBVIOUS
<1> USE PublishConstants, OwnerConstants
<1>1. ConfigInv
  <2>1. PICK env \in Envs : boots(env) /\ config = loadConfig(env)
    BY DEF Init
  <2>2. ~config.ephemeralSigner => key = SignerKey
    BY DEF Init
  <2> QED
    BY <2>1, <2>2, BootedConfig
<1>2. /\ mem = seeded(config) /\ disk = EmptyStore /\ chain = <<>> /\ writing = NoSnapshot /\ now = 0
      /\ loaded = IF config.store = "file" THEN "no" ELSE "ok"
      /\ req = [q \in Requests |-> handler("new")] /\ raced = FALSE
      /\ registryOwner = [n \in Nodes |-> FirstOwner] /\ wrapperOwner = [n \in Nodes |-> NoOwner]
  BY DEF Init, NameInit
<1>3. \A q \in Requests : req[q].phase = "new"
  BY <1>2 DEF handler
<1>4. TypeInv
  <2>1. req \in [Requests -> Handler]
    BY <1>2 DEF handler, Handler, Phases, Answers
  <2>2. mem \in Maps /\ disk \in Maps
    BY <1>1, <1>2, SeedFacts
  <2>3. registryOwner \in [Nodes -> Answers] /\ wrapperOwner \in [Nodes -> Owners \cup {NoOwner}]
    BY <1>2 DEF Answers
  <2>4. loaded \in {"no", "ok", "failed"} /\ raced \in BOOLEAN /\ now \in Nat
    BY <1>2
  <2>5. \A q \in Requests : req[q].phase \notin InFlight \cup {"ok"}
    BY <1>3 DEF InFlight
  <2> QED
    BY <1>2, <2>1, <2>2, <2>3, <2>4, <2>5 DEF TypeInv
<1>5. ChainInv
  BY <1>2, <1>3 DEF ChainInv, InFlight
<1>6. NonceInv
  BY <1>2, <1>3 DEF NonceInv, AckedIsDurable
<1>7. KeptInv
  BY <1>1, <1>2, <1>3, SeedFacts DEF KeptInv, InFlight
<1>8. Undecided = {}
  BY <1>3 DEF Undecided
<1>9. RaceInv
  BY <1>2, <1>8 DEF RaceInv
<1>10. HolderInv
  BY <1>2, <1>8 DEF HolderInv
<1>11. AckedInv
  BY <1>2, <1>3 DEF AckedInv
<1> QED
  BY <1>1, <1>4, <1>5, <1>6, <1>7, <1>9, <1>10, <1>11 DEF IInv
----------------------------------------------------------------------------
(* Steps that leave the store alone: a handler up to its put, the chain. *)

\* No put is begun or settled, and no handler changes its message.
Quiet ==
    /\ UNCHANGED <<config, key, store>>
    /\ \A q \in Requests :
          /\ req[q].phase \in {"queued", "ok"} \/ req'[q].phase \in {"queued", "ok"} => req'[q] = req[q]
          /\ req'[q].phase \in InFlight =>
                IF req[q].phase \in InFlight THEN req'[q].msg = req[q].msg
                ELSE loaded = "ok" /\ parses(req'[q].msg.envelope)

LEMMA QuietKeeps ==
    ASSUME IInv, Quiet
    PROVE  ConfigInv' /\ ChainInv' /\ NonceInv' /\ KeptInv'
<1> USE DEF Quiet, store
<1>1. ConfigInv'
  BY DEF IInv, ConfigInv
<1>2. \A i \in 1..Len(chain) : chain[i] \in Requests /\ req'[chain[i]] = req[chain[i]]
  BY DEF IInv, TypeInv, ChainInv
<1>3. ChainInv'
  <2>1. \A i \in 1..Len(chain) : req'[chain[i]].phase = "queued"
    BY <1>2 DEF IInv, ChainInv
  <2>2. loaded # "ok" => \A q \in Requests : req'[q].phase \notin InFlight
    BY DEF IInv, ChainInv
  <2> QED
    BY <2>1, <2>2 DEF IInv, ChainInv
<1>4. NonceInv'
  <2>1. writing # NoSnapshot => req'[chain[1]] = req[chain[1]]
    <3>1. writing # NoSnapshot => 1 \in 1..Len(chain)
      BY DEF IInv, TypeInv, ChainInv
    <3> QED
      BY <1>2, <3>1
  <2>2. \A q \in Requests : req'[q].phase \in {"queued", "ok"} => req'[q] = req[q]
    OBVIOUS
  <2>3. \A q \in Requests : req'[q].phase = "queued" => Covers(mem, req'[q].msg)
    BY <2>2 DEF IInv, NonceInv
  <2>4. AckedIsDurable'
    BY <2>2 DEF IInv, NonceInv, AckedIsDurable
  <2> QED
    BY <2>1, <2>3, <2>4 DEF IInv, NonceInv, NoncesUpTo, Covers
<1>5. KeptInv'
  BY DEF IInv, KeptInv, Kept
<1> QED
  BY <1>1, <1>3, <1>4, <1>5

\* No request that has been put changes, nor does what is kept.
LEMMA QuietAcked ==
    ASSUME IInv, Quiet, raced => raced'
    PROVE  AckedInv'
<1> SUFFICES ASSUME ~raced', config.store = "file" PROVE AckedInv'
  BY DEF Quiet, AckedInv
<1>1. /\ \A q \in Requests : req'[q].phase \in {"queued", "ok"} => req'[q] = req[q]
      /\ UNCHANGED <<config, mem, disk, writing, chain>>
  BY DEF Quiet, store
<1>2. writing # NoSnapshot => req'[chain[1]] = req[chain[1]]
  <2>1. writing # NoSnapshot => 1 \in 1..Len(chain)
    BY DEF IInv, TypeInv, ChainInv
  <2>2. \A i \in 1..Len(chain) : chain[i] \in Requests /\ req[chain[i]].phase = "queued"
    BY DEF IInv, TypeInv, ChainInv
  <2> QED
    BY <2>1, <2>2 DEF Quiet
<1>3. AckedInv
  BY DEF IInv
<1>4. \A q \in Requests : req'[q].phase = "queued" => HeldBy(mem, req'[q].msg)
  BY <1>1, <1>3 DEF AckedInv
<1>5. \A q \in Requests : req'[q].phase = "ok" => HeldBy(disk, req'[q].msg)
  BY <1>1, <1>3 DEF AckedInv
<1> QED
  BY <1>1, <1>2, <1>3, <1>4, <1>5 DEF AckedInv, HeldBy

\* A quiet step that begins no request cannot race.
LEMMA QuietRace ==
    ASSUME IInv, Quiet, raced' = raced, Undecided' \subseteq Undecided
    PROVE  RaceInv'
<1>1. \A q \in Undecided' : q \in Undecided /\ req'[q].msg = req[q].msg
  <2>1. \A q \in Undecided' : q \in Undecided /\ q \in Requests
    BY DEF Undecided
  <2>2. \A q \in Undecided' : req'[q].phase \in InFlight /\ req[q].phase \in InFlight
    BY <2>1 DEF Undecided, InFlight
  <2> QED
    BY <2>1, <2>2 DEF Quiet
<1>2. UNCHANGED <<mem, disk, writing, loaded, config>>
  BY DEF Quiet, store
<1> QED
  BY <1>1, <1>2 DEF IInv, RaceInv, RecordsUpTo

\* A handler that is done with its request.
LEMMA HandlerFacts ==
    ASSUME NEW phase \in {"refused", "failed", "lost"}
    PROVE  /\ handler(phase) \in Handler /\ handler(phase).phase = phase
           /\ phase \notin InFlight \cup {"ok", "queued"}
  BY DEF handler, Handler, Phases, InFlight, Answers

\* One undecided handler takes a step short of its put, or gives up.
LEMMA HandlerStep ==
    ASSUME IInv, NEW q \in Undecided, NEW h \in Handler, req' = [req EXCEPT ![q] = h],
           UNCHANGED <<settings, store, raced>>,
           \/ h.phase \in {"refused", "failed"}
           \/ /\ h.phase \in {"wrapped", "owned"} /\ h.msg = req[q].msg /\ h.holders = req[q].holders
              /\ h.phase = "owned" /\ ReadsEns => h.owner \in h.holders \cup {Wrapper}
    PROVE  IInv'
<1>1. q \in Requests /\ req[q].phase \in InFlight /\ req[q].phase \notin {"queued", "ok"}
      /\ req[q].msg \in Messages
  BY DEF Undecided, InFlight, IInv, TypeInv
<1>2. req'[q] = h /\ \A r \in Requests : r # q => req'[r] = req[r]
  BY <1>1 DEF IInv, TypeInv
<1>3. h.phase \notin {"queued", "ok"} /\ (h.phase \in InFlight => h.phase \in {"wrapped", "owned"} /\ h.msg = req[q].msg)
  BY DEF InFlight
<1>4. Quiet
  BY <1>1, <1>2, <1>3 DEF Quiet, settings, IInv, KeptInv, ChainInv
<1>5. Undecided' \subseteq Undecided
  BY <1>2 DEF Undecided
<1>6. TypeInv'
  <2>1. req' \in [Requests -> Handler]
    BY <1>1 DEF IInv, TypeInv
  <2>2. ASSUME NEW r \in Requests, req'[r].phase \in InFlight \cup {"ok"}
        PROVE  req'[r].msg \in Messages
    BY <2>2, <1>1, <1>2, <1>3 DEF IInv, TypeInv
  <2> QED
    BY <2>1, <2>2 DEF IInv, TypeInv, settings, store, nameVars
<1>7. HolderInv'
  <2>1. UNCHANGED <<registryOwner, wrapperOwner, config>>
    BY DEF settings, nameVars
  <2>2. \A n : Wrapped(n)' = Wrapped(n) /\ holder(n)' = holder(n)
    BY <2>1 DEF Wrapped, holder
  <2>3. ASSUME NEW r \in Undecided'
        PROVE  /\ r \in Undecided /\ req'[r].msg = req[r].msg /\ req'[r].holders = req[r].holders
               /\ req'[r].phase = "owned" /\ ReadsEns => req'[r].owner \in req'[r].holders \cup {Wrapper}
    <3>1. r \in Undecided /\ r \in Requests /\ req'[r].phase \in {"admitted", "wrapped", "owned"}
      BY <1>5, <2>3 DEF Undecided
    <3> QED
      BY <3>1, <1>2 DEF IInv, HolderInv
  <2>4. \A n \in Nodes : ~Wrapped(n)' => wrapperOwner'[n] = NoOwner
    BY <2>1, <2>2 DEF IInv, HolderInv
  <2>5. ASSUME NEW r \in Undecided'
        PROVE  (holder(req[r].msg.node) \in req[r].holders)'
    BY <2>1, <2>3 DEF IInv, HolderInv, holder, Wrapped
  <2>6. ASSUME NEW r \in Undecided'
        PROVE  (req[r].phase = "owned" /\ ReadsEns => req[r].owner \in req[r].holders \cup {Wrapper})'
    BY <2>1, <2>3 DEF ReadsEns
  <2> QED
    BY <2>4, <2>5, <2>6 DEF HolderInv
<1> QED
  BY <1>4, <1>5, <1>6, <1>7, QuietKeeps, QuietRace, QuietAcked DEF IInv

\* The answer to an owner lookup.
LEMMA AnswerStep ==
    ASSUME IInv, NEW q \in Undecided, NEW owner \in Answers, answer(q, owner),
           UNCHANGED <<settings, store, raced>>,
           ReadsEns /\ owner # NoOwner => owner \in req[q].holders \cup {Wrapper}
    PROVE  IInv'
<1>1. q \in Requests /\ req[q] \in Handler
  BY DEF Undecided, IInv, TypeInv
<1>2. CASE owner = NoOwner
  BY <1>2, HandlerFacts, HandlerStep DEF answer
<1>3. CASE owner # NoOwner
  <2> DEFINE h == [req[q] EXCEPT !.phase = "owned", !.owner = owner]
  <2>1. req' = [req EXCEPT ![q] = h]
    BY <1>3 DEF answer
  <2>2. h \in Handler /\ h.phase = "owned" /\ h.msg = req[q].msg /\ h.holders = req[q].holders /\ h.owner = owner
    BY <1>1 DEF Handler, Phases, InFlight
  <2> HIDE DEF h
  <2> QED
    BY <1>3, <2>1, <2>2, HandlerStep
<1> QED
  BY <1>2, <1>3

\* The message of a request under way is about a name.
LEMMA UndecidedFacts ==
    ASSUME IInv, NEW q \in Undecided
    PROVE  /\ q \in Requests /\ req[q] \in Handler /\ req[q].msg \in Messages /\ req[q].msg.node \in Nodes
           /\ registryOwner[req[q].msg.node] \in Answers /\ wrapperOwner[req[q].msg.node] \in Owners \cup {NoOwner}
<1>1. q \in Requests /\ req[q].phase \in InFlight
  BY DEF Undecided, InFlight
<1>2. req[q] \in Handler /\ req[q].msg \in Messages
  BY <1>1 DEF IInv, TypeInv
<1>3. req[q].msg.node \in Nodes
  BY <1>2, PublishConstants DEF Message
<1> QED
  BY <1>1, <1>2, <1>3 DEF IInv, TypeInv

LEMMA ReadOwnerInv == ASSUME IInv, NEW q \in Requests, ReadOwner(q) PROVE IInv'
<1> DEFINE n == req[q].msg.node
<1>1. /\ req[q].phase = "admitted" /\ q \in Undecided
      /\ UNCHANGED <<settings, store, raced>>
  BY DEF ReadOwner, Undecided
<1>2. n \in Nodes /\ registryOwner[n] \in Answers /\ req[q] \in Handler
  BY <1>1, UndecidedFacts
<1>3. CASE config.owners.kind = "static"
  <2>1. ~config.client
    BY <1>3 DEF IInv, ConfigInv
  <2>2. config.owners.map[n] \in Answers
    BY <1>2, <2>1 DEF IInv, ConfigInv, Answers
  <2> QED
    BY <1>1, <1>3, <2>1, <2>2, AnswerStep DEF ReadOwner, ReadsEns
<1>4. CASE req' = [req EXCEPT ![q] = handler("failed")]
  BY <1>1, <1>4, HandlerFacts, HandlerStep
<1>5. CASE req' = [req EXCEPT ![q].phase = "wrapped"]
  <2> DEFINE h == [req[q] EXCEPT !.phase = "wrapped"]
  <2>1. req' = [req EXCEPT ![q] = h]
    BY <1>5
  <2>2. h \in Handler /\ h.phase = "wrapped" /\ h.msg = req[q].msg /\ h.holders = req[q].holders
    BY <1>2 DEF Handler, Phases, InFlight
  <2> HIDE DEF h
  <2> QED
    BY <1>1, <2>1, <2>2, HandlerStep
<1>6. ASSUME NEW owner \in registryReads(n), answer(q, owner) PROVE IInv'
  <2>1. owner \in Answers
    BY <1>2 DEF registryReads, Answers
  <2>2. holder(n) \in req[q].holders
    BY <1>1 DEF IInv, HolderInv
  <2>3. ReadsEns => owner \in req[q].holders \cup {Wrapper}
    BY <2>2 DEF holder, Wrapped, registryReads, ReadsEns, MayRevert, IInv, ConfigInv
  <2> QED
    BY <1>1, <1>6, <2>1, <2>3, AnswerStep
<1>7. CASE config.owners.kind # "static"
  BY <1>4, <1>5, <1>6, <1>7 DEF ReadOwner
<1> QED
  BY <1>3, <1>7

LEMMA ReadWrapperInv == ASSUME IInv, NEW q \in Requests, ReadWrapper(q) PROVE IInv'
<1> DEFINE n == req[q].msg.node
<1>1. q \in Undecided /\ UNCHANGED <<settings, store, raced>>
  BY DEF ReadWrapper, Undecided
<1>2. n \in Nodes /\ wrapperOwner[n] \in Owners \cup {NoOwner} /\ holder(n) \in req[q].holders
  BY <1>1, UndecidedFacts DEF IInv, HolderInv
<1>3. CASE reachable
  <2>1. wrapperOwner[n] # NoOwner => wrapperOwner[n] = holder(n)
    BY <1>2 DEF IInv, HolderInv, holder
  <2> QED
    BY <1>1, <1>2, <1>3, <2>1, AnswerStep DEF ReadWrapper, Answers
<1>4. CASE ~reachable
  BY <1>1, <1>4, HandlerFacts, HandlerStep DEF ReadWrapper
<1> QED
  BY <1>3, <1>4

LEMMA HolderType ==
    ASSUME IInv, NEW n \in Nodes
    PROVE  holder(n) \in Owners \cup {NoOwner}
  BY DEF IInv, TypeInv, holder, Wrapped, Answers

LEMMA SubmitInv == ASSUME IInv, NEW q \in Requests, NEW m \in Messages, Submit(q, m) PROVE IInv'
<1>1. /\ req[q].phase = "new" /\ UNCHANGED <<settings, store>>
      /\ raced' = (raced \/ (Acceptable(m) /\ \E r \in Undecided : req[r].msg.node = m.node))
  BY DEF Submit
<1>2. m.node \in Nodes /\ q \notin Undecided
  BY <1>1, PublishConstants DEF Message, Undecided
<1>3. PICK h \in Handler :
         /\ req' = [req EXCEPT ![q] = h]
         /\ \/ h.phase = "refused" /\ ~Acceptable(m)
            \/ h.phase = "admitted" /\ h.msg = m /\ h.holders = {holder(m.node)} /\ Acceptable(m)
  <2>1. CASE Acceptable(m)
    <3> DEFINE h == [phase |-> "admitted", msg |-> m, owner |-> NoOwner, holders |-> {holder(m.node)}]
    <3>1. h \in Handler
      BY <1>2, HolderType DEF Handler, Phases, InFlight, Answers
    <3> QED
      BY <2>1, <3>1 DEF Submit
  <2>2. CASE ~Acceptable(m)
    BY <2>2, HandlerFacts DEF Submit
  <2> QED
    BY <2>1, <2>2
<1>4. req'[q] = h /\ \A r \in Requests : r # q => req'[r] = req[r]
  BY <1>3 DEF IInv, TypeInv
<1>5. h.phase = "admitted" => loaded = "ok" /\ parses(m.envelope) /\ m.nonce > mem.nonces[m.node]
  BY <1>3 DEF Acceptable
<1>6. Quiet
  BY <1>1, <1>3, <1>4, <1>5 DEF Quiet, settings, IInv, KeptInv, ChainInv, InFlight
<1>7. TypeInv'
  <2>1. req' \in [Requests -> Handler]
    BY <1>3 DEF IInv, TypeInv
  <2>2. raced' \in BOOLEAN
    BY <1>1 DEF IInv, TypeInv
  <2>3. ASSUME NEW r \in Requests, req'[r].phase \in InFlight \cup {"ok"}
        PROVE  req'[r].msg \in Messages
    BY <2>3, <1>3, <1>4 DEF IInv, TypeInv, InFlight
  <2> QED
    BY <1>1, <2>1, <2>2, <2>3 DEF IInv, TypeInv, settings, store, nameVars
<1>8. \A r \in Undecided' :
         /\ r \in Requests
         /\ (r \in Undecided /\ req'[r] = req[r]) \/ (r = q /\ h.phase = "admitted")
  BY <1>3, <1>4 DEF Undecided
<1>9. RaceInv'
  <2> SUFFICES ASSUME ~raced' PROVE RaceInv'
    BY DEF RaceInv
  <2>1. ~raced /\ (Acceptable(m) => \A r \in Undecided : req[r].msg.node # m.node)
    BY <1>1
  <2>2. \A r \in Undecided' : req'[r].msg.nonce > mem.nonces[req'[r].msg.node]
    BY <1>3, <1>4, <1>5, <1>8, <2>1 DEF IInv, RaceInv
  <2>3. \A r, t \in Undecided' : req'[r].msg.node = req'[t].msg.node => r = t
    BY <1>3, <1>4, <1>8, <2>1 DEF IInv, RaceInv
  <2>4. UNCHANGED <<mem, disk, writing, loaded, config>>
    BY <1>1 DEF settings, store
  <2> QED
    BY <2>1, <2>2, <2>3, <2>4 DEF IInv, RaceInv, RecordsUpTo
<1>10. HolderInv'
  <2>1. UNCHANGED <<registryOwner, wrapperOwner, config>>
    BY <1>1 DEF settings, nameVars
  <2>2. \A n \in Nodes : (~Wrapped(n) => wrapperOwner[n] = NoOwner)'
    BY <2>1 DEF IInv, HolderInv, Wrapped
  <2>3. ASSUME NEW r \in Undecided'
        PROVE  (holder(req[r].msg.node) \in req[r].holders)'
    <3>1. CASE r \in Undecided /\ req'[r] = req[r]
      BY <2>1, <3>1 DEF IInv, HolderInv, holder, Wrapped
    <3>2. CASE r = q /\ h.phase = "admitted"
      BY <1>3, <1>4, <2>1, <3>2 DEF holder, Wrapped
    <3> QED
      BY <1>8, <3>1, <3>2
  <2>4. ASSUME NEW r \in Undecided'
        PROVE  (req[r].phase = "owned" /\ ReadsEns => req[r].owner \in req[r].holders \cup {Wrapper})'
    BY <1>4, <1>8, <2>1 DEF IInv, HolderInv, ReadsEns
  <2> QED
    BY <2>2, <2>3, <2>4 DEF HolderInv
<1> QED
  BY <1>1, <1>6, <1>7, <1>9, <1>10, QuietKeeps, QuietAcked DEF IInv

\* A name changes hands: whoever holds it now has been seen by every request.
LEMMA TradeInv == ASSUME IInv, NEW n \in Traded, Trade(n) PROVE IInv'
<1> USE OwnerConstants
<1>1. /\ UNCHANGED <<config, now, key, reachable, store, raced>>
      /\ req' = [q \in Requests |-> IF q \in Undecided /\ req[q].msg.node = n
                                    THEN [req[q] EXCEPT !.holders = @ \cup {holder(n)'}] ELSE req[q]]
      /\ (\E o \in Owners \cup {NoOwner} : Transfer(n, o)) \/ Wrap(n) \/ Unwrap(n)
  BY DEF Trade
<1>2. /\ registryOwner' \in [Nodes -> Answers] /\ wrapperOwner' \in [Nodes -> Owners \cup {NoOwner}]
      /\ \A m \in Nodes : m # n => registryOwner'[m] = registryOwner[m] /\ wrapperOwner'[m] = wrapperOwner[m]
      /\ \A m \in Nodes : registryOwner'[m] # Wrapper => wrapperOwner'[m] = NoOwner
  <2>0. /\ n \in Nodes /\ registryOwner \in [Nodes -> Answers] /\ wrapperOwner \in [Nodes -> Owners \cup {NoOwner}]
        /\ \A m \in Nodes : registryOwner[m] # Wrapper => wrapperOwner[m] = NoOwner
    BY DEF IInv, TypeInv, HolderInv, Wrapped
  <2>1. CASE \E o \in Owners \cup {NoOwner} : Transfer(n, o)
    BY <2>0, <2>1 DEF Transfer, Wrapped, Answers
  <2>2. CASE Wrap(n)
    BY <2>0, <2>2 DEF Wrap, Wrapped, Answers
  <2>3. CASE Unwrap(n)
    BY <2>0, <2>3 DEF Unwrap, Wrapped, Answers
  <2> QED
    BY <1>1, <2>1, <2>2, <2>3
<1> DEFINE after == holder(n)'
<1>3. after \in Owners \cup {NoOwner}
  BY <1>2 DEF holder, Wrapped, Answers
<1>4. ASSUME NEW q \in Requests
      PROVE  /\ req'[q] \in Handler /\ req'[q].phase = req[q].phase /\ req'[q].msg = req[q].msg
             /\ req'[q].owner = req[q].owner /\ req[q].holders \subseteq req'[q].holders
             /\ q \notin Undecided => req'[q] = req[q]
             /\ q \in Undecided /\ req[q].msg.node = n => after \in req'[q].holders
  <2>1. req[q] \in Handler
    BY DEF IInv, TypeInv
  <2> HIDE DEF after
  <2>2. CASE q \in Undecided /\ req[q].msg.node = n
    <3>1. req'[q] = [req[q] EXCEPT !.holders = @ \cup {after}]
      BY <1>1, <2>2 DEF after
    <3> QED
      BY <2>1, <2>2, <3>1, <1>3 DEF Handler
  <2>3. CASE ~(q \in Undecided /\ req[q].msg.node = n)
    BY <1>1, <2>1, <2>3
  <2> QED
    BY <2>2, <2>3
<1> HIDE DEF after
<1>5. Undecided' = Undecided
  BY <1>4 DEF Undecided
<1>6. \A q \in Undecided : req[q].phase \notin {"queued", "ok"}
  BY DEF Undecided
<1>7. Quiet
  BY <1>1, <1>4, <1>6 DEF Quiet, Undecided
<1>8. TypeInv'
  <2>1. req' \in [Requests -> Handler]
    BY <1>1, <1>4
  <2> QED
    BY <1>1, <1>2, <1>4, <2>1 DEF IInv, TypeInv, store
<1>9. HolderInv'
  <2>1. \A m \in Nodes : (~Wrapped(m) => wrapperOwner[m] = NoOwner)'
    BY <1>2 DEF Wrapped
  <2>2. ASSUME NEW r \in Undecided'
        PROVE  (holder(req[r].msg.node) \in req[r].holders)'
    <3>1. r \in Undecided /\ r \in Requests /\ req[r].msg.node \in Nodes
      BY <1>5, UndecidedFacts
    <3>2. CASE req[r].msg.node = n
      BY <1>4, <3>1, <3>2 DEF after, holder, Wrapped
    <3>3. CASE req[r].msg.node # n
      BY <1>2, <1>4, <3>1, <3>3 DEF IInv, HolderInv, holder, Wrapped
    <3> QED
      BY <3>2, <3>3
  <2>3. ASSUME NEW r \in Undecided'
        PROVE  (req[r].phase = "owned" /\ ReadsEns => req[r].owner \in req[r].holders \cup {Wrapper})'
    BY <1>1, <1>4, <1>5, UndecidedFacts DEF IInv, HolderInv, ReadsEns
  <2> QED
    BY <2>1, <2>2, <2>3 DEF HolderInv
<1> QED
  BY <1>1, <1>5, <1>7, <1>8, <1>9, QuietKeeps, QuietRace, QuietAcked DEF IInv

\* The endpoint fails or comes back, time passes, or nothing happens.
LEMMA AsideInv == ASSUME IInv, Outage \/ Tick \/ UNCHANGED vars PROVE IInv'
<1>1. /\ UNCHANGED <<config, key, loaded, mem, disk, chain, writing, req, raced, registryOwner, wrapperOwner>>
      /\ now' \in Nat
  BY DEF Outage, Tick, vars, processVars, nameVars, settings, store, IInv, TypeInv
<1>2. Quiet
  BY <1>1 DEF Quiet, store, IInv, ChainInv, InFlight
<1>3. Undecided' = Undecided
  BY <1>1 DEF Undecided
<1>4. TypeInv'
  BY <1>1 DEF IInv, TypeInv
<1>5. HolderInv'
  BY <1>1, <1>3 DEF IInv, HolderInv, holder, Wrapped, ReadsEns
<1> QED
  BY <1>1, <1>2, <1>3, <1>4, <1>5, QuietKeeps, QuietRace, QuietAcked DEF IInv

----------------------------------------------------------------------------
(* The put and the file. *)

\* What a put does to the maps.
LEMMA RememberFacts ==
    ASSUME NEW maps \in Maps, NEW m \in Messages
    PROVE  LET after == remember(maps, m)
           IN  /\ after \in Maps /\ NoncesUpTo(maps, after) /\ Covers(after, m)
               /\ after.records[m.node] = m
               /\ \A n \in Nodes : n # m.node => after.records[n] = maps.records[n] /\ after.nonces[n] = maps.nonces[n]
               /\ Kept(maps) /\ parses(m.envelope) => Kept(after)
<1> DEFINE after == remember(maps, m)
           higher == IF m.nonce > maps.nonces[m.node] THEN m.nonce ELSE maps.nonces[m.node]
<1>1. m.node \in Nodes /\ m.nonce \in Nat /\ m.envelope \in EnvelopeText
  BY PublishConstants DEF Message
<1>2. maps.records \in [Nodes -> Records] /\ maps.nonces \in [Nodes -> Nat]
  BY DEF Maps
<1>3. /\ after.records = [maps.records EXCEPT ![m.node] = m]
      /\ after.nonces = [maps.nonces EXCEPT ![m.node] = higher]
      /\ after = [records |-> after.records, nonces |-> after.nonces]
  BY DEF remember
<1>4. higher \in Nat /\ higher >= m.nonce /\ higher >= maps.nonces[m.node]
  BY <1>1, <1>2
<1> HIDE DEF after, higher
<1>5. after.records \in [Nodes -> Records] /\ after.nonces \in [Nodes -> Nat] /\ m \in Records
  BY <1>1, <1>2, <1>3, <1>4 DEF Records
<1>6. after \in Maps
  BY <1>3, <1>5 DEF Maps
<1>7. /\ after.records[m.node] = m /\ after.nonces[m.node] = higher
      /\ \A n \in Nodes : n # m.node => after.records[n] = maps.records[n] /\ after.nonces[n] = maps.nonces[n]
  BY <1>1, <1>2, <1>3
<1>8. NoncesUpTo(maps, after) /\ Covers(after, m)
  BY <1>1, <1>2, <1>4, <1>7 DEF NoncesUpTo, Covers
<1>9. ASSUME Kept(maps), parses(m.envelope) PROVE Kept(after)
  BY <1>1, <1>4, <1>7, <1>9 DEF Kept
<1> QED
  BY <1>6, <1>7, <1>8, <1>9 DEF after

\* The order of nonces is transitive, and what is covered stays so.
LEMMA NonceOrder ==
    ASSUME NEW a \in Maps, NEW b \in Maps, NEW c \in Maps, NoncesUpTo(a, b)
    PROVE  /\ NoncesUpTo(b, c) => NoncesUpTo(a, c)
           /\ \A m \in Messages : Covers(a, m) => Covers(b, m)
<1>1. \A n \in Nodes : a.nonces[n] \in Nat /\ b.nonces[n] \in Nat /\ c.nonces[n] \in Nat
  BY DEF Maps
<1>2. \A m \in Messages : m.node \in Nodes /\ m.nonce \in Nat
  BY PublishConstants DEF Message
<1> QED
  BY <1>1, <1>2 DEF NoncesUpTo, Covers

\* What is held stays held.
LEMMA HeldOn ==
    ASSUME NEW a, NEW b, NEW m \in Messages, Kept(a), Kept(b), RecordsUpTo(a, b), HeldBy(a, m)
    PROVE  HeldBy(b, m)
<1>1. m.node \in Nodes /\ m.nonce \in Nat
  BY PublishConstants DEF Message
<1>2. a.records[m.node].nonce \in Nat /\ b.records[m.node] # NoRecord /\ b.records[m.node].nonce \in Nat
  BY <1>1 DEF HeldBy, RecordsUpTo, Kept
<1> QED
  BY <1>1, <1>2 DEF HeldBy, RecordsUpTo

\* A put over records whose own nonces its name has reached.
LEMMA RecordOrder ==
    ASSUME NEW maps \in Maps, NEW before \in Maps, NEW m \in Messages,
           Kept(before), NoncesUpTo(before, maps), RecordsUpTo(before, maps), m.nonce > maps.nonces[m.node]
    PROVE  RecordsUpTo(before, remember(maps, m))
<1> DEFINE after == remember(maps, m)
<1>1. m.node \in Nodes /\ m.nonce \in Nat /\ m # NoRecord
  BY PublishConstants DEF Message
<1>2. /\ after.records[m.node] = m
      /\ \A n \in Nodes : n # m.node => after.records[n] = maps.records[n]
  BY RememberFacts
<1> HIDE DEF after
<1>3. before.nonces[m.node] \in Nat /\ maps.nonces[m.node] \in Nat /\ before.nonces[m.node] =< maps.nonces[m.node]
  BY <1>1 DEF Maps, NoncesUpTo
<1>4. before.records[m.node] # NoRecord => before.records[m.node].nonce =< m.nonce
  BY <1>1, <1>3 DEF Kept
<1> QED
  BY <1>1, <1>2, <1>4 DEF RecordsUpTo, after

LEMMA PutInv == ASSUME IInv, NEW q \in Requests, Put(q) PROVE IInv'
<1> DEFINE m == req[q].msg
<1>1. /\ req[q].phase = "owned" /\ q \in Undecided
      /\ UNCHANGED <<settings, loaded, disk, writing, raced>>
  BY DEF Put, Undecided
<1>2. m \in Messages /\ m.node \in Nodes /\ req[q] \in Handler /\ parses(m.envelope) /\ loaded = "ok"
  BY <1>1, UndecidedFacts DEF IInv, KeptInv, ChainInv, InFlight
<1>3. CASE ~authorised(m, req[q].owner)
  BY <1>1, <1>3, HandlerFacts, HandlerStep DEF Put, store
<1>4. CASE authorised(m, req[q].owner)
  <2>1. mem' = remember(mem, m)
    BY <1>4 DEF Put
  <2>2. PICK h \in Handler :
           /\ req' = [req EXCEPT ![q] = h] /\ h.msg = m
           /\ \/ config.store = "file" /\ h.phase = "queued" /\ chain' = Append(chain, q)
              \/ config.store # "file" /\ h.phase = "ok" /\ chain' = chain
    <3>1. CASE config.store = "file"
      <4>1. [handler("queued") EXCEPT !.msg = m] \in Handler
        BY <1>2 DEF Handler, handler, Phases, InFlight, Answers
      <4> QED
        BY <1>4, <3>1, <4>1 DEF Put, handler
    <3>2. CASE config.store # "file"
      <4>1. [handler("ok") EXCEPT !.msg = m] \in Handler
        BY <1>2 DEF Handler, handler, Phases, InFlight, Answers
      <4> QED
        BY <1>4, <3>2, <4>1 DEF Put, handler
    <3> QED
      BY <3>1, <3>2
  <2>3. req'[q] = h /\ \A r \in Requests : r # q => req'[r] = req[r]
    BY <2>2 DEF IInv, TypeInv
  <2>4. mem \in Maps /\ disk \in Maps /\ chain \in Seq(Requests) /\ (writing # NoSnapshot => writing \in Maps)
    BY DEF IInv, TypeInv
  <2>5. /\ mem' \in Maps /\ NoncesUpTo(mem, mem') /\ Covers(mem', m) /\ Kept(mem')
        /\ mem'.records[m.node] = m
        /\ \A n \in Nodes : n # m.node => mem'.records[n] = mem.records[n] /\ mem'.nonces[n] = mem.nonces[n]
    BY <1>2, <2>1, <2>4, RememberFacts DEF IInv, KeptInv
  <2>6. \A i \in 1..Len(chain) : chain[i] \in Requests /\ chain[i] # q /\ req'[chain[i]] = req[chain[i]]
    BY <1>1, <2>3, <2>4 DEF IInv, ChainInv
  <2>7. config.store # "file" => chain = <<>> /\ writing = NoSnapshot
    BY DEF IInv, ChainInv
  <2>8. ConfigInv'
    BY <1>1 DEF IInv, ConfigInv, settings
  <2>9. TypeInv'
    <3>1. req' \in [Requests -> Handler] /\ chain' \in Seq(Requests)
      BY <2>2, <2>4 DEF IInv, TypeInv
    <3>2. \A r \in Requests : req'[r].phase \in InFlight \cup {"ok"} => req'[r].msg \in Messages
      BY <1>2, <2>2, <2>3 DEF IInv, TypeInv
    <3> QED
      BY <1>1, <2>5, <3>1, <3>2 DEF IInv, TypeInv, settings, nameVars
  <2>10. ChainInv'
    <3>1. CASE config.store # "file"
      BY <1>1, <1>2, <2>2, <2>7, <3>1 DEF ChainInv, settings
    <3>2. CASE config.store = "file"
      <4>1. /\ Len(chain') = Len(chain) + 1 /\ chain'[Len(chain) + 1] = q
            /\ \A i \in 1..Len(chain) : chain'[i] = chain[i]
        BY <2>2, <2>4, <3>2
      <4>2. \A i \in 1..Len(chain') : i \in 1..Len(chain) \/ i = Len(chain) + 1
        BY <2>4, <4>1
      <4>3. \A i \in 1..Len(chain') : req'[chain'[i]].phase = "queued"
        BY <2>2, <2>3, <2>6, <3>2, <4>1, <4>2 DEF IInv, ChainInv
      <4>4. \A i, j \in 1..Len(chain') : chain'[i] = chain'[j] => i = j
        BY <2>6, <4>1, <4>2 DEF IInv, ChainInv
      <4>5. chain' # <<>>
        BY <2>4, <4>1
      <4> QED
        BY <1>1, <1>2, <3>2, <4>3, <4>4, <4>5 DEF ChainInv, settings
    <3> QED
      BY <3>1, <3>2
  <2>11. NonceInv'
    <3>1. ASSUME loaded = "ok" /\ config.store = "file" PROVE NoncesUpTo(disk, mem')
      BY <2>4, <2>5, <3>1, NonceOrder DEF IInv, NonceInv
    <3>2. ASSUME writing # NoSnapshot
          PROVE  /\ NoncesUpTo(disk, writing) /\ NoncesUpTo(writing, mem')
                 /\ Covers(writing, req'[chain'[1]].msg) /\ Len(chain') # 1
      <4>1. 1 \in 1..Len(chain) /\ chain' = Append(chain, q)
        BY <2>2, <2>4, <2>7, <3>2 DEF IInv, ChainInv
      <4>2. chain'[1] = chain[1] /\ Len(chain') # 1 /\ req'[chain[1]] = req[chain[1]]
        BY <2>4, <2>6, <4>1
      <4> QED
        BY <2>4, <2>5, <3>2, <4>2, NonceOrder DEF IInv, NonceInv
    <3>3. ASSUME NEW r \in Requests, req'[r].phase = "queued" PROVE Covers(mem', req'[r].msg)
      <4>1. CASE r = q
        BY <2>2, <2>3, <2>5, <4>1
      <4>2. CASE r # q
        <5>1. req'[r] = req[r] /\ req[r].msg \in Messages /\ Covers(mem, req[r].msg)
          BY <2>3, <3>3, <4>2 DEF IInv, TypeInv, NonceInv, InFlight
        <5> QED
          BY <2>4, <2>5, <5>1, NonceOrder
      <4> QED
        BY <4>1, <4>2
    <3>4. AckedIsDurable'
      BY <1>1, <2>2, <2>3 DEF IInv, NonceInv, AckedIsDurable, settings
    <3> QED
      BY <1>1, <3>1, <3>2, <3>3, <3>4 DEF NonceInv, settings, NoncesUpTo, Covers
  <2>12. KeptInv'
    BY <1>1, <1>2, <2>2, <2>3, <2>5 DEF IInv, KeptInv, Kept
  <2>13. \A r \in Undecided' : r \in Undecided /\ r \in Requests /\ r # q /\ req'[r] = req[r]
    BY <2>2, <2>3 DEF Undecided
  <2>14. RaceInv'
    <3> SUFFICES ASSUME ~raced PROVE RaceInv'
      BY <1>1 DEF RaceInv
    <3>1. \A r \in Undecided' : req[r].msg.node # m.node /\ req[r].msg.node \in Nodes
      BY <1>1, <2>13, UndecidedFacts DEF IInv, RaceInv
    <3>2. \A r \in Undecided' : req'[r].msg.nonce > mem'.nonces[req'[r].msg.node]
      BY <2>5, <2>13, <3>1 DEF IInv, RaceInv
    <3>3. \A r, t \in Undecided' : req'[r].msg.node = req'[t].msg.node => r = t
      BY <2>13 DEF IInv, RaceInv
    <3>4. m.nonce > mem.nonces[m.node]
      BY <1>1 DEF IInv, RaceInv
    <3>5. ASSUME loaded = "ok" /\ config.store = "file" PROVE RecordsUpTo(disk, mem')
      BY <1>2, <2>1, <2>4, <3>4, <3>5, RecordOrder DEF IInv, RaceInv, NonceInv, KeptInv
    <3>6. ASSUME writing # NoSnapshot PROVE RecordsUpTo(disk, writing) /\ RecordsUpTo(writing, mem')
      BY <1>2, <2>1, <2>4, <3>4, <3>6, RecordOrder DEF IInv, RaceInv, NonceInv, KeptInv
    <3> QED
      BY <1>1, <3>2, <3>3, <3>5, <3>6 DEF RaceInv, RecordsUpTo, settings
  <2>16. AckedInv'
    <3> SUFFICES ASSUME ~raced, config.store = "file" PROVE AckedInv'
      BY <1>1 DEF AckedInv, settings
    <3>1. AckedInv /\ UNCHANGED <<config, disk, writing, raced>>
      BY <1>1 DEF IInv, settings
    <3>2. /\ m.nonce > mem.nonces[m.node] /\ m.nonce \in Nat /\ m # NoRecord
          /\ NoncesUpTo(mem, mem) /\ RecordsUpTo(mem, mem) /\ Kept(mem)
      BY <1>1, <1>2, <2>4, PublishConstants DEF IInv, RaceInv, KeptInv, Message, NoncesUpTo, RecordsUpTo, Maps, Kept
    <3>3. RecordsUpTo(mem, mem')
      BY <1>2, <2>1, <2>4, <3>2, RecordOrder
    <3>4. ASSUME NEW r \in Requests, req'[r].phase = "queued" PROVE HeldBy(mem', req'[r].msg)
      <4>1. CASE r = q
        BY <2>2, <2>3, <2>5, <3>2, <4>1 DEF HeldBy
      <4>2. CASE r # q
        <5>1. req'[r] = req[r] /\ req[r].msg \in Messages /\ HeldBy(mem, req[r].msg)
          BY <2>3, <3>1, <3>4, <4>2 DEF AckedInv, IInv, TypeInv, InFlight
        <5> QED
          BY <2>5, <3>2, <3>3, <5>1, HeldOn
      <4> QED
        BY <4>1, <4>2
    <3>5. ASSUME NEW r \in Requests, req'[r].phase = "ok" PROVE HeldBy(disk, req'[r].msg)
      BY <2>2, <2>3, <3>1, <3>5 DEF AckedInv
    <3>6. ASSUME writing # NoSnapshot PROVE HeldBy(writing, req'[chain'[1]].msg)
      <4>1. 1 \in 1..Len(chain) /\ chain' = Append(chain, q)
        BY <2>2, <2>4, <3>6 DEF IInv, ChainInv
      <4>2. chain'[1] = chain[1] /\ req'[chain[1]] = req[chain[1]]
        BY <2>4, <2>6, <4>1
      <4> QED
        BY <3>1, <3>6, <4>2 DEF AckedInv
    <3> QED
      BY <3>1, <3>4, <3>5, <3>6 DEF AckedInv, HeldBy
  <2>15. HolderInv'
    <3>1. UNCHANGED <<registryOwner, wrapperOwner, config>>
      BY <1>1 DEF settings, nameVars
    <3>2. \A n \in Nodes : (~Wrapped(n) => wrapperOwner[n] = NoOwner)'
      BY <3>1 DEF IInv, HolderInv, Wrapped
    <3>3. ASSUME NEW r \in Undecided'
          PROVE  (holder(req[r].msg.node) \in req[r].holders)'
      BY <2>13, <3>1 DEF IInv, HolderInv, holder, Wrapped
    <3>4. ASSUME NEW r \in Undecided'
          PROVE  (req[r].phase = "owned" /\ ReadsEns => req[r].owner \in req[r].holders \cup {Wrapper})'
      BY <2>13, <3>1 DEF IInv, HolderInv, ReadsEns
    <3> QED
      BY <3>2, <3>3, <3>4 DEF HolderInv
  <2> QED
    BY <2>8, <2>9, <2>10, <2>11, <2>12, <2>14, <2>15, <2>16 DEF IInv
<1> QED
  BY <1>3, <1>4

LEMMA LoadInv == ASSUME IInv, Load PROVE IInv'
<1>1. /\ loaded = "no" /\ UNCHANGED <<settings, disk, req, chain, writing, raced>>
      /\ \/ loaded' = "ok" /\ mem' = disk
         \/ loaded' = "failed" /\ mem' = mem
  BY DEF Load
<1>2. /\ chain = <<>> /\ writing = NoSnapshot /\ config.store = "file"
      /\ \A q \in Requests : req[q].phase \notin InFlight
  BY <1>1 DEF IInv, ChainInv
<1>3. mem' \in Maps /\ Kept(mem') /\ disk \in Maps /\ Kept(disk)
  BY <1>1 DEF IInv, TypeInv, KeptInv
<1>4. Undecided' = {}
  BY <1>1, <1>2 DEF Undecided, InFlight
<1>5. ConfigInv'
  BY <1>1 DEF IInv, ConfigInv, settings
<1>6. TypeInv'
  BY <1>1, <1>3 DEF IInv, TypeInv, settings, nameVars
<1>7. ChainInv'
  BY <1>1, <1>2 DEF IInv, ChainInv, settings
<1>8. NonceInv'
  <2>1. loaded' = "ok" => NoncesUpTo(disk, mem')
    BY <1>1, <1>3 DEF NoncesUpTo, Maps
  <2>2. \A q \in Requests : req'[q].phase # "queued"
    BY <1>1, <1>2 DEF InFlight
  <2>3. AckedIsDurable'
    BY <1>1 DEF IInv, NonceInv, AckedIsDurable, settings
  <2> QED
    BY <1>1, <1>2, <2>1, <2>2, <2>3 DEF NonceInv, NoncesUpTo
<1>9. KeptInv'
  BY <1>1, <1>2, <1>3 DEF KeptInv, Kept
<1>10. RaceInv'
  <2>1. loaded' = "ok" => RecordsUpTo(disk, mem')
    BY <1>1, <1>3 DEF RecordsUpTo, Kept
  <2> QED
    BY <1>1, <1>2, <1>4, <2>1 DEF RaceInv, RecordsUpTo
<1>11. HolderInv'
  BY <1>1, <1>4 DEF IInv, HolderInv, settings, nameVars, Wrapped
<1>12. AckedInv'
  BY <1>1, <1>2 DEF IInv, AckedInv, HeldBy, InFlight, settings
<1> QED
  BY <1>5, <1>6, <1>7, <1>8, <1>9, <1>10, <1>11, <1>12 DEF IInv

LEMMA FlushStartInv == ASSUME IInv, FlushStart PROVE IInv'
<1>1. /\ chain # <<>> /\ writing = NoSnapshot /\ writing' = mem
      /\ UNCHANGED <<settings, loaded, mem, disk, req, chain, raced>>
  BY DEF FlushStart
<1>2. /\ mem \in Maps /\ Kept(mem) /\ 1 \in 1..Len(chain) /\ chain[1] \in Requests
      /\ config.store = "file" /\ loaded = "ok"
  BY <1>1 DEF IInv, TypeInv, KeptInv, ChainInv
<1>3. ConfigInv'
  BY <1>1 DEF IInv, ConfigInv, settings
<1>4. TypeInv'
  BY <1>1, <1>2 DEF IInv, TypeInv, settings, nameVars
<1>5. ChainInv'
  BY <1>1, <1>2 DEF IInv, ChainInv, settings
<1>6. NonceInv'
  <2>1. NoncesUpTo(disk, writing') /\ NoncesUpTo(writing', mem)
    BY <1>1, <1>2 DEF IInv, NonceInv, NoncesUpTo, Maps
  <2>2. Covers(writing', req[chain[1]].msg)
    BY <1>1, <1>2 DEF IInv, NonceInv, ChainInv
  <2>3. AckedIsDurable'
    BY <1>1 DEF IInv, NonceInv, AckedIsDurable, settings
  <2> QED
    BY <1>1, <2>1, <2>2, <2>3 DEF IInv, NonceInv, NoncesUpTo, Covers, settings
<1>7. KeptInv'
  BY <1>1, <1>2 DEF IInv, KeptInv, Kept
<1>8. Undecided' = Undecided
  BY <1>1 DEF Undecided
<1>9. RaceInv'
  <2>1. RecordsUpTo(mem, mem)
    BY <1>2 DEF RecordsUpTo, Kept
  <2>2. ~raced => RecordsUpTo(disk, mem)
    BY <1>2 DEF IInv, RaceInv
  <2>3. ~raced' => RecordsUpTo(disk, mem)' /\ RecordsUpTo(disk, writing)' /\ RecordsUpTo(writing, mem)'
    BY <1>1, <2>1, <2>2 DEF RecordsUpTo
  <2> QED
    BY <1>1, <1>8, <2>3 DEF IInv, RaceInv
<1>10. HolderInv'
  BY <1>1, <1>8 DEF IInv, HolderInv, settings, nameVars, Wrapped, holder, ReadsEns
<1>11. AckedInv'
  <2>1. req[chain[1]].phase = "queued"
    BY <1>2 DEF IInv, ChainInv
  <2>2. AckedInv
    BY DEF IInv
  <2>3. ~raced => HeldBy(mem, req[chain[1]].msg)
    BY <1>2, <2>1, <2>2 DEF AckedInv
  <2> QED
    BY <1>1, <2>2, <2>3 DEF AckedInv, HeldBy, settings
<1> QED
  BY <1>3, <1>4, <1>5, <1>6, <1>7, <1>9, <1>10, <1>11 DEF IInv

\* The oldest put is answered; if its snapshot is on file, it is accepted.
LEMMA FlushEnds ==
    ASSUME IInv, writing # NoSnapshot, NEW h \in Handler, req' = [req EXCEPT ![Head(chain)] = h],
           writing' = NoSnapshot, chain' = Tail(chain), UNCHANGED <<settings, loaded, mem, raced>>,
           \/ h.phase = "ok" /\ h.msg = req[Head(chain)].msg /\ disk' = writing
           \/ h.phase = "failed" /\ disk' = disk
    PROVE  IInv'
<1> DEFINE q == Head(chain)
<1>1. /\ chain \in Seq(Requests) /\ chain # <<>> /\ 1 \in 1..Len(chain) /\ q = chain[1]
      /\ q \in Requests /\ req[q].phase = "queued" /\ req[q].msg \in Messages
      /\ config.store = "file" /\ loaded = "ok"
  BY DEF IInv, TypeInv, ChainInv, InFlight
<1>2. req'[q] = h /\ \A r \in Requests : r # q => req'[r] = req[r]
  BY <1>1 DEF IInv, TypeInv
<1>3. writing \in Maps /\ Kept(writing) /\ NoncesUpTo(disk, writing) /\ NoncesUpTo(writing, mem)
      /\ Covers(writing, req[q].msg) /\ NoncesUpTo(disk, mem) /\ mem \in Maps /\ disk \in Maps
  BY <1>1 DEF IInv, TypeInv, KeptInv, NonceInv
<1>4. /\ Len(chain') = Len(chain) - 1 /\ chain' \in Seq(Requests)
      /\ \A i \in 1..Len(chain') : i + 1 \in 1..Len(chain) /\ chain'[i] = chain[i + 1]
  BY <1>1
<1>5. disk' \in Maps /\ Kept(disk') /\ NoncesUpTo(disk, disk') /\ NoncesUpTo(disk', mem)
  BY <1>3 DEF IInv, KeptInv, NoncesUpTo, Maps
<1>6. ConfigInv'
  BY DEF IInv, ConfigInv, settings
<1>7. TypeInv'
  <2>1. req' \in [Requests -> Handler]
    BY <1>1 DEF IInv, TypeInv
  <2>2. \A r \in Requests : req'[r].phase \in InFlight \cup {"ok"} => req'[r].msg \in Messages
    BY <1>1, <1>2 DEF IInv, TypeInv, InFlight
  <2> QED
    BY <1>4, <1>5, <2>1, <2>2 DEF IInv, TypeInv, settings, nameVars
<1>8. ChainInv'
  <2>1. \A i \in 1..Len(chain') : chain'[i] # q /\ chain'[i] \in Requests /\ req'[chain'[i]].phase = "queued"
    <3> SUFFICES ASSUME NEW i \in 1..Len(chain')
                 PROVE  chain'[i] # q /\ chain'[i] \in Requests /\ req'[chain'[i]].phase = "queued"
      OBVIOUS
    <3>1. i + 1 \in 1..Len(chain) /\ i + 1 # 1 /\ chain'[i] = chain[i + 1]
      BY <1>4
    <3>2. chain[i + 1] # q /\ req[chain[i + 1]].phase = "queued" /\ chain[i + 1] \in Requests
      BY <1>1, <3>1 DEF IInv, ChainInv
    <3> QED
      BY <1>2, <3>1, <3>2
  <2>2. \A i, j \in 1..Len(chain') : chain'[i] = chain'[j] => i = j
    <3> SUFFICES ASSUME NEW i \in 1..Len(chain'), NEW j \in 1..Len(chain'), chain'[i] = chain'[j]
                 PROVE  i = j
      OBVIOUS
    <3>1. i + 1 = j + 1
      BY <1>4 DEF IInv, ChainInv
    <3> QED
      BY <3>1
  <2> QED
    BY <1>1, <2>1, <2>2 DEF ChainInv, settings
<1>9. NonceInv'
  <2>1. \A r \in Requests : req'[r].phase = "queued" => Covers(mem, req'[r].msg)
    BY <1>2 DEF IInv, NonceInv
  <2>2. \A r \in Requests : req'[r].phase = "ok" => Covers(disk', req'[r].msg)
    <3> SUFFICES ASSUME NEW r \in Requests, req'[r].phase = "ok" PROVE Covers(disk', req'[r].msg)
      OBVIOUS
    <3>1. CASE r = q
      BY <1>2, <1>3, <3>1
    <3>2. CASE r # q
      <4>1. req'[r] = req[r] /\ req[r].msg \in Messages /\ Covers(disk, req[r].msg)
        BY <1>1, <1>2, <3>2 DEF IInv, TypeInv, NonceInv, AckedIsDurable, Covers
      <4> QED
        BY <1>3, <1>5, <4>1, NonceOrder
    <3> QED
      BY <3>1, <3>2
  <2>3. AckedIsDurable'
    BY <2>2 DEF AckedIsDurable, Covers
  <2>4. NoncesUpTo(disk', mem')
    BY <1>5 DEF NoncesUpTo
  <2> QED
    BY <2>1, <2>3, <2>4 DEF NonceInv, NoncesUpTo, Covers
<1>10. KeptInv'
  <2>1. \A r \in Requests : req'[r].phase \in InFlight => req'[r] = req[r]
    BY <1>2 DEF InFlight
  <2> QED
    BY <1>5, <2>1 DEF IInv, KeptInv, Kept
<1>11. \A r \in Undecided' : r \in Undecided /\ r \in Requests /\ req'[r] = req[r]
  BY <1>2 DEF Undecided
<1>12. RaceInv'
  <2>1. ~raced => RecordsUpTo(disk', mem)
    BY <1>1 DEF IInv, RaceInv
  <2>2. ~raced' => RecordsUpTo(disk, mem)'
    BY <2>1 DEF RecordsUpTo
  <2> QED
    BY <1>11, <2>2 DEF IInv, RaceInv
<1>13. HolderInv'
  BY <1>11 DEF IInv, HolderInv, settings, nameVars, Wrapped, holder, ReadsEns
<1>14. AckedInv'
  <2> SUFFICES ASSUME ~raced PROVE AckedInv'
    BY DEF AckedInv
  <2>1. AckedInv /\ RecordsUpTo(disk, writing) /\ Kept(disk)
    BY DEF IInv, RaceInv, KeptInv
  <2>2. \A r \in Requests : req'[r].phase = "queued" => HeldBy(mem, req'[r].msg)
    BY <1>1, <1>2, <2>1 DEF AckedInv
  <2>3. HeldBy(writing, req[q].msg)
    BY <1>1, <2>1 DEF AckedInv
  <2>4. ASSUME NEW r \in Requests, req'[r].phase = "ok" PROVE HeldBy(disk', req'[r].msg)
    <3>1. CASE r = q
      BY <1>2, <2>3, <2>4, <3>1
    <3>2. CASE r # q
      <4>1. req'[r] = req[r] /\ req[r].msg \in Messages /\ HeldBy(disk, req[r].msg)
        BY <1>1, <1>2, <2>1, <2>4, <3>2 DEF IInv, TypeInv, AckedInv
      <4>2. CASE disk' = disk
        BY <4>1, <4>2
      <4>3. CASE disk' = writing
        BY <1>3, <2>1, <4>1, <4>3, HeldOn
      <4> QED
        BY <4>2, <4>3
    <3> QED
      BY <3>1, <3>2
  <2> QED
    BY <2>2, <2>4 DEF AckedInv, HeldBy, settings
<1> QED
  BY <1>6, <1>7, <1>8, <1>9, <1>10, <1>12, <1>13, <1>14 DEF IInv

LEMMA FlushDoneInv == ASSUME IInv, FlushDone PROVE IInv'
<1> DEFINE q == Head(chain)
           h == [req[q] EXCEPT !.phase = "ok"]
<1>1. q \in Requests /\ req[q] \in Handler /\ writing # NoSnapshot
  BY DEF FlushDone, IInv, TypeInv, ChainInv
<1>2. h \in Handler /\ h.phase = "ok" /\ h.msg = req[q].msg
  BY <1>1 DEF Handler, Phases
<1>3. req' = [req EXCEPT ![q] = h]
  BY DEF FlushDone
<1> HIDE DEF h
<1> QED
  BY <1>1, <1>2, <1>3, FlushEnds DEF FlushDone

LEMMA FlushFailInv == ASSUME IInv, FlushFail PROVE IInv'
  BY HandlerFacts, FlushEnds DEF FlushFail, settings, nameVars

LEMMA RestartInv == ASSUME IInv, Restart PROVE IInv'
<1>1. /\ disk' = disk \/ (writing # NoSnapshot /\ disk' = writing)
      /\ loaded' = IF config.store = "file" THEN "no" ELSE "ok"
      /\ mem' = seeded(config) /\ chain' = <<>> /\ writing' = NoSnapshot
      /\ ~config.ephemeralSigner => key' = SignerKey
      /\ UNCHANGED <<config, now, nameVars, raced>>
  BY DEF Restart, boot
<1>2. ASSUME NEW q \in Requests
      PROVE  /\ req'[q] \in Handler /\ req'[q].phase \notin InFlight
             /\ req'[q].phase = "ok" => req'[q] = req[q]
  <2>1. req'[q] = IF q \in Handling THEN handler("lost") ELSE req[q]
    BY DEF Restart
  <2> QED
    BY <2>1, HandlerFacts DEF Handling, IInv, TypeInv
<1>3. mem' \in Maps /\ Kept(mem')
  BY <1>1, SeedFacts DEF IInv
<1>4. disk' \in Maps /\ Kept(disk') /\ NoncesUpTo(disk, disk')
  BY <1>1 DEF IInv, TypeInv, KeptInv, NonceInv, NoncesUpTo, Maps
<1>5. Undecided' = {}
  BY <1>2 DEF Undecided, InFlight
<1>6. ConfigInv'
  BY <1>1 DEF IInv, ConfigInv
<1>7. TypeInv'
  <2>1. req' \in [Requests -> Handler]
    BY <1>2 DEF Restart
  <2>2. \A q \in Requests : req'[q].phase \in InFlight \cup {"ok"} => req'[q].msg \in Messages
    BY <1>2 DEF IInv, TypeInv
  <2> QED
    BY <1>1, <1>3, <1>4, <2>1, <2>2 DEF IInv, TypeInv, nameVars
<1>8. ChainInv'
  BY <1>1, <1>2 DEF ChainInv
<1>9. NonceInv'
  <2>1. \A q \in Requests : req'[q].phase # "queued"
    BY <1>2 DEF InFlight
  <2>2. AckedIsDurable'
    <3> SUFFICES ASSUME NEW q \in Requests, config.store = "file", req'[q].phase = "ok"
                 PROVE  Covers(disk', req'[q].msg)
      BY <1>1 DEF AckedIsDurable, Covers
    <3>1. req'[q] = req[q] /\ req[q].msg \in Messages /\ Covers(disk, req[q].msg)
      BY <1>2 DEF IInv, TypeInv, NonceInv, AckedIsDurable, Covers
    <3> QED
      BY <1>4, <3>1, NonceOrder DEF IInv, TypeInv
  <2> QED
    BY <1>1, <2>1, <2>2 DEF NonceInv
<1>10. KeptInv'
  BY <1>1, <1>2, <1>3, <1>4 DEF KeptInv, Kept
<1>11. RaceInv'
  BY <1>1, <1>5 DEF RaceInv
<1>12. HolderInv'
  BY <1>1, <1>5 DEF IInv, HolderInv, nameVars, Wrapped
<1>13. AckedInv'
  <2> SUFFICES ASSUME ~raced, config.store = "file" PROVE AckedInv'
    BY <1>1 DEF AckedInv
  <2>1. AckedInv /\ Kept(disk)
    BY DEF IInv, KeptInv
  <2>2. ASSUME NEW r \in Requests, req'[r].phase = "ok" PROVE HeldBy(disk', req'[r].msg)
    <3>1. req'[r] = req[r] /\ req[r].msg \in Messages /\ HeldBy(disk, req[r].msg)
      BY <1>2, <2>1, <2>2 DEF IInv, TypeInv, AckedInv
    <3>2. CASE disk' = disk
      BY <3>1, <3>2
    <3>3. CASE writing # NoSnapshot /\ disk' = writing
      <4>1. RecordsUpTo(disk, writing) /\ Kept(writing)
        BY <3>3 DEF IInv, RaceInv, KeptInv
      <4> QED
        BY <2>1, <3>1, <3>3, <4>1, HeldOn
    <3> QED
      BY <1>1, <3>2, <3>3
  <2>3. \A r \in Requests : req'[r].phase # "queued"
    BY <1>2 DEF InFlight
  <2> QED
    BY <1>1, <2>2, <2>3 DEF AckedInv, HeldBy
<1> QED
  BY <1>6, <1>7, <1>8, <1>9, <1>10, <1>11, <1>12, <1>13 DEF IInv

LEMMA NextInv == ASSUME IInv, [Next]_vars PROVE IInv'
<1>1. CASE UNCHANGED vars
  BY <1>1, AsideInv
<1>2. CASE Next
  BY <1>2, SubmitInv, ReadOwnerInv, ReadWrapperInv, PutInv, LoadInv, FlushStartInv, FlushDoneInv,
     FlushFailInv, RestartInv, TradeInv, AsideInv
  DEF Next, Handle
<1> QED
  BY <1>1, <1>2

THEOREM Invariant == Spec => []IInv
<1>1. IInv /\ [Next]_vars => IInv'
  BY NextInv
<1> QED
  BY InitInv, <1>1, PTL DEF Spec
----------------------------------------------------------------------------
(* The properties, for the publish path by itself. *)

\* A publish answered with 201 is on file for good, whatever was sent, lost,
\* failed or restarted since (store/file.ts, put).
THEOREM PublishIsDurable == Spec => []AckedIsDurable
<1>1. IInv => AckedIsDurable
  BY DEF IInv, NonceInv
<1> QED
  BY Invariant, <1>1, PTL

\* The file is replaced by the snapshot being written, or stays as it is.
LEMMA DiskMoves ==
    ASSUME IInv, [Next]_vars, disk' # disk
    PROVE  /\ writing # NoSnapshot /\ disk' = writing /\ raced' = raced
           /\ FlushDone \/ loaded' # "ok"
<1>1. FlushDone \/ Restart
  BY DEF Next, Handle, Submit, ReadOwner, ReadWrapper, Put, Load, FlushStart, FlushFail, Trade, Outage, Tick,
         vars, processVars, settings, store
<1>2. writing # NoSnapshot => config.store = "file"
  BY DEF IInv, ChainInv
<1> QED
  BY <1>1, <1>2 DEF FlushDone, Restart, boot

\* The file never forgets a nonce it accepted: no publish is accepted twice, in
\* this process or a later one (store/file.ts, flush and load).
THEOREM NonceOnFileOnlyGrows == Spec => FileNoncesNeverRegress
<1>1. IInv /\ [Next]_vars => [\A n \in Nodes : disk'.nonces[n] >= disk.nonces[n]]_vars
  <2> SUFFICES ASSUME IInv, [Next]_vars, NEW n \in Nodes
               PROVE  disk'.nonces[n] >= disk.nonces[n]
    OBVIOUS
  <2>1. disk \in Maps /\ disk.nonces[n] \in Nat
    BY DEF IInv, TypeInv, Maps
  <2>2. CASE disk' = disk
    BY <2>1, <2>2
  <2>3. CASE disk' # disk
    <3>1. writing \in Maps /\ disk' = writing /\ NoncesUpTo(disk, writing)
      BY <2>3, DiskMoves DEF IInv, TypeInv, NonceInv
    <3> QED
      BY <2>1, <3>1 DEF NoncesUpTo, Maps
  <2> QED
    BY <2>2, <2>3
<1> QED
  BY Invariant, <1>1, PTL DEF Spec, FileNoncesNeverRegress

\* When the last flush of a burst succeeds, the file holds what the maps hold
\* (store/file.ts: every flush writes the maps as they are when it starts).
THEOREM LastFlushIsComplete == Spec => LastFlushWritesEverything
<1>1. IInv /\ [Next]_vars => [disk' # disk /\ loaded' = "ok" /\ chain' = <<>> => disk' = mem']_vars
  <2> SUFFICES ASSUME IInv, [Next]_vars, disk' # disk, loaded' = "ok", chain' = <<>>
               PROVE  disk' = mem'
    OBVIOUS
  <2>1. FlushDone /\ writing # NoSnapshot
    BY DiskMoves
  <2>2. chain \in Seq(Requests) /\ chain # <<>>
    BY <2>1 DEF FlushDone, IInv, TypeInv, ChainInv
  <2>3. Len(Tail(chain)) = Len(chain) - 1 /\ Len(chain) \in Nat
    BY <2>2
  <2>4. Len(Tail(chain)) = Len(<<>>)
    BY <2>1 DEF FlushDone
  <2>5. Len(chain) = 1
    BY <2>3, <2>4
  <2> QED
    BY <2>1, <2>5 DEF FlushDone, IInv, NonceInv
<1> QED
  BY Invariant, <1>1, PTL DEF Spec, LastFlushWritesEverything

\* What the maps hold changes with a put or with the process, over a file.
LEMMA MapsMove ==
    ASSUME IInv, [Next]_vars, mem' # mem, loaded = "ok", loaded' = "ok", config.store = "file"
    PROVE  \E q \in Requests : /\ q \in Undecided /\ raced' = raced
                               /\ mem' = remember(mem, req[q].msg)
<1>1. \E q \in Requests : Put(q)
  BY DEF Next, Handle, Submit, ReadOwner, ReadWrapper, Load, FlushStart, FlushDone, FlushFail, Restart, boot,
         Trade, Outage, Tick, vars, processVars, settings, store
<1> QED
  BY <1>1 DEF Put, Undecided

\* What a request was answered with stays, and so does the configuration.
LEMMA AckedStays ==
    ASSUME IInv, [Next]_vars, NEW q \in Requests, req[q].phase = "ok"
    PROVE  req'[q] = req[q] /\ config' = config
<1>1. config' = config
  BY DEF Next, Handle, Submit, ReadOwner, ReadWrapper, Put, Load, FlushStart, FlushDone, FlushFail, Restart, Trade,
         Outage, Tick, vars, processVars, settings
<1>2. q \notin Undecided /\ q \notin Handling /\ req \in [Requests -> Handler]
  BY DEF Undecided, Handling, InFlight, IInv, TypeInv
<1>3. ASSUME NEW r \in Requests, (\E m \in Messages : Submit(r, m)) \/ ReadOwner(r) \/ ReadWrapper(r) \/ Put(r)
      PROVE  req'[q] = req[q]
  <2>1. r # q
    BY <1>3 DEF Submit, ReadOwner, ReadWrapper, Put
  <2> QED
    BY <1>2, <1>3, <2>1 DEF Submit, ReadOwner, ReadWrapper, Put, answer
<1>4. ASSUME FlushDone \/ FlushFail PROVE req'[q] = req[q]
  <2>1. Head(chain) # q
    BY <1>4 DEF FlushDone, FlushFail, IInv, TypeInv, ChainInv
  <2> QED
    BY <1>2, <1>4, <2>1 DEF FlushDone, FlushFail
<1>5. CASE Restart
  BY <1>1, <1>2, <1>5 DEF Restart
<1>6. ASSUME NEW n \in Traded, Trade(n) PROVE req'[q] = req[q]
  BY <1>2, <1>6 DEF Trade
<1>7. CASE UNCHANGED vars \/ Load \/ FlushStart \/ Outage \/ Tick
  BY <1>1, <1>7 DEF vars, processVars, Load, FlushStart, Outage, Tick
<1>8. CASE Next
  <2>1. \/ \E r \in Requests : (\E m \in Messages : Submit(r, m)) \/ ReadOwner(r) \/ ReadWrapper(r) \/ Put(r)
        \/ Load \/ FlushStart \/ FlushDone \/ FlushFail \/ Restart \/ Outage \/ Tick
        \/ \E n \in Traded : Trade(n)
    BY <1>8 DEF Next, Handle
  <2> QED
    BY <1>1, <1>3, <1>4, <1>5, <1>6, <1>7, <2>1
<1> QED
  BY <1>1, <1>7, <1>8

\* Without two publishes of a name under way at once, neither what the file
\* store serves nor its file goes back to an older record of a name, and what was
\* answered with 201 is what it serves, or something later, after a restart too
\* (app.ts checks the nonce before its awaits, store/file.ts does not again).
THEOREM NoRollbackAlone == Spec => NeverRolledBackAlone
<1>1. IInv /\ [Next]_vars => [raced' \/ config.store # "file" \/ \A n \in Nodes : Advances(n) /\ KeepsAcknowledged(n)]_vars
  <2> SUFFICES ASSUME IInv, [Next]_vars, ~raced', config.store = "file", NEW n \in Nodes
               PROVE  Advances(n) /\ KeepsAcknowledged(n)
    OBVIOUS
  <2>1. mem \in Maps /\ disk \in Maps /\ Kept(mem) /\ Kept(disk)
    BY DEF IInv, TypeInv, KeptInv
  <2>2. ASSUME loaded = "ok", loaded' = "ok", mem.records[n] # NoRecord
        PROVE  mem'.records[n].nonce >= mem.records[n].nonce
    <3>1. mem.records[n].nonce \in Nat /\ mem.records[n].nonce =< mem.nonces[n] /\ mem.nonces[n] \in Nat
      BY <2>1, <2>2 DEF Kept, Maps
    <3>2. CASE mem' = mem
      BY <3>1, <3>2
    <3>3. CASE mem' # mem
      <4>1. PICK q \in Undecided : raced' = raced /\ mem' = remember(mem, req[q].msg)
        BY <2>2, <3>3, MapsMove
      <4>2. /\ req[q].msg \in Messages /\ req[q].msg.node \in Nodes
            /\ req[q].msg.nonce > mem.nonces[req[q].msg.node]
        BY <4>1, UndecidedFacts DEF IInv, RaceInv
      <4>3. req[q].msg.nonce \in Nat
        BY <4>2, PublishConstants DEF Message
      <4>4. /\ mem'.records[req[q].msg.node] = req[q].msg
            /\ n # req[q].msg.node => mem'.records[n] = mem.records[n]
        BY <2>1, <4>1, <4>2, RememberFacts
      <4>5. CASE n = req[q].msg.node
        BY <3>1, <4>2, <4>3, <4>4, <4>5
      <4>6. CASE n # req[q].msg.node
        BY <3>1, <4>4, <4>6
      <4> QED
        BY <4>5, <4>6
    <3> QED
      BY <3>2, <3>3
  <2>3. ASSUME disk.records[n] # NoRecord
        PROVE  disk'.records[n].nonce >= disk.records[n].nonce
    <3>1. disk.records[n].nonce \in Nat
      BY <2>1, <2>3 DEF Kept
    <3>2. CASE disk' = disk
      BY <3>1, <3>2
    <3>3. CASE disk' # disk
      <4>1. writing # NoSnapshot /\ disk' = writing /\ ~raced
        BY <3>3, DiskMoves
      <4>2. RecordsUpTo(disk, writing) /\ Kept(writing)
        BY <4>1 DEF IInv, RaceInv, KeptInv
      <4>3. writing.records[n] # NoRecord /\ disk.records[n].nonce =< writing.records[n].nonce
        BY <2>3, <4>2 DEF RecordsUpTo
      <4>4. writing.records[n].nonce \in Nat
        BY <4>2, <4>3 DEF Kept
      <4> QED
        BY <3>1, <4>1, <4>3, <4>4
    <3> QED
      BY <3>2, <3>3
  <2>4. KeepsAcknowledged(n)
    <3> SUFFICES ASSUME loaded' = "ok", NEW q \in Requests, req[q].phase = "ok", req[q].msg.node = n
                 PROVE  mem'.records[n] # NoRecord /\ mem'.records[n].nonce >= req[q].msg.nonce
      BY DEF KeepsAcknowledged
    <3>1. config'.store = "file" /\ req'[q] = req[q] /\ req[q].msg \in Messages
      BY AckedStays DEF IInv, TypeInv
    <3>2. AckedInv' /\ RaceInv' /\ KeptInv'
      BY NextInv DEF IInv
    <3>3. HeldBy(disk', req[q].msg)
      BY <3>1, <3>2 DEF AckedInv
    <3>4. RecordsUpTo(disk', mem') /\ Kept(disk') /\ Kept(mem')
      BY <3>1, <3>2 DEF RaceInv, KeptInv, RecordsUpTo, Kept
    <3>5. HeldBy(mem', req[q].msg)
      BY <3>1, <3>3, <3>4, HeldOn
    <3>6. mem'.records[n].nonce \in Nat /\ req[q].msg.nonce \in Nat
      BY <3>1, <3>4, <3>5, PublishConstants DEF HeldBy, Kept, Message
    <3> QED
      BY <3>5, <3>6 DEF HeldBy
  <2> QED
    BY <2>2, <2>3, <2>4 DEF Advances
<1> QED
  BY Invariant, <1>1, PTL DEF Spec, NeverRolledBackAlone

\* A request that goes from its owner to its answer has just been put.
LEMMA AcceptedByPut ==
    ASSUME IInv, [Next]_vars, NEW q \in Requests,
           req[q].phase = "owned", req'[q].phase \in {"queued", "ok"}
    PROVE  authorised(req[q].msg, req[q].owner)
<1>1. q \in Undecided
  BY DEF Undecided
<1>2. ~UNCHANGED req
  OBVIOUS
<1>3. ASSUME NEW r \in Requests, NEW m \in Messages, Submit(r, m) PROVE FALSE
  <2>1. req'[q] = req[q]
    BY <1>3 DEF Submit, IInv, TypeInv
  <2> QED
    BY <2>1
<1>4. ASSUME NEW r \in Requests, ReadOwner(r) \/ ReadWrapper(r) PROVE FALSE
  <2>1. r # q
    BY <1>4 DEF ReadOwner, ReadWrapper
  <2>2. req'[q] = req[q]
    BY <1>4, <2>1 DEF ReadOwner, ReadWrapper, answer, IInv, TypeInv
  <2> QED
    BY <2>2
<1>5. ASSUME NEW r \in Requests, Put(r) PROVE authorised(req[q].msg, req[q].owner)
  <2>1. CASE r = q
    <3> SUFFICES ASSUME ~authorised(req[q].msg, req[q].owner) PROVE FALSE
      OBVIOUS
    <3>1. req'[q] = handler("refused")
      BY <1>5, <2>1 DEF Put, IInv, TypeInv
    <3> QED
      BY <3>1, HandlerFacts
  <2>2. CASE r # q
    <3>1. req'[q] = req[q]
      BY <1>5, <2>2 DEF Put, IInv, TypeInv
    <3> QED
      BY <3>1
  <2> QED
    BY <2>1, <2>2
<1>6. ASSUME FlushDone \/ FlushFail PROVE FALSE
  <2>1. Head(chain) # q
    BY <1>6 DEF FlushDone, FlushFail, IInv, TypeInv, ChainInv
  <2>2. req'[q] = req[q]
    BY <1>6, <2>1 DEF FlushDone, FlushFail, IInv, TypeInv
  <2> QED
    BY <2>2
<1>7. ASSUME Restart PROVE FALSE
  <2>1. req'[q] = handler("lost")
    BY <1>7 DEF Restart, Handling, InFlight
  <2> QED
    BY <2>1, HandlerFacts
<1>8. ASSUME NEW n \in Traded, Trade(n) PROVE FALSE
  <2>1. req'[q].phase = req[q].phase
    BY <1>8, UndecidedFacts, <1>1 DEF Trade, Handler
  <2> QED
    BY <2>1
<1>9. CASE UNCHANGED vars \/ Load \/ FlushStart \/ Outage \/ Tick
  BY <1>2, <1>9 DEF vars, processVars, Load, FlushStart, Outage, Tick
<1> QED
  BY <1>3, <1>4, <1>5, <1>6, <1>7, <1>8, <1>9 DEF Next, Handle

\* Whoever signed what a gateway that reads ENS takes held the name at a moment
\* since the request came, though registry and wrapper are read in two steps
\* and the name may change hands between them (owner.ts, admin.ts).
THEOREM SignerHeldTheName == Spec => PublisherHeldTheName
<1> DEFINE P == \A q \in Requests :
                   ReadsEns /\ req[q].phase = "owned" /\ req'[q].phase \in {"queued", "ok"} =>
                       req[q].msg.signer \in req[q].holders
<1>1. IInv /\ [Next]_vars => [P]_vars
  <2> SUFFICES ASSUME IInv, [Next]_vars, NEW q \in Requests,
                      ReadsEns, req[q].phase = "owned", req'[q].phase \in {"queued", "ok"}
               PROVE  req[q].msg.signer \in req[q].holders
    OBVIOUS
  <2>1. q \in Undecided
    BY DEF Undecided
  <2>2. req[q].msg.signer = req[q].owner
    BY AcceptedByPut DEF authorised
  <2>3. req[q].owner \in req[q].holders \cup {Wrapper}
    BY <2>1 DEF IInv, HolderInv
  <2>4. req[q].msg.signer \in Owners
    BY <2>1, UndecidedFacts, PublishConstants DEF Message
  <2> QED
    BY <2>2, <2>3, <2>4, OwnerConstants
<1>2. IInv /\ [Next]_vars => [\A q \in Requests :
        ReadsEns /\ req[q].phase = "owned" /\ req'[q].phase \in {"queued", "ok"} =>
          req[q].msg.signer \in req[q].holders]_vars
  BY <1>1
<1> QED
  BY Invariant, <1>2, PTL DEF Spec, PublisherHeldTheName
----------------------------------------------------------------------------
(* The whole service. *)

\* Beside what the resolver's owner does, the service is a publish path.
THEOREM ServiceIsPublishPath == ServiceSpec => Spec
<1>1. ServiceInit => Init
  BY DEF ServiceInit
<1>2. [ServiceNext]_serviceVars => [Next]_vars
  BY DEF ServiceNext, Administer, serviceVars
<1> QED
  BY <1>1, <1>2, PTL DEF ServiceSpec, Spec

LEMMA WorstFacts ==
    ASSUME NEW S
    PROVE  /\ worst(S) = "ok" => "down" \notin S /\ "degraded" \notin S
           /\ worst(S) = "down" => "down" \in S
  BY DEF worst

LEMMA RecordCount ==
    ASSUME ~(records > 0)
    PROVE  \A n \in Nodes : mem.records[n] = NoRecord
<1> DEFINE kept == {n \in Nodes : mem.records[n] # NoRecord}
<1>1. IsFiniteSet(kept)
  BY PublishConstants, FS_Subset
<1>2. Cardinality(kept) \in Nat
  BY <1>1, FS_CardinalityType
<1>3. Cardinality(kept) = 0
  BY <1>2 DEF records
<1>4. kept = {}
  BY <1>1, <1>3, FS_EmptySet
<1> QED
  BY <1>4

\* "ok" of a gateway with a chain means every name it can sign for resolves and
\* every owner can be found; "down" of one that takes publishes means that no
\* name resolves through it (health.ts).
THEOREM HealthIsTrue == ServiceSpec => []HealthForetells
<1>1. IInv => HealthForetells
  <2> SUFFICES ASSUME IInv, loaded # "no" PROVE HealthForetells
    BY DEF HealthForetells
  <2> DEFINE signer == IF config.ephemeralSigner THEN "degraded" ELSE "ok"
             allowlist == IF config.resolver = Unset THEN "degraded" ELSE "ok"
             all(status) == {signer, status, allowlist, ownersStatus, resolverStatus}
  <2>1. \A s \in buildHealthReport : \E status \in storeStatus : s = worst(all(status))
    BY DEF buildHealthReport
  <2>2. config.store \in {"memory", "file", "swarm-feed"} /\ (config.writable <=> config.store # "swarm-feed")
    BY DEF IInv, ConfigInv
  <2>3. ASSUME "ok" \in buildHealthReport, config.client
        PROVE  /\ loaded = "ok" /\ ResolverAccepts
               /\ config.writable => RegistryAnswers /\ \A n \in Nodes :
                     \/ config.owners.registry # EnsRegistry
                     \/ Wrapped(n) /\ config.owners.nameWrapper # Wrapper
                     \/ lookedUp(n) = {holder(n)}
    <3>1. PICK status \in storeStatus : worst(all(status)) = "ok"
      BY <2>1, <2>3
    <3>2. "down" \notin all(status) /\ "degraded" \notin all(status)
      BY <3>1, WorstFacts
    <3>3. ~config.ephemeralSigner /\ config.resolver # Unset /\ status \notin {"down", "degraded"}
      BY <3>2
    <3>4. loaded = "ok"
      <4>1. CASE config.store = "file"
        <5>1. status \in (IF loaded = "ok" THEN {"ok"} ELSE {}) \cup {"degraded", "down"}
          BY <4>1 DEF storeStatus
        <5> QED
          BY <3>3, <5>1
      <4>2. CASE config.store # "file"
        BY <4>2 DEF IInv, ChainInv
      <4> QED
        BY <4>1, <4>2
    <3>5. ResolverAccepts
      BY <2>3, <3>2, <3>3 DEF resolverStatus, ResolverAccepts
    <3>6. config.owners.kind = "chain" /\ config.owners.nameWrapper \in {Unset, Wrapper, Stray}
      BY <2>3 DEF IInv, ConfigInv
    <3>7. config.writable => RegistryAnswers
      BY <3>2, <3>6 DEF ownersStatus, OwnersProbeOk
    <3>8. ASSUME NEW n \in Nodes, config.owners.registry = EnsRegistry, Wrapped(n) => config.owners.nameWrapper = Wrapper
          PROVE  lookedUp(n) = {holder(n)}
      <4>1. registryReads(n) = {registryOwner[n]} /\ registryOwner[n] \in Answers
        BY <3>8 DEF registryReads, MayRevert, IInv, TypeInv
      <4>2. secondHop(registryOwner[n]) <=> Wrapped(n)
        BY <3>6, <3>8, <4>1, OwnerConstants DEF secondHop, Wrapped, Answers
      <4> QED
        BY <4>1, <4>2 DEF lookedUp, holder
    <3> QED
      BY <3>4, <3>5, <3>7, <3>8
  <2>4. ASSUME "down" \in buildHealthReport, config.writable, NEW n \in Nodes
        PROVE  ~signable(n) \/ config.resolver \notin Deployed
    <3>1. PICK status \in storeStatus : "down" \in all(status)
      BY <2>1, <2>4, WorstFacts
    <3>2. signer # "down" /\ allowlist # "down" /\ ownersStatus # "down"
      BY DEF ownersStatus
    <3>3. CASE resolverStatus = "down"
      BY <3>3 DEF resolverStatus
    <3>4. CASE status = "down"
      <4>1. config.store = "file"
        BY <2>2, <2>4, <3>4 DEF storeStatus
      <4>2. ~(records > 0)
        BY <3>4, <4>1 DEF storeStatus
      <4> QED
        BY <4>2, RecordCount DEF signable, held
    <3> QED
      BY <3>1, <3>2, <3>3, <3>4
  <2> QED
    BY <2>3, <2>4 DEF HealthForetells
<1> QED
  BY ServiceIsPublishPath, Invariant, <1>1, PTL

\* Every tier of what the gateway signs for can be asked for by a client, and
\* it has not expired, however it got there (envelope.ts, signing.ts).
THEOREM ServedCanBeRead == ServiceSpec => []ServedIsReadable
<1>1. IInv => ServedIsReadable
  <2> SUFFICES ASSUME IInv, NEW n \in Nodes, signable(n)
               PROVE  LET text == held(n).envelope
                      IN  /\ assertEnvelope(text)
                          /\ \A i \in DOMAIN text.tiers : text.tiers[i].swarmRef /\ text.tiers[i].actHistoryAddress
                          /\ text.expiresAt >= TicksPerSecond * (now + 1)
    BY DEF ServedIsReadable
  <2> DEFINE text == held(n).envelope
  <2>1. held(n) = mem.records[n] /\ held(n) # NoRecord
    BY DEF signable, held
  <2>2. parses(text) /\ text \in EnvelopeText
    BY <2>1 DEF IInv, KeptInv, Kept
  <2>3. text.expiresAt \in Nat /\ now \in Nat
    BY <2>2 DEF EnvelopeText, parses, IInv, TypeInv
  <2>4. text.expiresAt \div TicksPerSecond > now
    BY DEF signable, expiresAtSeconds
  <2> HIDE DEF text
  <2>5. text.expiresAt >= TicksPerSecond * (now + 1)
    BY <2>3, <2>4, TicksAssumption
  <2>6. assertEnvelope(text)
    BY <2>2 DEF parses, assertEnvelope
  <2>7. \A i \in DOMAIN text.tiers : text.tiers[i].swarmRef /\ text.tiers[i].actHistoryAddress
    BY <2>2 DEF parses, requireTier
  <2> QED
    BY <2>5, <2>6, <2>7 DEF text
<1> QED
  BY ServiceIsPublishPath, Invariant, <1>1, PTL
=============================================================================
