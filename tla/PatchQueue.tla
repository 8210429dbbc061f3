----------------------------- MODULE PatchQueue -----------------------------
(***************************************************************************)
(* The rate-floored queue of grantee patches (packages/seal/src/queue.ts)  *)
(* in front of a Bee node, which keys each version of an access history by *)
(* the wall-clock second in which it writes it.                            *)
(*                                                                         *)
(* Every SealClient has a queue of its own. A queue is a chain of promises:*)
(* a task starts when the one before it has settled, after one sleep of    *)
(* what is left of the floor. The node writes at some instant while the    *)
(* task runs, whether or not the task then succeeds.                       *)
(***************************************************************************)
EXTENDS Naturals, Sequences

CONSTANTS
    Tasks,        \* the patches callers ask for, each at most once
    Queues,       \* the SealClients in use
    QueueOf,      \* QueueOf[t]: the client task t is enqueued on
    Null,         \* a cold queue's lastFinishedAt, a write not made, no drain
    Second,       \* length of one of the node's seconds
    MinInterval,  \* minIntervalMs
    Early,        \* the margin: how early a timer may fire
    MaxTime       \* bound: the last instant of the model

ASSUME QueueConstants ==
    /\ QueueOf \in [Tasks -> Queues]
    /\ Null \notin Nat
    /\ Second \in Nat \ {0} /\ MinInterval \in Nat /\ Early \in Nat /\ MaxTime \in Nat
    /\ Second + Early =< MinInterval

VARIABLES
    now,             \* the wall clock
    phase,           \* phase[t]: where task t stands
    waiting,         \* the chain that ends in #tail: the unsettled tasks, oldest first
    wakeAt,          \* wakeAt[q]: when the sleep of the head of q is due
    lastFinishedAt,  \* #lastFinishedAt
    pending,         \* #pending, the depth callers see
    writtenAt,       \* the instant the node wrote the version of task t
    drain            \* drain[q]: the tail a drain() awaits, and the tasks it is to cover

vars == <<now, phase, waiting, wakeAt, lastFinishedAt, pending, writtenAt, drain>>

Phases == {"new", "queued", "sleeping", "running", "ok", "failed"}
Settled(t) == phase[t] \in {"ok", "failed"}

\* What is left of the floor, from the end of the previous task.
waitMs(q) ==
    IF lastFinishedAt[q] = Null \/ now >= lastFinishedAt[q] + MinInterval
    THEN 0 ELSE lastFinishedAt[q] + MinInterval - now
----------------------------------------------------------------------------
enqueue(t) ==
    LET q == QueueOf[t]
    IN  /\ phase[t] = "new"
        /\ phase' = [phase EXCEPT ![t] = "queued"]
        /\ waiting' = [waiting EXCEPT ![q] = Append(@, t)]
        /\ pending' = [pending EXCEPT ![q] = @ + 1]
        /\ UNCHANGED <<now, wakeAt, lastFinishedAt, writtenAt, drain>>

\* Mutant: a patch starts without waiting for the one before it.
AtHead_Any(t) == \E i \in DOMAIN waiting[QueueOf[t]] : waiting[QueueOf[t]][i] = t

\* The promise before this one has settled.
AtHead(t) == waiting[QueueOf[t]] # <<>> /\ Head(waiting[QueueOf[t]]) = t

Begin(t) ==
    LET q == QueueOf[t]
    IN  /\ phase[t] = "queued" /\ AtHead(t)
        /\ phase' = [phase EXCEPT ![t] = IF waitMs(q) > 0 THEN "sleeping" ELSE "running"]
        /\ wakeAt' = [wakeAt EXCEPT ![q] = now + waitMs(q)]
        /\ UNCHANGED <<now, waiting, lastFinishedAt, pending, writtenAt, drain>>

\* The timer fires, perhaps a little early; the floor is not looked at again.
Wake(t) ==
    /\ phase[t] = "sleeping"
    /\ now + Early >= wakeAt[QueueOf[t]]
    /\ phase' = [phase EXCEPT ![t] = "running"]
    /\ UNCHANGED <<now, waiting, wakeAt, lastFinishedAt, pending, writtenAt, drain>>

\* The node writes the patched list under the second it is in.
Write(t) ==
    /\ phase[t] = "running" /\ writtenAt[t] = Null
    /\ writtenAt' = [writtenAt EXCEPT ![t] = now]
    /\ UNCHANGED <<now, phase, waiting, wakeAt, lastFinishedAt, pending, drain>>

\* Mutant: the floor is measured from a success only.
finished_OnSuccess(q, outcome) ==
    IF outcome = "ok" THEN [lastFinishedAt EXCEPT ![q] = now] ELSE lastFinishedAt

\* The finally block: the end of a task counts, whatever its outcome.
finished(q, outcome) == [lastFinishedAt EXCEPT ![q] = now]

\* Mutants of Settle: a rejection poisons the chain, and a rejection is not
\* counted down.
Settle_Poisons(t, outcome) ==
    LET q == QueueOf[t]
    IN  /\ phase[t] = "running"
        /\ outcome = "ok" => writtenAt[t] # Null
        /\ phase' = [phase EXCEPT ![t] = outcome]
        /\ lastFinishedAt' = finished(q, outcome)
        /\ pending' = [pending EXCEPT ![q] = @ - 1]
        /\ waiting' = IF outcome = "ok" THEN [waiting EXCEPT ![q] = Tail(@)] ELSE waiting
        /\ UNCHANGED <<now, wakeAt, writtenAt, drain>>

\* A task resolves once its version is written, or rejects, written or not.
Settle(t, outcome) ==
    LET q == QueueOf[t]
    IN  /\ phase[t] = "running"
        /\ outcome = "ok" => writtenAt[t] # Null
        /\ phase' = [phase EXCEPT ![t] = outcome]
        /\ lastFinishedAt' = finished(q, outcome)
        /\ pending' = [pending EXCEPT ![q] = @ - 1]
        /\ waiting' = [waiting EXCEPT ![q] = Tail(@)]
        /\ UNCHANGED <<now, wakeAt, writtenAt, drain>>

\* drain() awaits the tail of this moment.
Drain(q) ==
    /\ drain[q] = Null /\ waiting[q] # <<>>
    /\ drain' = [drain EXCEPT ![q] = [tail |-> waiting[q][Len(waiting[q])],
                                      covers |-> {t \in Tasks : QueueOf[t] = q /\ phase[t] # "new"}]]
    /\ UNCHANGED <<now, phase, waiting, wakeAt, lastFinishedAt, pending, writtenAt>>

Drained(q) ==
    /\ drain[q] # Null /\ Settled(drain[q].tail)
    /\ drain' = [drain EXCEPT ![q] = Null]
    /\ UNCHANGED <<now, phase, waiting, wakeAt, lastFinishedAt, pending, writtenAt>>

Tick ==
    /\ now < MaxTime
    /\ now' = now + 1
    /\ UNCHANGED <<phase, waiting, wakeAt, lastFinishedAt, pending, writtenAt, drain>>

Init ==
    /\ now = 0
    /\ phase = [t \in Tasks |-> "new"]
    /\ waiting = [q \in Queues |-> <<>>]
    /\ wakeAt = [q \in Queues |-> 0]
    /\ lastFinishedAt = [q \in Queues |-> Null]
    /\ pending = [q \in Queues |-> 0]
    /\ writtenAt = [t \in Tasks |-> Null]
    /\ drain = [q \in Queues |-> Null]

Next ==
    \/ \E t \in Tasks :
          \/ enqueue(t) \/ Begin(t) \/ Wake(t) \/ Write(t)
          \/ Settle(t, "ok") \/ Settle(t, "failed")
    \/ \E q \in Queues : Drain(q) \/ Drained(q)
    \/ Tick

Asleep == \E t \in Tasks : phase[t] = "sleeping"

\* Promises whose turn has come run, a request to the node ends one way or the
\* other, and time passes for a task that sleeps.
Fairness ==
    /\ \A t \in Tasks :
          /\ WF_vars(Begin(t)) /\ WF_vars(Wake(t))
          /\ WF_vars(Settle(t, "ok") \/ Settle(t, "failed"))
    /\ \A q \in Queues : WF_vars(Drained(q))
    /\ WF_vars(Asleep /\ Tick)

Spec == Init /\ [][Next]_vars
FairSpec == Spec /\ Fairness
----------------------------------------------------------------------------
\* The depth a caller renders is the number of tasks not yet settled, and only
\* the oldest of them has begun.
TypeOK ==
    /\ now \in Nat
    /\ phase \in [Tasks -> Phases]
    /\ waiting \in [Queues -> Seq(Tasks)]
    /\ wakeAt \in [Queues -> Nat]
    /\ lastFinishedAt \in [Queues -> Nat \cup {Null}]
    /\ writtenAt \in [Tasks -> Nat \cup {Null}]
    /\ pending = [q \in Queues |-> Len(waiting[q])]
    /\ \A t \in Tasks : phase[t] \in {"sleeping", "running"} => AtHead(t)

SameSecond(i, j) == i \div Second = j \div Second

Collide(t, u) ==
    /\ t # u
    /\ writtenAt[t] # Null /\ writtenAt[u] # Null
    /\ SameSecond(writtenAt[t], writtenAt[u])

\* Two patches of one client never reach the node in the same second, although
\* the node writes at any moment of a task, a failed task may have written, and
\* timers fire early.
QueueNeverCollides ==
    \A t, u \in Tasks : QueueOf[t] = QueueOf[u] => ~Collide(t, u)

\* When drain() returns, everything that was queued when it was called has
\* settled, rejected tasks included.
DrainCoversAll ==
    [][\A q \in Queues :
          drain[q] # Null /\ drain'[q] = Null => \A t \in drain[q].covers : Settled(t)]_vars

\* Every patch that is enqueued settles: a rejected one does not stall the ones
\* behind it. (Unless the model's time runs out under a task that sleeps.)
EveryPatchSettles ==
    \A t \in Tasks : phase[t] = "queued" ~> Settled(t) \/ now = MaxTime
=============================================================================
