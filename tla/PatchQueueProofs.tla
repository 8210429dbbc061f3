-------------------------- MODULE PatchQueueProofs --------------------------
(***************************************************************************)
(* For every set of tasks and clients and every floor that leaves a second *)
(* and the margin of a timer: two patches of one client never reach the    *)
(* node in the same second.                                                *)
(*                                                                         *)
(* QueueNeverCollides alone is not inductive. What carries it is where     *)
(* each instant lies: a write lies before the end of its task, the end of  *)
(* a task before lastFinishedAt, and the start of the next a floor later.  *)
(*                                                                         *)
(* And drain() waits for all it covers: what is not settled stands in the  *)
(* chain, before the tail it awaits.                                       *)
(***************************************************************************)
EXTENDS PatchQueue, Integers, TLAPS

\* A write happens while its task runs, and never in the future.
WritesInTask ==
    \A t \in Tasks : writtenAt[t] # Null => writtenAt[t] =< now /\ phase[t] \in {"running", "ok", "failed"}

\* lastFinishedAt is at or after every write of a task that has settled.
EndsAfterWrites ==
    \A t \in Tasks :
        Settled(t) /\ writtenAt[t] # Null
            => lastFinishedAt[QueueOf[t]] # Null /\ writtenAt[t] =< lastFinishedAt[QueueOf[t]]

\* A sleep ends a whole floor after the last end, a running task has begun at
\* least a second after it.
FloorKept ==
    \A t \in Tasks :
        lastFinishedAt[QueueOf[t]] # Null =>
            /\ phase[t] = "sleeping" => wakeAt[QueueOf[t]] >= lastFinishedAt[QueueOf[t]] + MinInterval
            /\ phase[t] = "running" => now >= lastFinishedAt[QueueOf[t]] + Second

\* ... and writes after that.
RunningWritesLate ==
    \A t \in Tasks :
        phase[t] = "running" /\ writtenAt[t] # Null /\ lastFinishedAt[QueueOf[t]] # Null
            => writtenAt[t] >= lastFinishedAt[QueueOf[t]] + Second

\* Two writes of one client are a second apart.
Apart(i, j) == i >= j + Second \/ j >= i + Second

WritesApart ==
    \A t, u \in Tasks :
        t # u /\ QueueOf[t] = QueueOf[u] /\ writtenAt[t] # Null /\ writtenAt[u] # Null
            => Apart(writtenAt[t], writtenAt[u])

IInv ==
    /\ TypeOK /\ WritesInTask /\ EndsAfterWrites
    /\ FloorKept /\ RunningWritesLate /\ WritesApart

\* A chain holds the unsettled tasks of its client, each once.
Begun(t) == phase[t] \in {"queued", "sleeping", "running"}

ChainsInv ==
    /\ \A q \in Queues : \A i \in 1..Len(waiting[q]) : QueueOf[waiting[q][i]] = q /\ Begun(waiting[q][i])
    /\ \A q \in Queues : \A i, j \in 1..Len(waiting[q]) : waiting[q][i] = waiting[q][j] => i = j
    /\ \A t \in Tasks : Begun(t) => \E i \in 1..Len(waiting[QueueOf[t]]) : waiting[QueueOf[t]][i] = t

\* What a drain() covers has settled or stands before the tail it awaits.
DrainsInv ==
    /\ drain \in [Queues -> [tail : Tasks, covers : SUBSET Tasks] \cup {Null}]
    /\ \A q \in Queues : drain[q] # Null =>
          /\ drain[q].covers \subseteq {t \in Tasks : QueueOf[t] = q /\ phase[t] # "new"}
          /\ \A t \in drain[q].covers : ~Settled(t) =>
                \E i, j \in 1..Len(waiting[q]) : i =< j /\ waiting[q][i] = t /\ waiting[q][j] = drain[q].tail

DInv == ChainsInv /\ DrainsInv
----------------------------------------------------------------------------
\* Instants a second apart fall into different seconds of the node.
LEMMA ApartSeconds ==
    ASSUME NEW i \in Nat, NEW j \in Nat, Apart(i, j)
    PROVE  ~SameSecond(i, j)
<1>1. Second \in Nat \ {0}
  BY QueueConstants
<1> DEFINE a == i \div Second  b == j \div Second
<1>2. /\ a \in Int /\ b \in Int
      /\ Second * a =< i /\ i < Second * (a + 1)
      /\ Second * b =< j /\ j < Second * (b + 1)
  BY <1>1
<1> HIDE DEF a, b
<1>3. Second * (a + 1) = Second * a + Second /\ Second * (b + 1) = Second * b + Second
  BY <1>1, <1>2
<1>4. a # b
  BY <1>1, <1>2, <1>3 DEF Apart
<1> QED
  BY <1>4 DEF SameSecond, a, b
----------------------------------------------------------------------------
\* What joins at the end of a chain does not move its head.
LEMMA AppendFacts ==
    ASSUME NEW S, NEW s \in Seq(S), NEW e \in S
    PROVE  /\ Append(s, e) \in Seq(S) /\ Append(s, e) # <<>>
           /\ Len(Append(s, e)) = Len(s) + 1
           /\ s # <<>> => Head(Append(s, e)) = Head(s)
<1>1. Append(s, e) \in Seq(S) /\ Len(Append(s, e)) = Len(s) + 1 /\ Len(s) \in Nat
  OBVIOUS
<1>2. Append(s, e) # <<>>
  BY <1>1
<1>3. s # <<>> => Len(s) >= 1
  OBVIOUS
<1>4. s # <<>> => Append(s, e)[1] = s[1]
  BY <1>3
<1> QED
  BY <1>1, <1>2, <1>4

LEMMA InitInv == Init => IInv
<1> SUFFICES ASSUME Init PROVE IInv
  OBVIOUS
<1> USE QueueConstants
<1>1. \A t \in Tasks : phase[t] = "new" /\ writtenAt[t] = Null
  BY DEF Init
<1>2. TypeOK
  <2>1. pending = [q \in Queues |-> Len(waiting[q])]
    BY DEF Init
  <2> QED
    BY <2>1, <1>1 DEF Init, TypeOK, Phases
<1>3. WritesInTask /\ EndsAfterWrites /\ RunningWritesLate /\ WritesApart
  BY <1>1 DEF WritesInTask, EndsAfterWrites, RunningWritesLate, WritesApart
<1>4. FloorKept
  BY <1>1 DEF FloorKept
<1> QED
  BY <1>2, <1>3, <1>4 DEF IInv

LEMMA EnqueueInv ==
    ASSUME IInv, NEW t \in Tasks, enqueue(t)
    PROVE  IInv'
<1> USE QueueConstants
<1> DEFINE q == QueueOf[t]
<1>1. q \in Queues /\ waiting[q] \in Seq(Tasks) /\ phase[t] = "new"
  BY DEF IInv, TypeOK, enqueue
<1>2. \A u \in Tasks : u # t => phase'[u] = phase[u]
  BY DEF enqueue, IInv, TypeOK
<1>3. phase'[t] = "queued"
  BY DEF enqueue, IInv, TypeOK
<1>4. TypeOK'
  <2>1. phase' \in [Tasks -> Phases]
    BY DEF enqueue, IInv, TypeOK, Phases
  <2>2. waiting' \in [Queues -> Seq(Tasks)]
    BY <1>1 DEF enqueue, IInv, TypeOK
  <2>3. pending' = [p \in Queues |-> Len(waiting'[p])]
    <3>1. waiting' = [waiting EXCEPT ![q] = Append(@, t)] /\ pending' = [pending EXCEPT ![q] = @ + 1]
      BY DEF enqueue
    <3>2. waiting \in [Queues -> Seq(Tasks)] /\ pending = [p \in Queues |-> Len(waiting[p])]
      BY DEF IInv, TypeOK
    <3>3. Len(Append(waiting[q], t)) = Len(waiting[q]) + 1
      BY <1>1, AppendFacts
    <3> HIDE DEF q
    <3> QED
      BY <1>1, <3>1, <3>2, <3>3
  <2>4. ASSUME NEW u \in Tasks, phase'[u] \in {"sleeping", "running"}
        PROVE  AtHead(u)'
    <3>1. u # t /\ AtHead(u)
      BY <2>4, <1>2, <1>3 DEF IInv, TypeOK
    <3>2. waiting'[QueueOf[u]] = waiting[QueueOf[u]]
          \/ waiting'[QueueOf[u]] = Append(waiting[QueueOf[u]], t)
      BY DEF enqueue, IInv, TypeOK
    <3>3. QueueOf[u] \in Queues /\ waiting[QueueOf[u]] \in Seq(Tasks)
      BY DEF IInv, TypeOK
    <3>4. waiting'[QueueOf[u]] # <<>> /\ Head(waiting'[QueueOf[u]]) = Head(waiting[QueueOf[u]])
      BY <3>1, <3>2, <3>3, AppendFacts DEF AtHead
    <3> QED
      BY <3>1, <3>4 DEF AtHead
  <2> QED
    BY <2>1, <2>2, <2>3, <2>4 DEF IInv, TypeOK, enqueue
<1>5. (WritesInTask /\ EndsAfterWrites /\ FloorKept /\ RunningWritesLate /\ WritesApart)'
  BY <1>1, <1>2, <1>3 DEF IInv, WritesInTask, EndsAfterWrites, FloorKept, RunningWritesLate, WritesApart, Settled, enqueue
<1> QED
  BY <1>4, <1>5 DEF IInv

\* The start of a task: at once when the floor has passed, asleep otherwise.
LEMMA BeginInv ==
    ASSUME IInv, NEW t \in Tasks, Begin(t)
    PROVE  IInv'
<1> USE QueueConstants
<1> DEFINE q == QueueOf[t]
<1>1. q \in Queues /\ now \in Nat /\ lastFinishedAt[q] \in Nat \cup {Null} /\ phase[t] = "queued" /\ AtHead(t)
  BY DEF IInv, TypeOK, Begin
<1>2. waitMs(q) \in Nat /\ (lastFinishedAt[q] # Null => now + waitMs(q) >= lastFinishedAt[q] + MinInterval)
  BY <1>1 DEF waitMs
<1>3. \A u \in Tasks : u # t => phase'[u] = phase[u]
  BY DEF Begin, IInv, TypeOK
<1>4. phase'[t] = IF waitMs(q) > 0 THEN "sleeping" ELSE "running"
  BY DEF Begin, IInv, TypeOK
<1>5. wakeAt'[q] = now + waitMs(q) /\ \A p \in Queues : p # q => wakeAt'[p] = wakeAt[p]
  BY <1>1 DEF Begin, IInv, TypeOK
<1>6. TypeOK'
  <2>1. phase' \in [Tasks -> Phases] /\ wakeAt' \in [Queues -> Nat]
    BY <1>1, <1>2 DEF Begin, IInv, TypeOK, Phases
  <2>2. \A u \in Tasks : phase'[u] \in {"sleeping", "running"} => AtHead(u)'
    BY <1>1, <1>3 DEF Begin, IInv, TypeOK, AtHead
  <2> QED
    BY <2>1, <2>2 DEF IInv, TypeOK, Begin
<1>7. FloorKept'
  <2> SUFFICES ASSUME NEW u \in Tasks, lastFinishedAt[QueueOf[u]] # Null
               PROVE  /\ phase'[u] = "sleeping" => wakeAt'[QueueOf[u]] >= lastFinishedAt[QueueOf[u]] + MinInterval
                      /\ phase'[u] = "running" => now >= lastFinishedAt[QueueOf[u]] + Second
    BY DEF FloorKept, Begin
  <2>1. CASE u = t
    BY <2>1, <1>1, <1>2, <1>4, <1>5
  <2>2. CASE u # t /\ QueueOf[u] # q
    BY <2>2, <1>3, <1>5 DEF IInv, FloorKept
  <2>3. CASE u # t /\ QueueOf[u] = q
    BY <2>3, <1>1, <1>3 DEF IInv, TypeOK, AtHead, FloorKept
  <2> QED
    BY <2>1, <2>2, <2>3
<1>8. (WritesInTask /\ EndsAfterWrites /\ RunningWritesLate /\ WritesApart)'
  BY <1>1, <1>3, <1>4 DEF IInv, WritesInTask, EndsAfterWrites, RunningWritesLate, WritesApart, Settled, Begin
<1> QED
  BY <1>6, <1>7, <1>8 DEF IInv

\* The margin of the floor pays for a timer that fires early.
LEMMA WakeInv ==
    ASSUME IInv, NEW t \in Tasks, Wake(t)
    PROVE  IInv'
<1> USE QueueConstants
<1> DEFINE q == QueueOf[t]
<1>1. q \in Queues /\ now \in Nat /\ wakeAt[q] \in Nat /\ lastFinishedAt[q] \in Nat \cup {Null} /\ AtHead(t)
  BY DEF IInv, TypeOK, Wake
<1>2. (\A u \in Tasks : u # t => phase'[u] = phase[u]) /\ phase'[t] = "running" /\ phase[t] = "sleeping"
  BY DEF Wake, IInv, TypeOK
<1>3. TypeOK'
  <2>1. phase' \in [Tasks -> Phases]
    BY DEF Wake, IInv, TypeOK, Phases
  <2>2. \A u \in Tasks : phase'[u] \in {"sleeping", "running"} => AtHead(u)'
    BY <1>1, <1>2 DEF Wake, IInv, TypeOK, AtHead
  <2> QED
    BY <2>1, <2>2 DEF IInv, TypeOK, Wake
<1>4. FloorKept'
  <2>1. lastFinishedAt[q] # Null => now >= lastFinishedAt[q] + Second
    BY <1>1, <1>2 DEF IInv, FloorKept, Wake
  <2> QED
    BY <2>1, <1>2 DEF IInv, FloorKept, Wake
<1>5. (WritesInTask /\ EndsAfterWrites /\ RunningWritesLate /\ WritesApart)'
  BY <1>2 DEF IInv, WritesInTask, EndsAfterWrites, RunningWritesLate, WritesApart, Settled, Wake
<1> QED
  BY <1>3, <1>4, <1>5 DEF IInv

\* The node writes a second after all that was written before.
LEMMA WriteInv ==
    ASSUME IInv, NEW t \in Tasks, Write(t)
    PROVE  IInv'
<1> USE QueueConstants
<1> DEFINE q == QueueOf[t]
<1>1. q \in Queues /\ now \in Nat /\ lastFinishedAt[q] \in Nat \cup {Null} /\ AtHead(t)
      /\ phase[t] = "running" /\ writtenAt[t] = Null /\ Null # now
  BY DEF IInv, TypeOK, Write
<1>2. (\A u \in Tasks : u # t => writtenAt'[u] = writtenAt[u]) /\ writtenAt'[t] = now
  BY DEF Write, IInv, TypeOK
<1>3. lastFinishedAt[q] # Null => now >= lastFinishedAt[q] + Second
  BY <1>1 DEF IInv, FloorKept
\* Any other write of this client belongs to a task that has settled.
<1>4. \A u \in Tasks : u # t /\ QueueOf[u] = q /\ writtenAt[u] # Null
                         => now >= writtenAt[u] + Second
  <2> SUFFICES ASSUME NEW u \in Tasks, u # t, QueueOf[u] = q, writtenAt[u] # Null
               PROVE  now >= writtenAt[u] + Second
    OBVIOUS
  <2>1. Settled(u)
    BY <1>1 DEF IInv, TypeOK, AtHead, WritesInTask, Settled
  <2>2. lastFinishedAt[q] # Null /\ writtenAt[u] =< lastFinishedAt[q] /\ writtenAt[u] \in Nat
    BY <2>1 DEF IInv, TypeOK, EndsAfterWrites
  <2> QED
    BY <2>2, <1>1, <1>3
<1>5. TypeOK'
  BY <1>1 DEF Write, IInv, TypeOK, AtHead
<1>6. WritesApart'
  BY <1>1, <1>2, <1>4 DEF IInv, TypeOK, WritesApart, Apart
<1>7. (WritesInTask /\ EndsAfterWrites /\ FloorKept /\ RunningWritesLate)'
  BY <1>1, <1>2, <1>3 DEF IInv, TypeOK, WritesInTask, EndsAfterWrites, FloorKept, RunningWritesLate, Settled, Write
<1> QED
  BY <1>5, <1>6, <1>7 DEF IInv

\* The end of a task moves the floor, and the next in line has not begun.
LEMMA SettleInv ==
    ASSUME IInv, NEW t \in Tasks, NEW outcome \in {"ok", "failed"}, Settle(t, outcome)
    PROVE  IInv'
<1> USE QueueConstants
<1> DEFINE q == QueueOf[t]
<1>1. q \in Queues /\ now \in Nat /\ waiting[q] \in Seq(Tasks) /\ AtHead(t) /\ phase[t] = "running" /\ waiting[q] # <<>>
  BY DEF IInv, TypeOK, Settle, AtHead
<1>2. (\A u \in Tasks : u # t => phase'[u] = phase[u]) /\ phase'[t] = outcome
  BY DEF Settle, IInv, TypeOK
<1>3. lastFinishedAt'[q] = now /\ \A p \in Queues : p # q => lastFinishedAt'[p] = lastFinishedAt[p]
  BY <1>1 DEF Settle, finished, IInv, TypeOK
<1>4. \A u \in Tasks : QueueOf[u] = q => phase'[u] \notin {"sleeping", "running"}
  BY <1>1, <1>2 DEF IInv, TypeOK, AtHead
<1>5. TypeOK'
  <2>1. phase' \in [Tasks -> Phases] /\ lastFinishedAt' \in [Queues -> Nat \cup {Null}]
    BY <1>1 DEF Settle, finished, IInv, TypeOK, Phases
  <2>2. Tail(waiting[q]) \in Seq(Tasks) /\ Len(Tail(waiting[q])) = Len(waiting[q]) - 1
    BY <1>1
  <2>3. waiting' = [waiting EXCEPT ![q] = Tail(@)] /\ pending' = [pending EXCEPT ![q] = @ - 1]
    BY DEF Settle
  <2>4. waiting \in [Queues -> Seq(Tasks)] /\ pending = [p \in Queues |-> Len(waiting[p])]
    BY DEF IInv, TypeOK
  <2>5. waiting' \in [Queues -> Seq(Tasks)] /\ pending' = [p \in Queues |-> Len(waiting'[p])]
    <3> HIDE DEF q
    <3> QED
      BY <1>1, <2>2, <2>3, <2>4
  <2>6. \A u \in Tasks : phase'[u] \in {"sleeping", "running"} => AtHead(u)'
    BY <1>1, <1>2, <1>4, <2>3 DEF IInv, TypeOK, AtHead
  <2> QED
    BY <2>1, <2>5, <2>6 DEF IInv, TypeOK, Settle
<1>6. EndsAfterWrites'
  <2> SUFFICES ASSUME NEW u \in Tasks, Settled(u)', writtenAt[u] # Null
               PROVE  lastFinishedAt'[QueueOf[u]] # Null /\ writtenAt[u] =< lastFinishedAt'[QueueOf[u]]
    BY DEF EndsAfterWrites, Settle
  <2>1. writtenAt[u] =< now /\ now # Null
    BY <1>1 DEF IInv, WritesInTask
  <2>2. CASE QueueOf[u] = q
    BY <2>1, <2>2, <1>3
  <2>3. CASE QueueOf[u] # q
    BY <2>3, <1>2, <1>3 DEF IInv, EndsAfterWrites, Settled
  <2> QED
    BY <2>2, <2>3
<1>7. FloorKept' /\ RunningWritesLate'
  <2> SUFFICES ASSUME NEW u \in Tasks, phase'[u] \in {"sleeping", "running"}
               PROVE  u # t /\ QueueOf[u] # q /\ phase'[u] = phase[u] /\ lastFinishedAt'[QueueOf[u]] = lastFinishedAt[QueueOf[u]]
    BY DEF IInv, FloorKept, RunningWritesLate, Settle
  <2> QED
    BY <1>2, <1>3, <1>4
<1>8. WritesInTask' /\ WritesApart'
  BY <1>2 DEF IInv, WritesInTask, WritesApart, Settle
<1> QED
  BY <1>5, <1>6, <1>7, <1>8 DEF IInv

LEMMA OtherInv ==
    ASSUME IInv, Tick \/ UNCHANGED vars \/ \E q \in Queues : Drain(q) \/ Drained(q)
    PROVE  IInv'
<1> USE QueueConstants
<1>1. now' \in Nat /\ now' >= now /\ now \in Nat
      /\ UNCHANGED <<phase, waiting, wakeAt, lastFinishedAt, pending, writtenAt>>
  BY DEF IInv, TypeOK, Tick, Drain, Drained, vars
<1>2. TypeOK'
  BY <1>1 DEF IInv, TypeOK, AtHead
<1>3. \A t \in Tasks : lastFinishedAt[QueueOf[t]] \in Nat \cup {Null} /\ writtenAt[t] \in Nat \cup {Null}
  BY DEF IInv, TypeOK
<1>4. (WritesInTask /\ EndsAfterWrites /\ FloorKept /\ RunningWritesLate /\ WritesApart)'
  BY <1>1, <1>3 DEF IInv, WritesInTask, EndsAfterWrites, FloorKept, RunningWritesLate, WritesApart, Settled
<1> QED
  BY <1>2, <1>4 DEF IInv

\* The strengthening holds in every reachable state.
THEOREM QueueInvariant == Spec => []IInv
<1>1. Init => IInv
  BY InitInv
<1>2. IInv /\ [Next]_vars => IInv'
  <2> SUFFICES ASSUME IInv, [Next]_vars PROVE IInv'
    OBVIOUS
  <2>1. ASSUME NEW t \in Tasks, enqueue(t) \/ Begin(t) \/ Wake(t) \/ Write(t) \/ Settle(t, "ok") \/ Settle(t, "failed")
        PROVE  IInv'
    BY <2>1, EnqueueInv, BeginInv, WakeInv, WriteInv, SettleInv
  <2>2. CASE Tick \/ UNCHANGED vars \/ \E q \in Queues : Drain(q) \/ Drained(q)
    BY <2>2, OtherInv
  <2> QED
    BY <2>1, <2>2 DEF Next
<1> QED
  BY <1>1, <1>2, PTL DEF Spec

\* The depth a caller renders is always the number of unsettled tasks.
THEOREM DepthIsHonest == Spec => []TypeOK
<1>1. IInv => TypeOK
  BY DEF IInv
<1> QED
  BY <1>1, QueueInvariant, PTL

\* Two patches of one client never reach the node in the same second, whatever
\* fails, however many are enqueued and whenever the node writes.
THEOREM PatchesOfAClientNeverCollide == Spec => []QueueNeverCollides
<1>1. IInv => QueueNeverCollides
  <2> SUFFICES ASSUME IInv, NEW t \in Tasks, NEW u \in Tasks, QueueOf[t] = QueueOf[u], Collide(t, u)
               PROVE  FALSE
    BY DEF QueueNeverCollides
  <2>1. writtenAt[t] \in Nat /\ writtenAt[u] \in Nat /\ Apart(writtenAt[t], writtenAt[u])
    BY DEF IInv, TypeOK, WritesApart, Collide
  <2>2. ~SameSecond(writtenAt[t], writtenAt[u])
    BY <2>1, ApartSeconds
  <2> QED
    BY <2>2 DEF Collide
<1> QED
  BY <1>1, QueueInvariant, PTL
----------------------------------------------------------------------------
\* A chain that grows at its end or loses its head keeps what else is in it.
LEMMA TailFacts ==
    ASSUME NEW S, NEW s \in Seq(S), s # <<>>
    PROVE  /\ Tail(s) \in Seq(S) /\ Len(Tail(s)) = Len(s) - 1 /\ Len(s) \in Nat /\ Len(s) >= 1
           /\ \A i \in 1..Len(Tail(s)) : i + 1 \in 1..Len(s) /\ Tail(s)[i] = s[i + 1]
           /\ \A i \in 1..Len(s) : i # 1 => i - 1 \in 1..Len(Tail(s)) /\ Tail(s)[i - 1] = s[i]
<1>1. Len(s) \in Nat /\ Len(s) >= 1 /\ Tail(s) \in Seq(S) /\ Len(Tail(s)) = Len(s) - 1
  OBVIOUS
<1>2. \A i \in 1..(Len(s) - 1) : Tail(s)[i] = s[i + 1]
  OBVIOUS
<1> QED
  BY <1>1, <1>2

LEMMA EnqueueChains ==
    ASSUME IInv, DInv, NEW t \in Tasks, enqueue(t)
    PROVE  DInv'
<1>1. PICK q \in Queues : q = QueueOf[t]
  BY QueueConstants
<1>2. PICK s : s = waiting[q]
  OBVIOUS
<1>3. /\ phase \in [Tasks -> Phases] /\ waiting \in [Queues -> Seq(Tasks)] /\ s \in Seq(Tasks) /\ Len(s) \in Nat
      /\ phase[t] = "new" /\ UNCHANGED drain
  BY <1>2 DEF IInv, TypeOK, enqueue
<1>4. /\ phase'[t] = "queued" /\ \A u \in Tasks : u # t => phase'[u] = phase[u]
      /\ waiting'[q] = Append(s, t) /\ \A p \in Queues : p # q => waiting'[p] = waiting[p]
  BY <1>1, <1>2, <1>3 DEF enqueue
<1>5. PICK s2 : s2 = waiting'[q]
  OBVIOUS
<1>6. /\ Len(s2) = Len(s) + 1 /\ s2[Len(s) + 1] = t /\ \A i \in 1..Len(s) : s2[i] = s[i]
      /\ \A i \in 1..Len(s2) : i \in 1..Len(s) \/ i = Len(s) + 1
      /\ 1..Len(s) \subseteq 1..Len(s2) /\ Len(s) + 1 \in 1..Len(s2)
  BY <1>3, <1>4, <1>5
<1>7. \A i \in 1..Len(s) : s[i] \in Tasks /\ s[i] # t /\ QueueOf[s[i]] = q /\ Begun(s[i])
  BY <1>2, <1>3 DEF DInv, ChainsInv, Begun
<1>8. \A u \in Tasks : (Begun(u) => Begun(u)') /\ (u # t => (Settled(u)' <=> Settled(u)) /\ (Begun(u)' <=> Begun(u)))
  BY <1>4 DEF Begun, Settled
<1>9. ChainsInv'
  <2>1. ASSUME NEW p \in Queues, NEW i \in 1..Len(waiting'[p])
        PROVE  QueueOf[waiting'[p][i]] = p /\ Begun(waiting[p][i])'
    <3>1. CASE p = q
      <4>1. waiting'[p][i] \in Tasks /\ QueueOf[waiting'[p][i]] = q
            /\ (waiting'[p][i] = t \/ (waiting'[p][i] # t /\ Begun(waiting'[p][i])))
        BY <1>1, <1>5, <1>6, <1>7, <2>1, <3>1
      <4> QED
        BY <1>4, <3>1, <4>1 DEF Begun
    <3>2. CASE p # q
      <4>1. PICK u : u = waiting[p][i]
        OBVIOUS
      <4>2. u \in Tasks /\ QueueOf[u] = p /\ Begun(u) /\ waiting'[p][i] = u
        BY <1>3, <1>4, <2>1, <3>2, <4>1 DEF DInv, ChainsInv
      <4> QED
        BY <1>8, <4>2 DEF Begun
    <3> QED
      BY <3>1, <3>2
  <2>2. ASSUME NEW p \in Queues, NEW i \in 1..Len(waiting'[p]), NEW j \in 1..Len(waiting'[p]), waiting'[p][i] = waiting'[p][j]
        PROVE  i = j
    <3>1. CASE p = q
      <4>1. \A k, l \in 1..Len(s) : s[k] = s[l] => k = l
        BY <1>2 DEF DInv, ChainsInv
      <4> QED
        BY <1>3, <1>5, <1>6, <1>7, <2>2, <3>1, <4>1
    <3>2. CASE p # q
      BY <1>4, <2>2, <3>2 DEF DInv, ChainsInv
    <3> QED
      BY <3>1, <3>2
  <2>3. ASSUME NEW u \in Tasks, Begun(u)'
        PROVE  \E i \in 1..Len(waiting'[QueueOf[u]]) : waiting'[QueueOf[u]][i] = u
    <3>1. CASE u = t
      BY <1>1, <1>5, <1>6, <3>1
    <3>2. CASE u # t
      <4>1. PICK i \in 1..Len(waiting[QueueOf[u]]) : waiting[QueueOf[u]][i] = u
        BY <1>8, <2>3, <3>2 DEF DInv, ChainsInv
      <4>2. CASE QueueOf[u] = q
        BY <1>2, <1>5, <1>6, <4>1, <4>2
      <4>3. CASE QueueOf[u] # q
        BY <1>4, <4>1, <4>3, QueueConstants
      <4> QED
        BY <4>2, <4>3
    <3> QED
      BY <3>1, <3>2
  <2> QED
    BY <2>1, <2>2, <2>3 DEF ChainsInv, Begun
<1>10. DrainsInv'
  <2>0. drain' = drain /\ drain \in [Queues -> [tail : Tasks, covers : SUBSET Tasks] \cup {Null}]
    BY <1>3 DEF DInv, DrainsInv
  <2> SUFFICES ASSUME NEW p \in Queues, drain[p] # Null
               PROVE  /\ drain[p].covers \subseteq {u \in Tasks : QueueOf[u] = p /\ phase'[u] # "new"}
                      /\ \A u \in drain[p].covers : ~Settled(u)' =>
                           \E i, j \in 1..Len(waiting'[p]) : i =< j /\ waiting'[p][i] = u /\ waiting'[p][j] = drain[p].tail
    BY <2>0 DEF DrainsInv
  <2>1. drain[p].covers \subseteq {u \in Tasks : QueueOf[u] = p /\ phase[u] # "new"}
    BY DEF DInv, DrainsInv
  <2>2. ASSUME NEW u \in drain[p].covers, ~Settled(u)'
        PROVE  \E i, j \in 1..Len(waiting'[p]) : i =< j /\ waiting'[p][i] = u /\ waiting'[p][j] = drain[p].tail
    <3>1. u \in Tasks /\ u # t /\ ~Settled(u)
      BY <1>3, <1>8, <2>1, <2>2
    <3>2. PICK i \in 1..Len(waiting[p]), j \in 1..Len(waiting[p]) :
            i =< j /\ waiting[p][i] = u /\ waiting[p][j] = drain[p].tail
      BY <2>2, <3>1 DEF DInv, DrainsInv
    <3>3. CASE p = q
      BY <1>2, <1>5, <1>6, <3>2, <3>3
    <3>4. CASE p # q
      BY <1>4, <3>2, <3>4
    <3> QED
      BY <3>3, <3>4
  <2> QED
    BY <1>3, <1>4, <2>1, <2>2
<1> QED
  BY <1>9, <1>10 DEF DInv

LEMMA SettleChains ==
    ASSUME IInv, DInv, NEW t \in Tasks, NEW outcome \in {"ok", "failed"}, Settle(t, outcome)
    PROVE  DInv'
<1>1. PICK q \in Queues : q = QueueOf[t]
  BY QueueConstants
<1>2. PICK s : s = waiting[q]
  OBVIOUS
<1>3. /\ phase \in [Tasks -> Phases] /\ waiting \in [Queues -> Seq(Tasks)] /\ s \in Seq(Tasks)
      /\ s # <<>> /\ Head(s) = t /\ UNCHANGED drain
  BY <1>1, <1>2 DEF IInv, TypeOK, Settle, AtHead
<1>4. /\ phase'[t] = outcome /\ \A u \in Tasks : u # t => phase'[u] = phase[u]
      /\ waiting'[q] = Tail(s) /\ \A p \in Queues : p # q => waiting'[p] = waiting[p]
  BY <1>1, <1>2, <1>3 DEF Settle
<1>5. PICK s2 : s2 = waiting'[q]
  OBVIOUS
<1>6. /\ Len(s2) = Len(s) - 1 /\ Len(s) \in Nat /\ Len(s) >= 1 /\ s[1] = t
      /\ \A i \in 1..Len(s2) : i + 1 \in 1..Len(s) /\ s2[i] = s[i + 1]
      /\ \A i \in 1..Len(s) : i # 1 => i - 1 \in 1..Len(s2) /\ s2[i - 1] = s[i]
  BY <1>3, <1>4, <1>5, TailFacts
<1>7. /\ \A i \in 1..Len(s) : s[i] \in Tasks /\ QueueOf[s[i]] = q /\ Begun(s[i])
      /\ \A i, j \in 1..Len(s) : s[i] = s[j] => i = j
  BY <1>2, <1>3 DEF DInv, ChainsInv
<1>8. \A u \in Tasks : u # t => (Settled(u)' <=> Settled(u)) /\ (Begun(u)' <=> Begun(u))
  BY <1>4 DEF Begun, Settled
<1>9. Settled(t)' /\ ~Begun(t)'
  BY <1>4 DEF Begun, Settled
<1>10. \A i \in 1..Len(s2) : s2[i] \in Tasks /\ s2[i] # t /\ QueueOf[s2[i]] = q /\ Begun(s2[i])
  <2> SUFFICES ASSUME NEW i \in 1..Len(s2) PROVE s2[i] \in Tasks /\ s2[i] # t /\ QueueOf[s2[i]] = q /\ Begun(s2[i])
    OBVIOUS
  <2>1. i + 1 \in 1..Len(s) /\ s2[i] = s[i + 1] /\ i + 1 # 1 /\ 1 \in 1..Len(s)
    BY <1>6
  <2> QED
    BY <1>6, <1>7, <2>1
<1>11. ChainsInv'
  <2>1. ASSUME NEW p \in Queues, NEW i \in 1..Len(waiting'[p])
        PROVE  QueueOf[waiting'[p][i]] = p /\ Begun(waiting[p][i])'
    <3>1. CASE p = q
      <4>1. PICK u : u = s2[i]
        OBVIOUS
      <4> QED
        BY <1>5, <1>8, <1>10, <2>1, <3>1, <4>1 DEF Begun
    <3>2. CASE p # q
      <4>1. PICK u : u = waiting[p][i]
        OBVIOUS
      <4>2. u \in Tasks /\ QueueOf[u] = p /\ Begun(u) /\ waiting'[p][i] = u /\ u # t
        BY <1>1, <1>3, <1>4, <2>1, <3>2, <4>1 DEF DInv, ChainsInv
      <4> QED
        BY <1>8, <4>2 DEF Begun
    <3> QED
      BY <3>1, <3>2
  <2>2. ASSUME NEW p \in Queues, NEW i \in 1..Len(waiting'[p]), NEW j \in 1..Len(waiting'[p]), waiting'[p][i] = waiting'[p][j]
        PROVE  i = j
    <3>1. CASE p = q
      <4>1. i + 1 \in 1..Len(s) /\ j + 1 \in 1..Len(s) /\ s[i + 1] = s[j + 1]
        BY <1>5, <1>6, <2>2, <3>1
      <4>2. i + 1 = j + 1
        BY <1>7, <4>1
      <4> QED
        BY <2>2, <4>2
    <3>2. CASE p # q
      BY <1>4, <2>2, <3>2 DEF DInv, ChainsInv
    <3> QED
      BY <3>1, <3>2
  <2>3. ASSUME NEW u \in Tasks, Begun(u)'
        PROVE  \E i \in 1..Len(waiting'[QueueOf[u]]) : waiting'[QueueOf[u]][i] = u
    <3>1. u # t /\ Begun(u)
      BY <1>8, <1>9, <2>3
    <3>2. PICK i \in 1..Len(waiting[QueueOf[u]]) : waiting[QueueOf[u]][i] = u
      BY <3>1 DEF DInv, ChainsInv
    <3>3. CASE QueueOf[u] = q
      <4>1. i - 1 \in 1..Len(s2) /\ s2[i - 1] = u
        BY <1>2, <1>6, <3>1, <3>2, <3>3
      <4> QED
        BY <1>5, <3>3, <4>1
    <3>4. CASE QueueOf[u] # q
      BY <1>4, <3>2, <3>4, QueueConstants
    <3> QED
      BY <3>3, <3>4
  <2> QED
    BY <2>1, <2>2, <2>3 DEF ChainsInv, Begun
<1>12. DrainsInv'
  <2>0. drain' = drain /\ drain \in [Queues -> [tail : Tasks, covers : SUBSET Tasks] \cup {Null}]
    BY <1>3 DEF DInv, DrainsInv
  <2> SUFFICES ASSUME NEW p \in Queues, drain[p] # Null
               PROVE  /\ drain[p].covers \subseteq {u \in Tasks : QueueOf[u] = p /\ phase'[u] # "new"}
                      /\ \A u \in drain[p].covers : ~Settled(u)' =>
                           \E i, j \in 1..Len(waiting'[p]) : i =< j /\ waiting'[p][i] = u /\ waiting'[p][j] = drain[p].tail
    BY <2>0 DEF DrainsInv
  <2>1. drain[p].covers \subseteq {u \in Tasks : QueueOf[u] = p /\ phase[u] # "new"}
    BY DEF DInv, DrainsInv
  <2>2. ASSUME NEW u \in drain[p].covers, ~Settled(u)'
        PROVE  \E i, j \in 1..Len(waiting'[p]) : i =< j /\ waiting'[p][i] = u /\ waiting'[p][j] = drain[p].tail
    <3>1. u \in Tasks /\ u # t /\ ~Settled(u)
      BY <1>8, <1>9, <2>1, <2>2
    <3>2. PICK i \in 1..Len(waiting[p]), j \in 1..Len(waiting[p]) :
            i =< j /\ waiting[p][i] = u /\ waiting[p][j] = drain[p].tail
      BY <2>2, <3>1 DEF DInv, DrainsInv
    <3>3. CASE p = q
      <4>1. i # 1 /\ j # 1
        BY <1>2, <1>6, <3>1, <3>2, <3>3
      <4>2. i - 1 \in 1..Len(s2) /\ j - 1 \in 1..Len(s2) /\ i - 1 =< j - 1 /\ s2[i - 1] = u /\ s2[j - 1] = drain[p].tail
        BY <1>2, <1>6, <3>2, <3>3, <4>1
      <4> QED
        BY <1>5, <3>3, <4>2
    <3>4. CASE p # q
      BY <1>4, <3>2, <3>4
    <3> QED
      BY <3>3, <3>4
  <2>3. phase'[t] # "new"
    BY <1>4
  <2> QED
    BY <1>4, <2>1, <2>2, <2>3
<1> QED
  BY <1>11, <1>12 DEF DInv

\* A call of drain() covers the chain as it stands, to its end.
LEMMA DrainChains ==
    ASSUME IInv, DInv, NEW q \in Queues, Drain(q) \/ Drained(q)
    PROVE  DInv'
<1>1. /\ UNCHANGED <<phase, waiting>> /\ waiting[q] \in Seq(Tasks) /\ phase \in [Tasks -> Phases]
      /\ drain \in [Queues -> [tail : Tasks, covers : SUBSET Tasks] \cup {Null}]
  BY DEF Drain, Drained, IInv, TypeOK, DInv, DrainsInv
<1>2. ChainsInv'
  BY <1>1 DEF DInv, ChainsInv, Begun
<1>3. \A u \in Tasks : Settled(u)' <=> Settled(u)
  BY <1>1 DEF Settled
<1>4. CASE Drain(q)
  <2>1. PICK n : n = Len(waiting[q])
    OBVIOUS
  <2>2. n \in 1..Len(waiting[q]) /\ waiting[q][n] \in Tasks /\ n \in Nat /\ \A i \in 1..Len(waiting[q]) : i =< n
    BY <1>1, <1>4, <2>1 DEF Drain
  <2>3. PICK d : d = [tail |-> waiting[q][n], covers |-> {t \in Tasks : QueueOf[t] = q /\ phase[t] # "new"}]
    OBVIOUS
  <2>4. /\ d \in [tail : Tasks, covers : SUBSET Tasks] /\ d.tail = waiting[q][n]
        /\ d.covers = {t \in Tasks : QueueOf[t] = q /\ phase[t] # "new"}
    BY <2>2, <2>3
  <2>5. drain' = [drain EXCEPT ![q] = d]
    BY <1>4, <2>1, <2>3 DEF Drain
  <2>6. /\ drain' \in [Queues -> [tail : Tasks, covers : SUBSET Tasks] \cup {Null}]
        /\ drain'[q] = d /\ \A p \in Queues : p # q => drain'[p] = drain[p]
    BY <1>1, <2>4, <2>5
  <2>7. ASSUME NEW t \in d.covers, ~Settled(t)
        PROVE  \E i, j \in 1..Len(waiting[q]) : i =< j /\ waiting[q][i] = t /\ waiting[q][j] = d.tail
    <3>1. t \in Tasks /\ QueueOf[t] = q /\ Begun(t)
      BY <1>1, <2>4, <2>7 DEF Begun, Settled, Phases
    <3>2. PICK i \in 1..Len(waiting[q]) : waiting[q][i] = t
      BY <3>1 DEF DInv, ChainsInv
    <3> QED
      BY <2>2, <2>4, <3>2
  <2>8. ASSUME NEW p \in Queues, drain'[p] # Null
        PROVE  /\ drain'[p].covers \subseteq {t \in Tasks : QueueOf[t] = p /\ phase[t] # "new"}
               /\ \A t \in drain'[p].covers : ~Settled(t) =>
                     \E i, j \in 1..Len(waiting[p]) : i =< j /\ waiting[p][i] = t /\ waiting[p][j] = drain'[p].tail
    <3>1. CASE p = q
      BY <2>4, <2>6, <2>7, <3>1
    <3>2. CASE p # q
      BY <2>6, <2>8, <3>2 DEF DInv, DrainsInv
    <3> QED
      BY <3>1, <3>2
  <2> QED
    BY <1>1, <1>2, <1>3, <2>6, <2>8 DEF DInv, DrainsInv, Settled
<1>5. CASE Drained(q)
  <2>1. /\ drain' \in [Queues -> [tail : Tasks, covers : SUBSET Tasks] \cup {Null}]
        /\ \A p \in Queues : drain'[p] # Null => drain'[p] = drain[p]
    BY <1>1, <1>5 DEF Drained
  <2>2. DrainsInv'
    BY <1>1, <1>3, <2>1 DEF DInv, DrainsInv, Settled
  <2> QED
    BY <1>2, <2>2 DEF DInv
<1> QED
  BY <1>4, <1>5

LEMMA OtherChains ==
    ASSUME IInv, DInv, Tick \/ UNCHANGED vars \/ \E t \in Tasks : Begin(t) \/ Wake(t) \/ Write(t)
    PROVE  DInv'
<1>1. UNCHANGED <<waiting, drain>>
  BY DEF Tick, Begin, Wake, Write, vars
<1>2. \A t \in Tasks : (Begun(t)' <=> Begun(t)) /\ (Settled(t)' <=> Settled(t)) /\ (phase'[t] = "new" <=> phase[t] = "new")
  BY DEF IInv, TypeOK, Tick, Begin, Wake, Write, vars, Begun, Settled
<1>3. waiting \in [Queues -> Seq(Tasks)]
  BY DEF IInv, TypeOK
<1>4. ChainsInv'
  <2>1. ASSUME NEW q \in Queues, NEW i \in 1..Len(waiting[q])
        PROVE  QueueOf[waiting[q][i]] = q /\ Begun(waiting[q][i])'
    <3>1. PICK t : t = waiting[q][i]
      OBVIOUS
    <3>2. t \in Tasks /\ QueueOf[t] = q /\ Begun(t)
      BY <1>3, <3>1 DEF DInv, ChainsInv
    <3>3. Begun(t)'
      BY <1>2, <3>2
    <3> QED
      BY <1>1, <3>1, <3>2, <3>3
  <2> QED
    BY <1>1, <1>2, <2>1 DEF DInv, ChainsInv
<1>5. DrainsInv'
  BY <1>1, <1>2 DEF DInv, DrainsInv
<1> QED
  BY <1>4, <1>5 DEF DInv

LEMMA ChainsInductive == Spec => [](IInv /\ DInv)
<1>1. Init => DInv
  <2> SUFFICES ASSUME Init PROVE DInv
    OBVIOUS
  <2>1. \A q \in Queues : 1..Len(waiting[q]) = {}
    BY DEF Init
  <2>2. \A t \in Tasks : ~Begun(t)
    BY DEF Init, Begun
  <2>3. drain = [q \in Queues |-> Null]
    BY DEF Init
  <2> QED
    BY <2>1, <2>2, <2>3 DEF DInv, ChainsInv, DrainsInv
<1>2. IInv /\ DInv /\ [Next]_vars => DInv'
  <2> SUFFICES ASSUME IInv, DInv, [Next]_vars PROVE DInv'
    OBVIOUS
  <2>1. ASSUME NEW t \in Tasks, enqueue(t) \/ Begin(t) \/ Wake(t) \/ Write(t) \/ Settle(t, "ok") \/ Settle(t, "failed")
        PROVE  DInv'
    BY <2>1, EnqueueChains, SettleChains, OtherChains
  <2>2. CASE Tick \/ UNCHANGED vars
    BY <2>2, OtherChains
  <2>3. CASE \E q \in Queues : Drain(q) \/ Drained(q)
    BY <2>3, DrainChains
  <2> QED
    BY <2>1, <2>2, <2>3 DEF Next
<1> QED
  BY <1>1, <1>2, QueueInvariant, PTL DEF Spec

\* When drain() returns, everything that was queued when it was called has
\* settled, whatever was rejected and whatever was enqueued since.
THEOREM DrainWaitsForAll == Spec => DrainCoversAll
<1>1. IInv /\ DInv /\ [Next]_vars
        => [\A q \in Queues : drain[q] # Null /\ drain'[q] = Null => \A t \in drain[q].covers : Settled(t)]_vars
  <2> SUFFICES ASSUME IInv, DInv, Next, NEW q \in Queues, drain[q] # Null, drain'[q] = Null, NEW t \in drain[q].covers
               PROVE  Settled(t)
    OBVIOUS
  <2>1. drain \in [Queues -> [tail : Tasks, covers : SUBSET Tasks] \cup {Null}]
    BY DEF DInv, DrainsInv
  <2>2. PICK p \in Queues : Drain(p) \/ Drained(p)
    BY DEF Next, enqueue, Begin, Wake, Write, Settle, Tick
  <2>3. p = q /\ ~Drain(q)
    BY <2>1, <2>2 DEF Drain, Drained
  <2>4. Settled(drain[q].tail)
    BY <2>2, <2>3 DEF Drained
  <2>5. \A i \in 1..Len(waiting[q]) : waiting[q][i] # drain[q].tail
    BY <2>4 DEF DInv, ChainsInv, Begun, Settled
  <2> QED
    BY <2>5 DEF DInv, DrainsInv
<1> QED
  BY <1>1, ChainsInductive, PTL DEF Spec, DrainCoversAll
=============================================================================
