---------------------------- MODULE QueueProps ----------------------------
(***************************************************************************)
(* What the queue promises, over the state of QueueRecovery.               *)
(***************************************************************************)
EXTENDS QueueRecovery

----------------------------------------------------------------------------
(* Types.                                                                  *)

Time == Nat
Deadline == Nat \ {0}
KeyOrNone == Keys \cup {NoKey}
EnqueueRecs == [t : {"ENQUEUE"}, ids : SUBSET Ids, seq : Nat, prio : Int,
                enqAt : Time, visAt : Time, key : KeyOrNone]
LeaseRecs == [t : {"LEASE"}, ids : SUBSET Ids, tok : Nat, exp : Deadline,
              att : [Ids -> Nat]]
RemoveRecs == [t : {"ACK", "DLQ_MOVE"}, ids : SUBSET Ids]
ReturnRecs == [t : {"NACK", "LEASE_EXPIRE"}, ids : SUBSET Ids, visAt : Time]
Records == EnqueueRecs \cup LeaseRecs \cup RemoveRecs \cup ReturnRecs
Counters == [enqueued : Nat, dequeued : Nat, acked : Nat, nacked : Nat,
             expired : Nat, dlqMoved : Nat, deduped : Nat]
Messages == [seq : Nat, prio : Int, enqAt : Time, visAt : Time, attempts : Nat,
             token : Nat, key : KeyOrNone]
Entries == [id : Ids, token : Nat, exp : Deadline]
Ops == {"none", "enqueue", "duplicate", "dequeue", "ack", "nack"}
Pcs == {"off", "loop", "wait", "expire", "send", "dlq", "stopped"}

\* Every field of Queue, Message, the log and the goroutines' locals stays in
\* its Go type, the fsynced prefix is a prefix, and replay never reads past the
\* end of the log.
TypeOK ==
  /\ disk \in Seq(Records) /\ synced \in 0 .. Len(disk) /\ dead \in BOOLEAN
  /\ phase \in [Callers -> Phases]
  /\ rec \in [Callers -> Records \cup {NoRec}]
  /\ mode \in {"up", "replay", "failed"} /\ clock \in Time /\ booted \in Time
  /\ msg \in [Ids -> Messages]
  /\ msgs \subseteq Ids /\ ready \subseteq Ids /\ delayed \subseteq Ids
  /\ inflight \subseteq Ids /\ dlq \subseteq Ids /\ leases \subseteq Entries
  /\ seq \in Nat
  /\ dedup \in [Keys -> [id : Ids \cup {NoId}, exp : Time]]
  /\ entryErr \subseteq Ids
  /\ cnt \in Counters
  /\ armed \in Time /\ wake \in BOOLEAN
  /\ job \in [Clients -> [op : Ops, id : Ids \cup {NoId}, at : Time]]
  /\ mt \in [pc : Pcs, requeue : SUBSET Entries, toDLQ : SUBSET Entries,
             err : BOOLEAN]
  /\ fresh \subseteq Ids /\ tokens \in Nat
  /\ granted \subseteq (Ids \X Nat)
  /\ confirmed \subseteq Ids /\ acked \subseteq Ids
  /\ pos \in 0 .. Len(disk) /\ leased \subseteq Ids /\ crashes \in Nat

----------------------------------------------------------------------------
(* Who has a message.                                                      *)

\* Messages an operation took out of every heap before its append.
Holding(p) ==
  IF p = Maintainer THEN idsOf(mt.requeue) \cup idsOf(mt.toDLQ)
  ELSE IF job[p].op \in {"dequeue", "ack", "nack"} THEN rec[p].ids ELSE {}

\* While the process is up every live message is in exactly one place: the
\* ready heap, the delayed heap, the in-flight map, or the hands of one
\* operation waiting for its append (the reservation of takeLeased, tryDequeue
\* and Maintain). No interleaving delivers, settles or expires it twice.
SingleOwner ==
  mode = "up" =>
    /\ msgs = ready \cup delayed \cup inflight \cup UNION {Holding(p) : p \in Callers}
    /\ ready \cap delayed = {} /\ ready \cap inflight = {} /\ delayed \cap inflight = {}
    /\ \A p \in Callers :
         /\ Holding(p) \cap (ready \cup delayed \cup inflight) = {}
         /\ \A q \in Callers \ {p} : Holding(p) \cap Holding(q) = {}

\* A token settles a message only if no later lease of it has been delivered,
\* whatever leases were granted before a restart (takeLeased).
NewestLeaseSettles ==
  [][\A p \in Clients, g \in granted :
       AckReserve(p, g[1], g[2]) \/ (\E now \in Readings, d \in Delays :
                                      NackReserve(p, g[1], g[2], d, now))
         => \A h \in granted : h[1] = g[1] => h[2] <= g[2]]_vars

\* The lease heap holds the entry of every leased message, whoever raced for it:
\* takeLeased, Maintain, and the undo of either. The one exception is what
\* restoreLeased leaves when Maintain popped the entry during a settlement that
\* failed: the log is dead then, so no expiry could be recorded, and the lease had
\* run out. (Whether Maintain still runs to read the entry is StopsOnlyWhenDead.)
LeaseCanExpire ==
  mode = "up" =>
    \A i \in inflight :
      \/ \E e \in leases : e.id = i /\ e.token = msg[i].token
      \/ dead /\ \E k \in 1 .. Len(disk) :
           disk[k].t = "LEASE" /\ disk[k].tok = msg[i].token /\ disk[k].exp <= clock

\* Maintain reclaims a message only once the lease that owns it has run out: an
\* entry an earlier lease left in the heap does not end a later one.
NoEarlyExpiry ==
  [][\A e \in leases :
       /\ e.id \in inflight /\ e.token = msg[e.id].token
       /\ e.id \in idsOf(mt'.requeue \cup mt'.toDLQ)
       => e.exp <= clock]_vars

\* The maintenance goroutine never sleeps through a deadline: parked with an
\* empty wake channel, it is armed for the earliest one there is, or there is
\* none (wakeIfSooner, nextDeadline).
NoMissedDeadline ==
  mt.pc = "wait" /\ ~wake =>
    IF armed = 0 THEN Deadlines = {} ELSE \A d \in Deadlines : armed <= d

\* "The only way an append fails is a dead log" (queue.go, maintain): the
\* maintenance goroutine gives up only when the log is dead.
StopsOnlyWhenDead == mt.pc = "stopped" => dead

----------------------------------------------------------------------------
(* The log and memory.                                                     *)

Logged(t, i) == \E k \in 1 .. Len(disk) : disk[k].t = t /\ i \in disk[k].ids

\* Recovery accepts the log of every crash: no record refers to a message that
\* was not enqueued before it or was already acked or dead-lettered (apply).
ReplayAccepts == mode # "failed"

\* A message answered with 201 stays in the queue or its DLQ, across restarts,
\* until an ACK record, or a DLQ_MOVE record of a queue without a DLQ.
NoConfirmedLoss ==
  mode = "up" => \A i \in confirmed :
    i \in msgs \cup dlq \/ Logged("ACK", i) \/ (~DLQ /\ Logged("DLQ_MOVE", i))

\* A message whose ack was answered with 204 never comes back.
AckIsFinal == mode = "up" => acked \cap (msgs \cup dlq) = {}

\* README: a 2xx reaches the producer only after the fsync covering its record.
ConfirmedIsSynced ==
  \A i \in confirmed : \E k \in 1 .. synced : disk[k].t = "ENQUEUE" /\ i \in disk[k].ids

\* No append outstanding and none failed: memory should be the fold of the log.
Settled ==
  /\ mode = "up" /\ ~dead
  /\ \A p \in Callers : phase[p] = "idle"
  /\ mt.pc \in {"loop", "wait"}

\* k is the last record of one of the types T about message i.
LastAbout(T, i, k) ==
  /\ disk[k].t \in T /\ i \in disk[k].ids
  /\ \A j \in k + 1 .. Len(disk) : ~(disk[j].t \in T /\ i \in disk[j].ids)

\* How many messages the records of types T name, record by record.
CountOf(T) == Cardinality({ki \in (1 .. Len(disk)) \X Ids :
                             disk[ki[1]].t \in T /\ ki[2] \in disk[ki[1]].ids})

\* Live operation and recovery agree with the log: whether a message was
\* committed by its own operation or rebuilt by apply, what is live, what is
\* dead-lettered, its attempts, visibility and sequence number, and the
\* counters, are what the records say. The expired counter is left out: Maintain
\* counts a message it dead-letters, apply of its DLQ_MOVE record does not.
MemoryIsFoldOfLog ==
  Settled =>
    /\ msgs = {i \in Ids : Logged("ENQUEUE", i) /\ ~Logged("ACK", i) /\ ~Logged("DLQ_MOVE", i)}
    /\ dlq = {i \in Ids : DLQ /\ Logged("DLQ_MOVE", i)}
    /\ \A k \in 1 .. Len(disk), i \in msgs :
         /\ LastAbout({"ENQUEUE"}, i, k) =>
              msg[i].seq = disk[k].seq /\ msg[i].prio = disk[k].prio
         /\ LastAbout({"LEASE"}, i, k) => msg[i].attempts = disk[k].att[i]
         /\ LastAbout({"ENQUEUE", "NACK", "LEASE_EXPIRE"}, i, k) =>
              msg[i].visAt = disk[k].visAt
    /\ cnt.enqueued = CountOf({"ENQUEUE"}) /\ cnt.dequeued = CountOf({"LEASE"})
    /\ cnt.acked = CountOf({"ACK"}) /\ cnt.nacked = CountOf({"NACK"})
    /\ cnt.dlqMoved = CountOf({"DLQ_MOVE"})

\* Sequence numbers order deliveries, so no two messages ever logged share one
\* and the next one is larger, across restarts that drop unwritten enqueues.
SeqNeverReused ==
  \A j \in 1 .. Len(disk) : disk[j].t = "ENQUEUE" =>
    /\ mode = "up" => disk[j].seq <= seq
    /\ \A k \in 1 .. Len(disk) :
         disk[k].t = "ENQUEUE" /\ disk[k].seq = disk[j].seq => j = k

----------------------------------------------------------------------------
(* Delivery.                                                               *)

\* Messages of S that are visible at time now.
Visible(S, now) == {i \in S : msg[i].visAt <= now}

\* i is delivered before j: by priority, then oldest first, or newest first.
Precedes(i, j) ==
  \/ msg[i].prio > msg[j].prio
  \/ msg[i].prio = msg[j].prio /\ (Lifo <=> msg[i].seq > msg[j].seq)

\* By the real clock, a dequeue takes only visible messages, and it passes over one
\* that the queue's order puts first only if that one is still in the delayed heap
\* and came due while the dequeue waited for q.mu with its reading of the clock
\* (tryDequeue, promoteDue).
DeliversInOrder ==
  [][\A p \in Clients : job[p].op = "none" /\ job'[p].op = "dequeue" =>
       LET S == rec'[p].ids
           U == (ready \cup Visible(delayed, clock - Lag)) \ S
       IN /\ S \subseteq Visible(ready \cup delayed, clock)
          /\ \A i \in S, j \in U : Precedes(i, j)]_vars

\* A message in rotation has been delivered less than MaxAttempts times, plus once
\* per process death: finalize puts an exhausted message back into rotation, and a
\* LEASE record nobody was answered for counts, but nack and expiry do not give it
\* another round on top (exhausted).
AttemptsBounded ==
  mode = "up" => \A i \in ready \cup delayed : msg[i].attempts < MaxAttempts + crashes

\* DESIGN.md, Delivery: once attempts reach the maximum, the next return (nack,
\* expiry or process death) goes to the DLQ and not back into rotation.
ExhaustedLeavesRotation ==
  mode = "up" => \A i \in ready \cup delayed : msg[i].attempts < MaxAttempts

\* Two messages with one dedup key are confirmed only if they were enqueued at
\* least DedupTTL apart.
DedupWindow ==
  \A j, k \in 1 .. Len(disk) :
    /\ j # k
    /\ disk[j].t = "ENQUEUE" /\ disk[k].t = "ENQUEUE"
    /\ disk[j].key = disk[k].key /\ disk[j].key # NoKey
    /\ (disk[j].ids \cup disk[k].ids) \subseteq confirmed
    /\ disk[j].enqAt <= disk[k].enqAt
    => disk[k].enqAt - disk[j].enqAt >= DedupTTL

----------------------------------------------------------------------------
(* Progress. The Go scheduler runs every goroutine that can run, the writer *)
(* serves its channel in order, disks answer, and time passes. Consumers   *)
(* and producers owe nothing: Request, faults and crashes are not fair.    *)

Fairness ==
  /\ WF_vars(/\ LogSync \/ \E p \in Callers : LogWrite(p) \/ LogRefuse(p)
             /\ UNCHANGED <<queueVars, recoveryVars>>)
  /\ \A p \in Clients : WF_vars(Complete(p) /\ UNCHANGED recoveryVars)
  /\ WF_vars(Maintenance /\ UNCHANGED recoveryVars)
  /\ WF_vars(Tick /\ UNCHANGED recoveryVars)
  /\ WF_vars(Recovery)

FairSpec == Spec /\ Fairness

\* Every request that reserved something, or waits on a duplicate's original,
\* is answered: whether its append succeeds, fails, or the process dies.
RequestsAnswered == \A p \in Clients : job[p].op # "none" ~> job[p].op = "none"

\* A leased message leaves the in-flight map, by its consumer or by Maintain,
\* unless the log has failed. This is for expiry batches that fit in a record, as
\* those of one message do: a larger one ends the maintenance goroutine on a working
\* log (StopsOnlyWhenDead).
LeasesEnd == \A i \in Ids : i \in inflight ~> (i \notin inflight \/ dead)

\* A delayed message becomes deliverable with no help from a consumer, unless
\* the log has failed.
DelaysEnd == \A i \in Ids : i \in delayed ~> (i \notin delayed \/ dead)
============================================================================
