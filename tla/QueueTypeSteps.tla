-------------------------- MODULE QueueTypeSteps ---------------------------
(***************************************************************************)
(* Type correctness of the queue: the inductive invariant, and that every  *)
(* step of a client keeps it. What a step leaves behind is well typed only *)
(* because a goroutine inside Append has the record of its own operation   *)
(* there. QueueTypeProofs has the other steps and the theorem.             *)
(***************************************************************************)
EXTENDS QueueProps, FiniteSetTheorems, TLAPS

\* A client is inside Append exactly while its operation has a reservation,
\* and the record it appends is the one of its operation.
ClientOK(p) ==
  /\ job[p].op \in {"none", "duplicate"} => phase[p] = "idle"
  /\ job[p].op \in {"enqueue", "dequeue", "ack", "nack"} => phase[p] # "idle"
  /\ job[p].op # "none" => mode = "up"
  /\ job[p].op \in {"duplicate", "enqueue", "ack", "nack"} => job[p].id \in Ids
  /\ job[p].op = "enqueue" => rec[p] \in EnqueueRecs
  /\ job[p].op = "dequeue" => rec[p] \in LeaseRecs
  /\ job[p].op = "ack" => rec[p] \in RemoveRecs
  /\ job[p].op = "nack" => rec[p] \in RemoveRecs \cup ReturnRecs
  /\ job[p].op \in {"enqueue", "ack", "nack"} => rec[p].ids = {job[p].id}

\* The same for the maintenance goroutine, which also keeps the entries of what
\* it popped until the append that concerns them has returned.
MaintainerOK ==
  /\ mt.pc \in {"off", "loop", "wait", "send", "stopped"} => phase[Maintainer] = "idle"
  /\ mt.pc \in {"expire", "dlq"} => phase[Maintainer] # "idle"
  /\ (mt.pc = "off") <=> (mode # "up")
  /\ mt.pc = "expire" => /\ rec[Maintainer] \in ReturnRecs
                         /\ rec[Maintainer].ids = idsOf(mt.requeue)
  /\ mt.pc = "dlq" => /\ rec[Maintainer] \in RemoveRecs
                      /\ rec[Maintainer].ids = idsOf(mt.toDLQ)
  /\ mt.pc # "expire" => mt.requeue = {}
  /\ mt.pc \in {"off", "loop", "wait", "stopped"} => mt.toDLQ = {}

\* A dedup entry that has not expired names a message.
DedupOK == \A k \in Keys : dedup[k].exp > 0 => dedup[k].id \in Ids

\* The inductive form of type correctness.
TypeInv ==
  /\ TypeOK
  /\ \A p \in Clients : ClientOK(p)
  /\ MaintainerOK
  /\ DedupOK

----------------------------------------------------------------------------
(* What the calls into the log do to the types.                            *)

LogType ==
  /\ disk \in Seq(Records) /\ synced \in 0 .. Len(disk) /\ dead \in BOOLEAN
  /\ phase \in [Callers -> Phases]
  /\ rec \in [Callers -> Records \cup {NoRec}]

\* Every caller but p keeps its place and its record.
OnlyCaller(p) ==
  \A q \in Callers \ {p} : phase'[q] = phase[q] /\ rec'[q] = rec[q]

\* A caller that is not inside Append enters it with the record it was given.
LEMMA AppendFacts ==
  ASSUME LogType, NEW p \in Callers, NEW r \in Records, AppendJSON(p, r)
  PROVE  /\ LogType'
         /\ UNCHANGED <<disk, synced, dead>>
         /\ phase[p] = "idle" /\ phase'[p] \in {"sent", "err"} /\ rec'[p] = r
         /\ OnlyCaller(p)
<1>1. CASE Cardinality(r.ids) > MaxItems
  BY <1>1 DEF AppendJSON, LogReject, LogType, Phases, OnlyCaller
<1>2. CASE ~(Cardinality(r.ids) > MaxItems)
  BY <1>2 DEF AppendJSON, LogAppend, LogType, Phases, OnlyCaller
<1> QED
  BY <1>1, <1>2

\* A caller that is answered leaves Append, and only it moves.
LEMMA ReturnFacts ==
  ASSUME LogType, NEW p \in Callers, LogReturn(p)
  PROVE  /\ LogType'
         /\ UNCHANGED <<disk, synced, dead>>
         /\ phase'[p] = "idle"
         /\ OnlyCaller(p)
  BY DEF LogReturn, LogType, Phases, OnlyCaller

\* The writer adds records of callers to the log and moves nobody in or out.
LEMMA WriterFacts ==
  ASSUME LogType, LogStep,
         \A p \in Callers : phase[p] # "idle" => rec[p] \in Records
  PROVE  /\ LogType'
         /\ rec' = rec
         /\ \A q \in Callers : phase'[q] = "idle" <=> phase[q] = "idle"
         /\ Len(disk) <= Len(disk')
<1>1. ASSUME NEW p \in Callers, LogWrite(p)
      PROVE  /\ LogType' /\ rec' = rec /\ Len(disk) <= Len(disk')
             /\ \A q \in Callers : phase'[q] = "idle" <=> phase[q] = "idle"
  <2>1. rec[p] \in Records
    BY <1>1 DEF LogWrite
  <2>2. disk' \in Seq(Records) /\ Len(disk') = Len(disk) + 1
    BY <1>1, <2>1 DEF LogWrite, LogType
  <2>3. phase' \in [Callers -> Phases]
    BY <1>1 DEF LogWrite, LogType, Phases
  <2> QED
    BY <1>1, <2>2, <2>3 DEF LogWrite, LogType, Phases
<1>2. ASSUME NEW p \in Callers, LogRefuse(p)
      PROVE  /\ LogType' /\ rec' = rec /\ Len(disk) <= Len(disk')
             /\ \A q \in Callers : phase'[q] = "idle" <=> phase[q] = "idle"
  BY <1>2 DEF LogRefuse, LogType, Phases
<1>3. CASE LogSync
  BY <1>3 DEF LogSync, LogType, Phases
<1>4. CASE LogFail
  BY <1>4 DEF LogFail, LogType, Phases
<1> QED
  BY <1>1, <1>2, <1>3, <1>4 DEF LogStep

\* Reopening the log after a process death leaves a prefix of it and no caller.
LEMMA ReopenFacts ==
  ASSUME LogType, LogKill \/ LogPowerLoss
  PROVE  LogType' /\ \A q \in Callers : phase'[q] = "idle"
<1>1. LogReopen
  BY DEF LogKill, LogPowerLoss
<1>2. /\ phase' \in [Callers -> Phases] /\ rec' \in [Callers -> Records \cup {NoRec}]
      /\ dead' \in BOOLEAN /\ \A q \in Callers : phase'[q] = "idle"
  BY <1>1, Zenon DEF LogReopen, Phases
<1>3. CASE LogKill
  BY <1>2, <1>3 DEF LogKill, LogType
<1>4. CASE LogPowerLoss
  <2>1. PICK k \in synced .. Len(disk) : disk' = SubSeq(disk, 1, k) /\ synced' = k
    BY <1>4 DEF LogPowerLoss
  <2>2. disk' \in Seq(Records) /\ Len(disk') = k
    BY <2>1 DEF LogType
  <2> QED
    BY <1>2, <2>1, <2>2 DEF LogType
<1> QED
  BY <1>3, <1>4

----------------------------------------------------------------------------
(* Types of what the operations build.                                     *)

LEMMA RecordTypes ==
  /\ \A i \in Ids, m \in Messages : EnqueueRec(i, m) \in EnqueueRecs
  /\ \A S \in SUBSET Ids, tok \in Nat, exp \in Deadline, att \in [Ids -> Nat] :
       LeaseRec(S, tok, exp, att) \in LeaseRecs
  /\ \A i \in Ids : AckRec(i) \in RemoveRecs
  /\ \A S \in SUBSET Ids : DlqRec(S) \in RemoveRecs
  /\ \A i \in Ids, vis \in Time : NackRec(i, vis) \in ReturnRecs
  /\ \A S \in SUBSET Ids, vis \in Time : ExpireRec(S, vis) \in ReturnRecs
<1>1. \A i \in Ids, m \in Messages : EnqueueRec(i, m) \in EnqueueRecs
  BY DEF EnqueueRec, EnqueueRecs, Messages
<1>2. \A S \in SUBSET Ids, tok \in Nat, exp \in Deadline, att \in [Ids -> Nat] :
        LeaseRec(S, tok, exp, att) \in LeaseRecs
  BY DEF LeaseRec, LeaseRecs
<1>3. \A i \in Ids : AckRec(i) \in RemoveRecs
  BY DEF AckRec, RemoveRecs
<1>4. \A S \in SUBSET Ids : DlqRec(S) \in RemoveRecs
  BY DEF DlqRec, RemoveRecs
<1>5. \A i \in Ids, vis \in Time : NackRec(i, vis) \in ReturnRecs
  BY DEF NackRec, ReturnRecs
<1>6. \A S \in SUBSET Ids, vis \in Time : ExpireRec(S, vis) \in ReturnRecs
  BY DEF ExpireRec, ReturnRecs
<1> QED
  BY <1>1, <1>2, <1>3, <1>4, <1>5, <1>6

\* A clock reading and a deadline computed from it are times.
LEMMA ReadingTypes ==
  ASSUME TypeInv, NEW now \in Readings, NEW delay \in Delays
  PROVE  now \in Time /\ now + delay \in Time
<1>1. booted \in Nat /\ clock \in Nat
  BY DEF TypeInv, TypeOK, Time
<1>2. now \in Nat
  BY <1>1 DEF Readings
<1>3. delay \in Nat
  BY QueueAssumption
<1> QED
  BY <1>2, <1>3 DEF Time

\* A record names a finite number of messages.
LEMMA FiniteIds ==
  ASSUME NEW S \in SUBSET Ids
  PROVE  Cardinality(S) \in Nat
  BY QueueAssumption, FS_Subset, FS_CardinalityType

\* The messages the records describe, and what applying records makes of them.
LEMMA MessageTypes ==
  /\ NoMsg \in Messages
  /\ \A r \in EnqueueRecs : MessageOf(r) \in Messages
  /\ TypeOK => /\ \A r \in LeaseRecs : leasedBy(r) \in [Ids -> Messages]
               /\ \A r \in ReturnRecs : returnedBy(r) \in [Ids -> Messages]
<1>1. NoMsg \in Messages
  BY DEF NoMsg, Messages, Time, KeyOrNone
<1>2. \A r \in EnqueueRecs : MessageOf(r) \in Messages
  BY Zenon DEF MessageOf, NoMsg, Messages, EnqueueRecs, Time
<1>3. ASSUME TypeOK, NEW r \in LeaseRecs
      PROVE  leasedBy(r) \in [Ids -> Messages]
  <2>1. \A i \in Ids : msg[i] \in Messages
    BY <1>3 DEF TypeOK
  <2>2. \A i \in Ids : [msg[i] EXCEPT !.attempts = r.att[i], !.token = r.tok] \in Messages
    BY <1>3, <2>1, Zenon DEF LeaseRecs, Messages
  <2> QED
    BY <2>1, <2>2, Zenon DEF leasedBy
<1>4. ASSUME TypeOK, NEW r \in ReturnRecs
      PROVE  returnedBy(r) \in [Ids -> Messages]
  <2>1. \A i \in Ids : msg[i] \in Messages
    BY <1>4 DEF TypeOK
  <2>2. \A i \in Ids : [msg[i] EXCEPT !.token = 0, !.visAt = r.visAt] \in Messages
    BY <1>4, <2>1, Zenon DEF ReturnRecs, Messages
  <2> QED
    BY <2>1, <2>2, Zenon DEF returnedBy
<1> QED
  BY <1>1, <1>2, <1>3, <1>4

\* Counters only ever have natural numbers added to them.
LEMMA CounterTypes ==
  ASSUME NEW c \in Counters, NEW n \in Nat
  PROVE  /\ [c EXCEPT !.enqueued = @ + 1] \in Counters
         /\ [c EXCEPT !.dequeued = @ + n] \in Counters
         /\ [c EXCEPT !.acked = @ + 1] \in Counters
         /\ [c EXCEPT !.nacked = @ + 1] \in Counters
         /\ [c EXCEPT !.expired = @ + n] \in Counters
         /\ [c EXCEPT !.dlqMoved = @ + n] \in Counters
         /\ [c EXCEPT !.dlqMoved = @ + 1] \in Counters
         /\ [c EXCEPT !.expired = @ + n, !.dlqMoved = @ + n] \in Counters
         /\ [c EXCEPT !.deduped = @ + 1] \in Counters
<1>1. [c EXCEPT !.enqueued = @ + 1] \in Counters
  BY DEF Counters
<1>2. [c EXCEPT !.dequeued = @ + n] \in Counters
  BY DEF Counters
<1>3. [c EXCEPT !.acked = @ + 1] \in Counters
  BY DEF Counters
<1>4. [c EXCEPT !.nacked = @ + 1] \in Counters
  BY DEF Counters
<1>5. [c EXCEPT !.expired = @ + n] \in Counters
  BY DEF Counters
<1>6. [c EXCEPT !.dlqMoved = @ + n] \in Counters
  BY DEF Counters
<1>7. [c EXCEPT !.dlqMoved = @ + 1] \in Counters
  BY DEF Counters
<1>8. [c EXCEPT !.expired = @ + n, !.dlqMoved = @ + n] \in Counters
  <2> DEFINE d == [c EXCEPT !.expired = @ + n]
  <2>1. d \in Counters
    BY <1>5
  <2>2. [d EXCEPT !.dlqMoved = d.dlqMoved + n] \in Counters
    <3> HIDE DEF d
    <3> QED
      BY <2>1 DEF Counters
  <2>3. d.dlqMoved = c.dlqMoved
    BY DEF Counters
  <2> QED
    BY <2>2, <2>3
<1>9. [c EXCEPT !.deduped = @ + 1] \in Counters
  BY DEF Counters
<1> QED
  BY <1>1, <1>2, <1>3, <1>4, <1>5, <1>6, <1>7, <1>8, <1>9

----------------------------------------------------------------------------
(* Who is not concerned by a step keeps what is known of it.               *)

LEMMA OthersOK ==
  ASSUME TypeInv, NEW p \in Clients, OnlyCaller(p), mode' = mode, mt' = mt,
         \A q \in Clients \ {p} : job'[q] = job[q]
  PROVE  (\A q \in Clients \ {p} : ClientOK(q)') /\ MaintainerOK'
<1>1. Maintainer \in Callers \ {p}
  BY QueueAssumption DEF Clients
<1>2. phase'[Maintainer] = phase[Maintainer] /\ rec'[Maintainer] = rec[Maintainer]
  BY <1>1 DEF OnlyCaller
<1>3. MaintainerOK'
  BY <1>2 DEF TypeInv, MaintainerOK, idsOf
<1>4. ASSUME NEW q \in Clients \ {p}
      PROVE  ClientOK(q)'
  BY <1>4 DEF TypeInv, ClientOK, OnlyCaller, Clients
<1> QED
  BY <1>3, <1>4

LEMMA ClientsOK ==
  ASSUME TypeInv, OnlyCaller(Maintainer), mode' = mode, job' = job
  PROVE  \A q \in Clients : ClientOK(q)'
  BY DEF TypeInv, ClientOK, OnlyCaller, Clients

\* A caller inside Append has a record of the log's vocabulary.
LEMMA InsideAppend ==
  ASSUME TypeInv, NEW p \in Callers, phase[p] # "idle"
  PROVE  rec[p] \in Records
<1>1. CASE p = Maintainer
  BY <1>1 DEF TypeInv, TypeOK, Pcs, MaintainerOK, Records
<1>2. CASE p \in Clients
  <2>1. ClientOK(p) /\ job[p].op \in Ops
    BY <1>2 DEF TypeInv, TypeOK
  <2> QED
    BY <2>1 DEF ClientOK, Ops, Records
<1> QED
  BY <1>1, <1>2 DEF Clients

----------------------------------------------------------------------------
(* Each request keeps TypeInv.                                             *)

LEMMA TypeEnqueueDuplicate ==
  ASSUME TypeInv, NEW p \in Clients, NEW k \in Keys, NEW now \in Readings,
         EnqueueDuplicate(p, k, now), UNCHANGED recoveryVars
  PROVE  TypeInv'
<1>1. now \in Nat
  BY DEF TypeInv, TypeOK, Readings, Time
<1>2. dedup[k].id \in Ids
  BY <1>1 DEF TypeInv, TypeOK, DedupOK, EnqueueDuplicate, claimed, Time
<1>3. cnt' \in Counters
  BY CounterTypes, Zenon DEF TypeInv, TypeOK, EnqueueDuplicate
<1>4. job' \in [Clients -> [op : Ops, id : Ids \cup {NoId}, at : Time]]
  BY <1>2 DEF TypeInv, TypeOK, EnqueueDuplicate, Start, Ops, Time
<1>5. TypeOK'
  BY <1>3, <1>4 DEF TypeInv, TypeOK, EnqueueDuplicate, logVars, procVars, heapVars,
     leaseVars, dedupVars, loopVars, supplyVars, histVars, recoveryVars
<1>6. OnlyCaller(p) /\ mode' = mode /\ mt' = mt /\ \A q \in Clients \ {p} : job'[q] = job[q]
  BY DEF TypeInv, TypeOK, EnqueueDuplicate, Start, OnlyCaller, logVars, procVars, loopVars
<1>7. ClientOK(p)'
  <2>1. job'[p] = [op |-> "duplicate", id |-> dedup[k].id, at |-> 0] /\ job[p].op = "none"
    BY DEF TypeInv, TypeOK, EnqueueDuplicate, Start
  <2>2. phase'[p] = "idle" /\ mode' = "up"
    BY <2>1 DEF TypeInv, ClientOK, EnqueueDuplicate, logVars, procVars
  <2> QED
    BY <1>2, <2>1, <2>2 DEF ClientOK
<1>8. DedupOK'
  BY DEF TypeInv, DedupOK, EnqueueDuplicate, dedupVars
<1> QED
  BY <1>5, <1>6, <1>7, <1>8, OthersOK DEF TypeInv

LEMMA TypeEnqueueReserve ==
  ASSUME TypeInv, NEW p \in Clients, NEW i \in fresh, NEW prio \in Priorities,
         NEW delay \in Delays, NEW k \in Keys \cup {NoKey}, NEW now \in Readings,
         EnqueueReserve(p, i, prio, delay, k, now), UNCHANGED recoveryVars
  PROVE  TypeInv'
<1> DEFINE m == [NoMsg EXCEPT !.seq = seq + 1,
                              !.prio = IF PriorityOn THEN prio ELSE 0,
                              !.enqAt = now,
                              !.visAt = IF DelayOn THEN now + delay ELSE now,
                              !.key = k]
<1>1. now \in Nat /\ i \in Ids /\ delay \in Nat /\ prio \in Int /\ p \in Callers
  BY QueueAssumption DEF TypeInv, TypeOK, Readings, Time, Clients
<1>2. m \in Messages
  <2>1. seq + 1 \in Nat /\ k \in KeyOrNone
    BY DEF TypeInv, TypeOK, KeyOrNone
  <2>2. (IF PriorityOn THEN prio ELSE 0) \in Int /\ (IF DelayOn THEN now + delay ELSE now) \in Nat
    BY <1>1
  <2> QED
    BY <1>1, <2>1, <2>2, Zenon DEF NoMsg, Messages, Time
<1>3. EnqueueRec(i, m) \in EnqueueRecs /\ EnqueueRec(i, m).ids = {i}
  BY <1>1, <1>2, RecordTypes, Zenon DEF EnqueueRec
<1>4. AppendJSON(p, EnqueueRec(i, m))
  BY DEF EnqueueReserve
<1>5. /\ LogType' /\ UNCHANGED <<disk, synced, dead>>
      /\ phase'[p] # "idle" /\ rec'[p] = EnqueueRec(i, m) /\ OnlyCaller(p)
  <2> HIDE DEF m
  <2>1. LogType /\ EnqueueRec(i, m) \in Records
    BY <1>3 DEF TypeInv, TypeOK, LogType, Records
  <2> QED
    BY <1>1, <1>4, <2>1, AppendFacts
<1>6. /\ dedup' \in [Keys -> [id : Ids \cup {NoId}, exp : Time]]
      /\ DedupOK'
  <2>1. dedup \in [Keys -> [id : Ids \cup {NoId}, exp : Time]] /\ DedupOK
    BY DEF TypeInv, TypeOK
  <2>2. now + DedupTTL \in Time
    BY <1>1, QueueAssumption DEF Time
  <2>3. dedup' = IF k \in Keys
                 THEN [dedup EXCEPT ![k] = [id |-> i, exp |-> now + DedupTTL]] ELSE dedup
    BY DEF EnqueueReserve
  <2> QED
    BY <1>1, <2>1, <2>2, <2>3 DEF DedupOK
<1>7. /\ job' \in [Clients -> [op : Ops, id : Ids \cup {NoId}, at : Time]]
      /\ job'[p] = [op |-> "enqueue", id |-> i, at |-> 0]
      /\ \A q \in Clients \ {p} : job'[q] = job[q]
  BY <1>1 DEF TypeInv, TypeOK, EnqueueReserve, Start, Ops, Time
<1>8. TypeOK'
  BY <1>5, <1>6, <1>7 DEF TypeInv, TypeOK, LogType, EnqueueReserve, procVars, heapVars,
     leaseVars, loopVars, histVars, recoveryVars
<1>9. mode' = mode /\ mode = "up" /\ mt' = mt
  BY DEF EnqueueReserve, procVars, loopVars
<1>10. ClientOK(p)'
  <2> HIDE DEF m
  <2> QED
    BY <1>1, <1>3, <1>5, <1>7, <1>9 DEF ClientOK
<1> QED
  BY <1>5, <1>6, <1>7, <1>8, <1>9, <1>10, OthersOK DEF TypeInv

LEMMA TypeDequeueReserve ==
  ASSUME TypeInv, NEW p \in Clients, NEW n \in 1 .. MaxN, NEW now \in Readings,
         DequeueReserve(p, n, now), UNCHANGED recoveryVars
  PROVE  TypeInv'
<1> DEFINE visible == ready \cup Due(now)
           att(S)  == [i \in Ids |-> IF i \in S THEN msg[i].attempts + 1 ELSE 0]
           r(S)    == LeaseRec(S, tokens + 1, now + VisibilityTimeout, att(S))
<1>1. now \in Nat /\ p \in Callers /\ visible \subseteq Ids
  BY DEF TypeInv, TypeOK, Readings, Time, Clients, Due
<1>2. PICK S \in SUBSET visible : ready' = visible \ S /\ AppendJSON(p, r(S))
  BY DEF DequeueReserve
<1>3. r(S) \in LeaseRecs
  <2>1. msg \in [Ids -> Messages] /\ tokens \in Nat
    BY Zenon DEF TypeInv, TypeOK
  <2>2. att(S) \in [Ids -> Nat]
    BY <2>1 DEF Messages
  <2>3. tokens + 1 \in Nat /\ now + VisibilityTimeout \in Deadline
    BY <1>1, <2>1, QueueAssumption DEF Deadline
  <2> HIDE DEF att
  <2> QED
    BY <1>1, <2>2, <2>3, RecordTypes
<1>4. /\ LogType' /\ UNCHANGED <<disk, synced, dead>>
      /\ phase'[p] # "idle" /\ rec'[p] = r(S) /\ OnlyCaller(p)
  <2> HIDE DEF r
  <2>1. LogType /\ r(S) \in Records
    BY <1>3 DEF TypeInv, TypeOK, LogType, Records
  <2> QED
    BY <1>1, <1>2, <2>1, AppendFacts
<1>5. /\ job' \in [Clients -> [op : Ops, id : Ids \cup {NoId}, at : Time]]
      /\ job'[p] = [op |-> "dequeue", id |-> NoId, at |-> 0]
      /\ \A q \in Clients \ {p} : job'[q] = job[q]
  BY DEF TypeInv, TypeOK, DequeueReserve, Start, Ops, Time
<1>6. TypeOK'
  <2>1. ready' \subseteq Ids /\ delayed' \subseteq Ids
    BY <1>1, <1>2, Zenon DEF TypeInv, TypeOK, DequeueReserve
  <2>2. tokens' \in Nat
    <3>1. tokens \in Nat /\ tokens' = tokens + 1
      BY Zenon DEF TypeInv, TypeOK, DequeueReserve
    <3> QED
      BY <3>1
  <2> QED
    BY <1>4, <1>5, <2>1, <2>2, Zenon DEF TypeInv, TypeOK, LogType, DequeueReserve, procVars,
       leaseVars, dedupVars, loopVars, histVars, recoveryVars
<1>7. mode' = mode /\ mode = "up" /\ mt' = mt /\ dedup' = dedup
  BY DEF DequeueReserve, procVars, loopVars, dedupVars
<1>8. ClientOK(p)'
  <2> HIDE DEF r
  <2> QED
    BY <1>3, <1>4, <1>5, <1>7 DEF ClientOK
<1>9. DedupOK'
  BY <1>7, Zenon DEF TypeInv, DedupOK
<1> QED
  BY <1>4, <1>5, <1>6, <1>7, <1>8, <1>9, OthersOK, Zenon DEF TypeInv

LEMMA TypeAckReserve ==
  ASSUME TypeInv, NEW p \in Clients, NEW i, NEW tok, AckReserve(p, i, tok),
         UNCHANGED recoveryVars
  PROVE  TypeInv'
<1>1. i \in Ids /\ p \in Callers /\ inflight' \subseteq Ids
  BY DEF TypeInv, TypeOK, AckReserve, takeLeased, Clients
<1>2. AckRec(i) \in RemoveRecs /\ AckRec(i).ids = {i}
  BY <1>1, RecordTypes DEF AckRec
<1>3. /\ LogType' /\ UNCHANGED <<disk, synced, dead>>
      /\ phase'[p] # "idle" /\ rec'[p] = AckRec(i) /\ OnlyCaller(p)
  <2>1. LogType /\ AckRec(i) \in Records /\ AppendJSON(p, AckRec(i))
    BY <1>2, Zenon DEF TypeInv, TypeOK, LogType, Records, AckReserve
  <2> QED
    BY <1>1, <2>1, AppendFacts, Zenon
<1>4. /\ job' \in [Clients -> [op : Ops, id : Ids \cup {NoId}, at : Time]]
      /\ job'[p].op = "ack" /\ job'[p].id = i
      /\ \A q \in Clients \ {p} : job'[q] = job[q]
  BY <1>1 DEF TypeInv, TypeOK, AckReserve, Start, Ops, Time
<1>5. TypeOK'
  BY <1>1, <1>3, <1>4, Zenon DEF TypeInv, TypeOK, LogType, AckReserve, procVars, heapVars,
     dedupVars, loopVars, supplyVars, histVars, recoveryVars
<1>6. mode' = mode /\ mode = "up" /\ mt' = mt /\ dedup' = dedup
  BY DEF AckReserve, procVars, loopVars, dedupVars
<1>7. ClientOK(p)'
  BY <1>1, <1>2, <1>3, <1>4, <1>6, Zenon DEF ClientOK
<1>8. DedupOK'
  BY <1>6, Zenon DEF TypeInv, DedupOK
<1> QED
  BY <1>3, <1>4, <1>5, <1>6, <1>7, <1>8, OthersOK, Zenon DEF TypeInv

LEMMA TypeNackReserve ==
  ASSUME TypeInv, NEW p \in Clients, NEW i, NEW tok, NEW delay \in Delays,
         NEW now \in Readings, NackReserve(p, i, tok, delay, now),
         UNCHANGED recoveryVars
  PROVE  TypeInv'
<1> DEFINE r == IF exhausted(msg[i]) THEN DlqRec({i}) ELSE NackRec(i, now + delay)
<1>1. i \in Ids /\ p \in Callers /\ inflight' \subseteq Ids /\ now \in Time
      /\ now + delay \in Time
  BY ReadingTypes DEF TypeInv, TypeOK, NackReserve, takeLeased, Clients
<1>2. r \in RemoveRecs \cup ReturnRecs /\ r.ids = {i}
  BY <1>1, RecordTypes, Zenon DEF DlqRec, NackRec
<1>3. /\ LogType' /\ UNCHANGED <<disk, synced, dead>>
      /\ phase'[p] # "idle" /\ rec'[p] = r /\ OnlyCaller(p)
  <2>1. AppendJSON(p, r)
    BY DEF NackReserve
  <2> HIDE DEF r
  <2>2. LogType /\ r \in Records
    BY <1>2, Zenon DEF TypeInv, TypeOK, LogType, Records
  <2> QED
    BY <1>1, <2>1, <2>2, AppendFacts, Zenon
<1>4. /\ job' \in [Clients -> [op : Ops, id : Ids \cup {NoId}, at : Time]]
      /\ job'[p].op = "nack" /\ job'[p].id = i
      /\ \A q \in Clients \ {p} : job'[q] = job[q]
  BY <1>1 DEF TypeInv, TypeOK, NackReserve, Start, Ops
<1>5. TypeOK'
  BY <1>1, <1>3, <1>4, Zenon DEF TypeInv, TypeOK, LogType, NackReserve, procVars, heapVars,
     dedupVars, loopVars, supplyVars, histVars, recoveryVars
<1>6. mode' = mode /\ mode = "up" /\ mt' = mt /\ dedup' = dedup
  BY DEF NackReserve, procVars, loopVars, dedupVars
<1>7. ClientOK(p)'
  <2> HIDE DEF r
  <2> QED
    BY <1>1, <1>2, <1>3, <1>4, <1>6, Zenon DEF ClientOK
<1>8. DedupOK'
  BY <1>6, Zenon DEF TypeInv, DedupOK
<1> QED
  BY <1>3, <1>4, <1>5, <1>6, <1>7, <1>8, OthersOK, Zenon DEF TypeInv

----------------------------------------------------------------------------
(* Each completion keeps TypeInv.                                          *)

\* What every completion does to the goroutines.
LEMMA Finished ==
  ASSUME TypeInv, NEW p \in Clients, LogReturn(p), Finish(p), mode' = mode, mt' = mt
  PROVE  /\ LogType' /\ UNCHANGED <<disk, synced, dead>>
         /\ job' \in [Clients -> [op : Ops, id : Ids \cup {NoId}, at : Time]]
         /\ (\A q \in Clients : ClientOK(q)') /\ MaintainerOK'
<1>1. LogType' /\ UNCHANGED <<disk, synced, dead>> /\ phase'[p] = "idle" /\ OnlyCaller(p)
  <2>1. LogType /\ p \in Callers
    BY DEF TypeInv, TypeOK, LogType, Clients
  <2> QED
    BY <2>1, ReturnFacts
<1>2. /\ job' \in [Clients -> [op : Ops, id : Ids \cup {NoId}, at : Time]]
      /\ job'[p].op = "none"
      /\ \A q \in Clients \ {p} : job'[q] = job[q]
  BY DEF TypeInv, TypeOK, Finish, NoJob, Ops, Time
<1>3. ClientOK(p)'
  BY <1>1, <1>2, Zenon DEF ClientOK
<1> QED
  BY <1>1, <1>2, <1>3, OthersOK, Zenon

\* What insert does to the heaps and the messages.
LEMMA TypeInsert ==
  ASSUME TypeOK, NEW i \in Ids, NEW m \in Messages, NEW now, insert(i, m, now)
  PROVE  /\ msgs' \subseteq Ids /\ ready' \subseteq Ids /\ delayed' \subseteq Ids
         /\ msg' \in [Ids -> Messages] /\ wake' \in BOOLEAN
  BY Zenon DEF TypeOK, insert, wakeIfSooner

\* What moveToDLQ does to the messages.
LEMMA TypeMoveToDLQ ==
  ASSUME TypeOK, NEW S \in SUBSET Ids, moveToDLQ(S)
  PROVE  msgs' \subseteq Ids /\ dlq' \subseteq Ids /\ msg' \in [Ids -> Messages]
<1>1. \A i \in Ids : msg[i] \in Messages
  BY DEF TypeOK
<1>2. \A i \in Ids : [msg[i] EXCEPT !.token = 0] \in Messages
  BY <1>1 DEF Messages
<1>3. msg' \in [Ids -> Messages]
  BY <1>1, <1>2, MessageTypes DEF moveToDLQ
<1> QED
  BY <1>3 DEF TypeOK, moveToDLQ

LEMMA TypeDuplicateReturn ==
  ASSUME TypeInv, NEW p \in Clients, DuplicateReturn(p), UNCHANGED recoveryVars
  PROVE  TypeInv'
<1>1. job[p].id \in Ids
  BY DEF TypeInv, ClientOK, DuplicateReturn
<1>2. /\ job' \in [Clients -> [op : Ops, id : Ids \cup {NoId}, at : Time]]
      /\ job'[p].op = "none"
      /\ \A q \in Clients \ {p} : job'[q] = job[q]
  BY DEF TypeInv, TypeOK, DuplicateReturn, Finish, NoJob, Ops, Time
<1>3. TypeOK'
  <2>1. confirmed' \subseteq Ids
    BY <1>1 DEF TypeInv, TypeOK, DuplicateReturn
  <2> QED
    BY <1>2, <2>1 DEF TypeInv, TypeOK, DuplicateReturn, logVars, procVars, heapVars,
       leaseVars, dedupVars, loopVars, supplyVars, recoveryVars
<1>4. /\ OnlyCaller(p) /\ mode' = mode /\ mt' = mt /\ dedup' = dedup
      /\ phase'[p] = phase[p] /\ phase[p] = "idle"
  BY Zenon DEF TypeInv, ClientOK, DuplicateReturn, OnlyCaller, logVars, procVars, loopVars,
     dedupVars
<1>5. ClientOK(p)'
  BY <1>2, <1>4, Zenon DEF ClientOK
<1>6. DedupOK'
  BY <1>4, Zenon DEF TypeInv, DedupOK
<1> QED
  BY <1>2, <1>3, <1>4, <1>5, <1>6, OthersOK, Zenon DEF TypeInv

LEMMA TypeEnqueueCommit ==
  ASSUME TypeInv, NEW p \in Clients, EnqueueCommit(p), UNCHANGED recoveryVars
  PROVE  TypeInv'
<1>1. job[p].id \in Ids /\ rec[p] \in EnqueueRecs
  BY DEF TypeInv, ClientOK, EnqueueCommit
<1>2. /\ LogReturn(p) /\ Finish(p) /\ mode' = mode /\ mt' = mt /\ dedup' = dedup
      /\ insert(job[p].id, MessageOf(rec[p]), clock)
  BY DEF EnqueueCommit, procVars, dedupVars
<1>3. cnt' \in Counters
  BY CounterTypes, Zenon DEF TypeInv, TypeOK, EnqueueCommit
<1>4. MessageOf(rec[p]) \in Messages
  BY <1>1, MessageTypes
<1>5. /\ msgs' \subseteq Ids /\ ready' \subseteq Ids /\ delayed' \subseteq Ids
      /\ msg' \in [Ids -> Messages] /\ wake' \in BOOLEAN
  BY <1>1, <1>2, <1>4, TypeInsert, Zenon DEF TypeInv
<1>6. TypeOK'
  <2>1. confirmed' \subseteq Ids
    BY <1>1 DEF TypeInv, TypeOK, EnqueueCommit
  <2> QED
    BY <1>2, <1>3, <1>5, <2>1, Finished DEF TypeInv, TypeOK, LogType, EnqueueCommit,
       procVars, leaseVars, dedupVars, supplyVars, recoveryVars
<1>7. DedupOK'
  BY <1>2, Zenon DEF TypeInv, DedupOK
<1> QED
  BY <1>2, <1>6, <1>7, Finished, Zenon DEF TypeInv

LEMMA TypeEnqueueUndo ==
  ASSUME TypeInv, NEW p \in Clients, EnqueueUndo(p), UNCHANGED recoveryVars
  PROVE  TypeInv'
<1>1. job[p].id \in Ids
  BY Zenon DEF TypeInv, ClientOK, EnqueueUndo
<1>2. LogReturn(p) /\ Finish(p) /\ mode' = mode /\ mt' = mt
  BY Zenon DEF EnqueueUndo, procVars, loopVars
<1>3. dedup' \in [Keys -> [id : Ids \cup {NoId}, exp : Time]] /\ DedupOK'
  <2>1. dedup \in [Keys -> [id : Ids \cup {NoId}, exp : Time]] /\ DedupOK
    BY DEF TypeInv, TypeOK
  <2>2. dedup' = IF rec[p].key \in Keys THEN [dedup EXCEPT ![rec[p].key] = NoEntry]
                 ELSE dedup
    BY Zenon DEF EnqueueUndo
  <2> QED
    BY <2>1, <2>2 DEF DedupOK, NoEntry, Time
<1>4. entryErr' \subseteq Ids
  BY <1>1 DEF TypeInv, TypeOK, EnqueueUndo
<1>5. TypeOK'
  BY <1>2, <1>3, <1>4, Finished, Zenon DEF TypeInv, TypeOK, LogType, EnqueueUndo, procVars,
     heapVars, leaseVars, loopVars, supplyVars, histVars, recoveryVars
<1> QED
  BY <1>2, <1>3, <1>5, Finished DEF TypeInv

LEMMA TypeDequeueCommit ==
  ASSUME TypeInv, NEW p \in Clients, DequeueCommit(p), UNCHANGED recoveryVars
  PROVE  TypeInv'
<1>1. /\ rec[p] \in LeaseRecs /\ rec[p].ids \in SUBSET Ids /\ rec[p].tok \in Nat
      /\ rec[p].exp \in Deadline
  BY DEF TypeInv, ClientOK, DequeueCommit, LeaseRecs
<1>2. LogReturn(p) /\ Finish(p) /\ mode' = mode /\ mt' = mt /\ dedup' = dedup
  BY DEF DequeueCommit, procVars, dedupVars
<1>3. cnt' \in Counters
  <2>1. Cardinality(rec[p].ids) \in Nat
    BY <1>1, FiniteIds, Zenon
  <2> QED
    BY <2>1, CounterTypes, Zenon DEF TypeInv, TypeOK, DequeueCommit
<1>4. msg' \in [Ids -> Messages]
  BY <1>1, MessageTypes DEF TypeInv, DequeueCommit
<1>5. inflight' \subseteq Ids /\ leases' \subseteq Entries /\ wake' \in BOOLEAN
  BY <1>1 DEF TypeInv, TypeOK, DequeueCommit, wakeIfSooner, Entries
<1>6. granted' \subseteq Ids \X Nat
  BY <1>1 DEF TypeInv, TypeOK, DequeueCommit
<1>7. TypeOK'
  BY <1>2, <1>3, <1>4, <1>5, <1>6, Finished DEF TypeInv, TypeOK, LogType, DequeueCommit,
     procVars, heapVars, dedupVars, supplyVars, recoveryVars
<1>8. DedupOK'
  BY <1>2, Zenon DEF TypeInv, DedupOK
<1> QED
  BY <1>2, <1>7, <1>8, Finished DEF TypeInv

LEMMA TypeDequeueUndo ==
  ASSUME TypeInv, NEW p \in Clients, DequeueUndo(p), UNCHANGED recoveryVars
  PROVE  TypeInv'
<1>1. rec[p].ids \subseteq Ids
  BY Zenon DEF TypeInv, ClientOK, DequeueUndo, LeaseRecs
<1>2. LogReturn(p) /\ Finish(p) /\ mode' = mode /\ mt' = mt /\ dedup' = dedup
  BY Zenon DEF DequeueUndo, procVars, loopVars, dedupVars
<1>3. TypeOK'
  <2>1. ready' \subseteq Ids
    BY <1>1, Zenon DEF TypeInv, TypeOK, DequeueUndo
  <2> QED
    BY <1>2, <2>1, Finished, Zenon DEF TypeInv, TypeOK, LogType, DequeueUndo, procVars,
       leaseVars, dedupVars, loopVars, supplyVars, histVars, recoveryVars
<1>4. DedupOK'
  BY <1>2, Zenon DEF TypeInv, DedupOK
<1> QED
  BY <1>2, <1>3, <1>4, Finished DEF TypeInv

LEMMA TypeAckCommit ==
  ASSUME TypeInv, NEW p \in Clients, AckCommit(p), UNCHANGED recoveryVars
  PROVE  TypeInv'
<1>1. job[p].id \in Ids
  BY DEF TypeInv, ClientOK, AckCommit
<1>2. LogReturn(p) /\ Finish(p) /\ mode' = mode /\ mt' = mt /\ dedup' = dedup
  BY DEF AckCommit, procVars, loopVars, dedupVars
<1>3. cnt' \in Counters
  BY CounterTypes, Zenon DEF TypeInv, TypeOK, AckCommit
<1>4. msgs' \subseteq Ids /\ acked' \subseteq Ids /\ msg' \in [Ids -> Messages]
  BY <1>1, MessageTypes DEF TypeInv, TypeOK, AckCommit
<1>5. TypeOK'
  BY <1>2, <1>3, <1>4, Finished DEF TypeInv, TypeOK, LogType, AckCommit, procVars,
     heapVars, leaseVars, dedupVars, loopVars, supplyVars, recoveryVars
<1>6. DedupOK'
  BY <1>2, Zenon DEF TypeInv, DedupOK
<1> QED
  BY <1>2, <1>5, <1>6, Finished DEF TypeInv

LEMMA TypeNackCommit ==
  ASSUME TypeInv, NEW p \in Clients, NackCommit(p), UNCHANGED recoveryVars
  PROVE  TypeInv'
<1> DEFINE i == job[p].id
           m == [msg[i] EXCEPT !.token = 0, !.visAt = rec[p].visAt]
<1>1. i \in Ids /\ rec[p] \in ReturnRecs
  BY DEF TypeInv, ClientOK, NackCommit, RemoveRecs
<1>2. /\ LogReturn(p) /\ Finish(p) /\ mode' = mode /\ mt' = mt /\ dedup' = dedup
      /\ insert(i, m, job[p].at)
  BY DEF NackCommit, procVars, dedupVars
<1>3. m \in Messages
  <2>1. msg[i] \in Messages /\ rec[p].visAt \in Time
    BY <1>1 DEF TypeInv, TypeOK, ReturnRecs
  <2> QED
    BY <2>1, Zenon DEF Messages
<1>4. /\ msgs' \subseteq Ids /\ ready' \subseteq Ids /\ delayed' \subseteq Ids
      /\ msg' \in [Ids -> Messages] /\ wake' \in BOOLEAN
  <2> HIDE DEF m
  <2> QED
    BY <1>1, <1>2, <1>3, TypeInsert, Zenon DEF TypeInv
<1>5. cnt' \in Counters
  BY CounterTypes, Zenon DEF TypeInv, TypeOK, NackCommit
<1>6. TypeOK'
  BY <1>2, <1>4, <1>5, Finished DEF TypeInv, TypeOK, LogType, NackCommit, procVars,
     leaseVars, dedupVars, supplyVars, histVars, recoveryVars
<1>7. DedupOK'
  BY <1>2, Zenon DEF TypeInv, DedupOK
<1> QED
  BY <1>2, <1>6, <1>7, Finished DEF TypeInv

LEMMA TypeNackToDLQ ==
  ASSUME TypeInv, NEW p \in Clients, NackToDLQ(p), UNCHANGED recoveryVars
  PROVE  TypeInv'
<1>1. {job[p].id} \in SUBSET Ids
  BY DEF TypeInv, ClientOK, NackToDLQ
<1>2. /\ LogReturn(p) /\ Finish(p) /\ mode' = mode /\ mt' = mt /\ dedup' = dedup
      /\ moveToDLQ({job[p].id})
  BY DEF NackToDLQ, procVars, loopVars, dedupVars
<1>3. cnt' \in Counters
  BY CounterTypes, Zenon DEF TypeInv, TypeOK, NackToDLQ
<1>4. msgs' \subseteq Ids /\ dlq' \subseteq Ids /\ msg' \in [Ids -> Messages]
  BY <1>1, <1>2, TypeMoveToDLQ DEF TypeInv
<1>5. TypeOK'
  BY <1>2, <1>3, <1>4, Finished DEF TypeInv, TypeOK, LogType, NackToDLQ, procVars,
     heapVars, leaseVars, dedupVars, loopVars, supplyVars, histVars, recoveryVars
<1>6. DedupOK'
  BY <1>2, Zenon DEF TypeInv, DedupOK
<1> QED
  BY <1>2, <1>5, <1>6, Finished DEF TypeInv

LEMMA TypeSettleUndo ==
  ASSUME TypeInv, NEW p \in Clients, SettleUndo(p), UNCHANGED recoveryVars
  PROVE  TypeInv'
<1>1. job[p].id \in Ids
  BY Zenon DEF TypeInv, ClientOK, SettleUndo
<1>2. LogReturn(p) /\ Finish(p) /\ mode' = mode /\ mt' = mt /\ dedup' = dedup
  BY Zenon DEF SettleUndo, procVars, loopVars, dedupVars
<1>3. TypeOK'
  <2>1. inflight' \subseteq Ids
    BY <1>1 DEF TypeInv, TypeOK, SettleUndo
  <2> QED
    BY <1>2, <2>1, Finished, Zenon DEF TypeInv, TypeOK, LogType, SettleUndo, procVars,
       heapVars, dedupVars, loopVars, supplyVars, histVars, recoveryVars
<1>4. DedupOK'
  BY <1>2, Zenon DEF TypeInv, DedupOK
<1> QED
  BY <1>2, <1>3, <1>4, Finished DEF TypeInv
============================================================================
