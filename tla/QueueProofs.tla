---------------------------- MODULE QueueProofs ----------------------------
(***************************************************************************)
(* SingleOwner, for every value of the constants: no interleaving of       *)
(* requests, maintenance, log failures, crashes and recovery has a message *)
(* in two places at once, and none leaves it nowhere.                      *)
(***************************************************************************)
EXTENDS QueueOwnerSteps

----------------------------------------------------------------------------
(* The maintenance goroutine, Stats and the clock.                         *)

\* The parts of OwnerInv no step of the maintenance goroutine can disturb.
LEMMA MaintenanceRest ==
  ASSUME TypeInv, OwnerInv, mt.pc # "off", UNCHANGED <<mode, job, fresh, disk>>,
         msgs' \subseteq msgs, OwnedOnce', SplitOK'
  PROVE  OwnerInv'
<1>1. mode = "up"
  BY DEF TypeInv, MaintainerOK
<1>2. FreshOK'
  BY FreshFrame DEF OwnerInv
<1> QED
  BY <1>1, <1>2 DEF OwnerInv, QuietOK

LEMMA OwnerPark ==
  ASSUME TypeInv, OwnerInv, nextDeadline \/ TakeWake
  PROVE  OwnerInv'
<1>1. /\ UNCHANGED <<disk, phase, rec, job, msgs, ready, delayed, inflight, fresh, mode>>
      /\ mt.pc \in {"loop", "wait"} /\ OnlyCaller(Maintainer)
  BY DEF nextDeadline, TakeWake, OnlyCaller, logVars, procVars, heapVars, leaseVars, supplyVars
<1>2. mt'.requeue = {} /\ mt'.toDLQ = {}
  BY DEF nextDeadline, TakeWake, Parked
<1>3. mt.requeue = {} /\ mt.toDLQ = {} /\ OwnedOnce
  BY <1>1 DEF TypeInv, MaintainerOK, OwnerInv
<1>4. Holding(Maintainer) = {} /\ Holding(Maintainer)' = {}
  BY <1>2, <1>3, MaintainerHolding DEF idsOf
<1>5. OwnedOnce'
  BY <1>1, <1>3, <1>4, ClientsHold DEF OwnedOnce
<1>6. SplitOK'
  BY <1>2 DEF SplitOK
<1> QED
  BY <1>1, <1>5, <1>6, MaintenanceRest

\* What Maintain popped it has in its hands, each message once.
LEMMA OwnerMaintain ==
  ASSUME TypeInv, OwnerInv, NEW now \in Readings, Maintain(now)
  PROVE  OwnerInv'
<1> DEFINE expired == {e \in leases : e.exp <= now}
           toDLQ   == {e \in held(expired) : exhausted(msg[e.id])}
           requeue == held(expired) \ toDLQ
           r       == ExpireRec(idsOf(requeue), now)
<1>1. /\ UNCHANGED <<job, msgs, fresh, mode>> /\ mt.pc = "wait"
      /\ ready' = ready \cup Due(now) /\ delayed' = delayed \ Due(now)
      /\ inflight' = inflight \ idsOf(held(expired))
      /\ mt'.requeue = requeue /\ mt'.toDLQ = toDLQ
      /\ IF requeue # {} THEN AppendJSON(Maintainer, r) ELSE UNCHANGED logVars
  BY Zenon DEF Maintain, procVars, supplyVars
<1>2. disk' = disk /\ OnlyCaller(Maintainer)
  <2>1. LogType /\ Maintainer \in Callers
    BY QueueAssumption, Zenon DEF TypeInv, TypeOK, LogType
  <2>2. r \in Records
    <3>1. requeue \in SUBSET Entries /\ now \in Time
      BY DEF TypeInv, TypeOK, held, Readings, Time
    <3> HIDE DEF requeue
    <3> QED
      BY <3>1, EntryIds, RecordTypes DEF Records
  <2> HIDE DEF r, requeue
  <2> QED
    BY <1>1, <2>1, <2>2, AppendFacts, Zenon DEF logVars, OnlyCaller
<1>3. Holding(Maintainer) = {} /\ OwnedOnce
  <2>1. mt.requeue = {} /\ mt.toDLQ = {} /\ OwnedOnce
    BY <1>1, Zenon DEF TypeInv, MaintainerOK, OwnerInv
  <2> QED
    BY <2>1, MaintainerHolding, Zenon DEF idsOf
<1>4. /\ idsOf(requeue) \cup idsOf(toDLQ) = idsOf(held(expired))
      /\ idsOf(held(expired)) \subseteq inflight
  BY Zenon DEF idsOf, held
<1>5. \A d \in requeue, e \in toDLQ : d.id # e.id
  OBVIOUS
<1> HIDE DEF requeue, toDLQ, expired
<1>6. Holding(Maintainer)' = idsOf(held(expired))
  BY <1>1, <1>4, MaintainerHolding
<1>7. OwnedOnce'
  <2>1. \A q \in Callers : q # Maintainer => Holding(q)' = Holding(q)
    BY <1>1, <1>2, ClientsHold, Zenon
  <2>2. Due(now) \subseteq delayed /\ Maintainer \in Callers
    BY QueueAssumption DEF Due
  <2> QED
    BY <1>1, <1>3, <1>4, <1>6, <2>1, <2>2 DEF OwnedOnce
<1>8. SplitOK'
  BY <1>1, <1>5 DEF SplitOK
<1> QED
  BY <1>1, <1>2, <1>7, <1>8, MaintenanceRest

\* What the return of either of Maintain's appends leaves alone.
LEMMA MaintainerAnswered ==
  ASSUME TypeInv, OwnerInv, LogReturn(Maintainer), job' = job, mt.pc # "off"
  PROVE  /\ disk' = disk /\ OwnedOnce /\ Maintainer \in Callers
         /\ \A q \in Callers : q # Maintainer => Holding(q)' = Holding(q)
<1>1. LogType /\ Maintainer \in Callers
  BY QueueAssumption, Zenon DEF TypeInv, TypeOK, LogType
<1>2. disk' = disk /\ OnlyCaller(Maintainer)
  BY <1>1, ReturnFacts
<1> QED
  BY <1>1, <1>2, ClientsHold DEF TypeInv, MaintainerOK, OwnerInv

\* The messages of the two batches, before and after the first is settled.
LEMMA BatchSettled ==
  ASSUME SplitOK, mt'.requeue = {}, mt'.toDLQ = mt.toDLQ
  PROVE  /\ Holding(Maintainer) = idsOf(mt.requeue) \cup Holding(Maintainer)'
         /\ \A i \in idsOf(mt.requeue) : i \notin Holding(Maintainer)'
         /\ SplitOK'
<1>1. Holding(Maintainer)' = idsOf(mt.toDLQ)
  BY MaintainerHolding DEF idsOf
<1>2. Holding(Maintainer) = idsOf(mt.requeue) \cup idsOf(mt.toDLQ)
  BY MaintainerHolding
<1>3. \A i \in idsOf(mt.requeue) : i \notin idsOf(mt.toDLQ)
  BY DEF SplitOK, idsOf
<1> QED
  BY <1>1, <1>2, <1>3 DEF SplitOK

LEMMA OwnerExpireCommit ==
  ASSUME TypeInv, OwnerInv, ExpireCommit
  PROVE  OwnerInv'
<1> DEFINE S == idsOf(mt.requeue)
<1>1. /\ mt.pc = "expire" /\ LogReturn(Maintainer) /\ UNCHANGED <<job, fresh, mode>>
      /\ UNCHANGED <<delayed, inflight>>
      /\ msgs' = msgs \cup rec[Maintainer].ids /\ ready' = ready \cup rec[Maintainer].ids
  BY DEF ExpireCommit, procVars, leaseVars, supplyVars
<1>2. mt'.requeue = {} /\ mt'.toDLQ = mt.toDLQ
  BY DEF ExpireCommit, TypeInv, TypeOK
<1>3. rec[Maintainer].ids = S
  BY <1>1 DEF TypeInv, MaintainerOK
<1>4. /\ Holding(Maintainer) = S \cup Holding(Maintainer)'
      /\ \A i \in S : i \notin Holding(Maintainer)'
      /\ SplitOK'
  BY <1>2, BatchSettled DEF OwnerInv
<1>5. /\ disk' = disk /\ OwnedOnce /\ Maintainer \in Callers
      /\ \A q \in Callers : q # Maintainer => Holding(q)' = Holding(q)
  BY <1>1, MaintainerAnswered
<1> HIDE DEF S
<1>6. S \subseteq msgs
  BY <1>4, <1>5 DEF OwnedOnce
<1>7. OwnedOnce'
  BY <1>1, <1>3, <1>4, <1>5, <1>6 DEF OwnedOnce
<1> QED
  BY <1>1, <1>3, <1>4, <1>5, <1>6, <1>7, MaintenanceRest

LEMMA OwnerExpireUndo ==
  ASSUME TypeInv, OwnerInv, ExpireUndo
  PROVE  OwnerInv'
<1> DEFINE S == idsOf(mt.requeue)
<1>1. /\ mt.pc = "expire" /\ LogReturn(Maintainer) /\ UNCHANGED <<job, msgs, fresh, mode>>
      /\ UNCHANGED <<ready, delayed>> /\ inflight' = inflight \cup S
  BY DEF ExpireUndo, procVars, heapVars, supplyVars
<1>2. mt'.requeue = {} /\ mt'.toDLQ = mt.toDLQ
  BY DEF ExpireUndo, TypeInv, TypeOK
<1>3. /\ Holding(Maintainer) = S \cup Holding(Maintainer)'
      /\ \A i \in S : i \notin Holding(Maintainer)'
      /\ SplitOK'
  BY <1>2, BatchSettled DEF OwnerInv
<1>4. /\ disk' = disk /\ OwnedOnce /\ Maintainer \in Callers
      /\ \A q \in Callers : q # Maintainer => Holding(q)' = Holding(q)
  BY <1>1, MaintainerAnswered
<1> HIDE DEF S
<1>5. OwnedOnce'
  BY <1>1, <1>3, <1>4 DEF OwnedOnce
<1> QED
  BY <1>1, <1>3, <1>4, <1>5, MaintenanceRest

LEMMA OwnerSendDLQ ==
  ASSUME TypeInv, OwnerInv, SendDLQ
  PROVE  OwnerInv'
<1> DEFINE r == DlqRec(idsOf(mt.toDLQ))
<1>1. /\ UNCHANGED <<job, msgs, ready, delayed, inflight, fresh, mode>> /\ mt.pc = "send"
      /\ AppendJSON(Maintainer, r)
  BY DEF SendDLQ, procVars, heapVars, leaseVars, supplyVars
<1>2. mt'.requeue = mt.requeue /\ mt'.toDLQ = mt.toDLQ
  BY DEF SendDLQ, TypeInv, TypeOK
<1>3. disk' = disk /\ OnlyCaller(Maintainer)
  <2>1. LogType /\ Maintainer \in Callers /\ mt.toDLQ \in SUBSET Entries
    BY QueueAssumption DEF TypeInv, TypeOK, LogType
  <2>2. r \in Records
    BY <2>1, EntryIds, RecordTypes DEF Records
  <2> HIDE DEF r
  <2> QED
    BY <1>1, <2>1, <2>2, AppendFacts
<1>4. OwnedOnce
  BY <1>1, Zenon DEF TypeInv, MaintainerOK, OwnerInv
<1>5. \A q \in Callers : Holding(q)' = Holding(q)
  BY <1>1, <1>2, <1>3, ClientsHold, MaintainerHolding, Zenon
<1>6. OwnedOnce'
  BY <1>1, <1>4, <1>5 DEF OwnedOnce
<1>7. SplitOK'
  BY <1>2 DEF OwnerInv, SplitOK
<1> QED
  BY <1>1, <1>3, <1>6, <1>7, MaintenanceRest

\* The second batch is all Maintain still holds when its append returns.
LEMMA LastBatch ==
  ASSUME TypeInv, mt.pc = "dlq", mt'.requeue = {}, mt'.toDLQ = {}
  PROVE  /\ Holding(Maintainer) = idsOf(mt.toDLQ) /\ Holding(Maintainer)' = {}
         /\ SplitOK'
<1>1. mt.requeue = {}
  BY DEF TypeInv, MaintainerOK
<1> QED
  BY <1>1, MaintainerHolding, Zenon DEF idsOf, SplitOK

LEMMA OwnerDLQCommit ==
  ASSUME TypeInv, OwnerInv, DLQCommit
  PROVE  OwnerInv'
<1>1. /\ mt.pc = "dlq" /\ LogReturn(Maintainer) /\ UNCHANGED <<job, fresh, mode>>
      /\ UNCHANGED <<ready, delayed, inflight>> /\ msgs' = msgs \ idsOf(mt.toDLQ)
      /\ mt'.requeue = {} /\ mt'.toDLQ = {}
  BY DEF DLQCommit, moveToDLQ, Parked, procVars, heapVars, leaseVars, supplyVars
<1>2. /\ disk' = disk /\ OwnedOnce /\ Maintainer \in Callers
      /\ \A q \in Callers : q # Maintainer => Holding(q)' = Holding(q)
  BY <1>1, MaintainerAnswered
<1>3. OwnedOnce'
  BY <1>1, <1>2, LastBatch DEF OwnedOnce
<1> QED
  BY <1>1, <1>2, <1>3, LastBatch, MaintenanceRest

LEMMA OwnerDLQUndo ==
  ASSUME TypeInv, OwnerInv, DLQUndo
  PROVE  OwnerInv'
<1>1. /\ mt.pc = "dlq" /\ LogReturn(Maintainer) /\ UNCHANGED <<job, msgs, fresh, mode>>
      /\ UNCHANGED <<ready, delayed>> /\ inflight' = inflight \cup idsOf(mt.toDLQ)
      /\ mt'.requeue = {} /\ mt'.toDLQ = {}
  BY DEF DLQUndo, Parked, procVars, heapVars, supplyVars
<1>2. /\ disk' = disk /\ OwnedOnce /\ Maintainer \in Callers
      /\ \A q \in Callers : q # Maintainer => Holding(q)' = Holding(q)
  BY <1>1, MaintainerAnswered
<1>3. OwnedOnce'
  BY <1>1, <1>2, LastBatch DEF OwnedOnce
<1> QED
  BY <1>1, <1>2, <1>3, LastBatch, MaintenanceRest, Zenon

\* A step that takes no message anywhere but from the delayed to the ready heap.
LEMMA OwnerPromote ==
  ASSUME OwnerInv, NEW D \in SUBSET delayed, ready' = ready \cup D, delayed' = delayed \ D,
         UNCHANGED <<disk, rec, job, mt, msgs, inflight, fresh, mode>>
  PROVE  OwnerInv'
<1>1. \A q \in Callers : Holding(q)' = Holding(q)
  BY DEF Holding, idsOf
<1>2. mode = "up" => OwnedOnce'
  BY <1>1 DEF OwnerInv, OwnedOnce
<1>3. FreshOK'
  BY FreshFrame DEF OwnerInv
<1> QED
  BY <1>2, <1>3, Zenon DEF OwnerInv, SplitOK, QuietOK

LEMMA OwnerStats ==
  ASSUME OwnerInv, NEW now, Stats(now)
  PROVE  OwnerInv'
<1>1. Due(now) \in SUBSET delayed
  BY DEF Due
<1>2. /\ ready' = ready \cup Due(now) /\ delayed' = delayed \ Due(now)
      /\ UNCHANGED <<disk, rec, job, mt, msgs, inflight, fresh, mode>>
  BY DEF Stats, logVars, procVars, leaseVars, loopVars, supplyVars
<1> QED
  BY <1>1, <1>2, OwnerPromote

LEMMA OwnerTick ==
  ASSUME OwnerInv, Tick
  PROVE  OwnerInv'
<1>1. UNCHANGED <<disk, rec, job, mt, msgs, ready, delayed, inflight, fresh, mode>>
  BY DEF Tick, logVars, procVars, heapVars, leaseVars, loopVars, supplyVars
<1> QED
  BY <1>1, OwnerPromote, Zenon

----------------------------------------------------------------------------
(* The log, process death and recovery.                                    *)

\* No record on its way to the log names an id that was not handed out.
LEMMA RecordsHandedOut ==
  ASSUME TypeInv, OwnerInv, NEW p \in Callers, phase[p] # "idle"
  PROVE  \A i \in rec[p].ids : i \notin fresh
<1>1. CASE p = Maintainer
  <2>1. /\ rec[p].ids = idsOf(mt.requeue) \/ rec[p].ids = idsOf(mt.toDLQ)
        /\ OwnedOnce
    BY <1>1 DEF TypeInv, TypeOK, Pcs, MaintainerOK, OwnerInv
  <2>2. rec[p].ids \subseteq Holding(p)
    BY <1>1, <2>1, MaintainerHolding, Zenon
  <2> QED
    BY <2>1, <2>2 DEF OwnedOnce, OwnerInv, FreshOK
<1>2. CASE p \in Clients
  <2>1. job[p].op \in {"enqueue", "dequeue", "ack", "nack"} /\ OwnedOnce
    BY <1>2, Zenon DEF TypeInv, TypeOK, Ops, ClientOK, OwnerInv
  <2>2. CASE job[p].op = "enqueue"
    <3>1. rec[p].ids = {job[p].id}
      BY <1>2, <2>2 DEF TypeInv, ClientOK
    <3> QED
      BY <1>2, <2>2, <3>1, Zenon DEF OwnerInv, FreshOK
  <2>3. CASE job[p].op # "enqueue"
    <3>1. Holding(p) = rec[p].ids
      BY <1>2, <2>1, <2>3, ClientHolding, Zenon
    <3> QED
      BY <2>1, <3>1 DEF OwnedOnce, OwnerInv, FreshOK
  <2> QED
    BY <2>2, <2>3
<1> QED
  BY <1>1, <1>2 DEF Clients

LEMMA OwnerWriter ==
  ASSUME TypeInv, OwnerInv, Writer
  PROVE  OwnerInv'
<1>1. UNCHANGED <<job, mt, msgs, ready, delayed, inflight, fresh, mode>> /\ LogStep
  BY DEF Writer, queueVars, procVars, heapVars, leaseVars, loopVars, supplyVars
<1>2. /\ rec' = rec /\ disk \in Seq(Records)
      /\ \/ disk' = disk
         \/ \E p \in Callers : phase[p] = "sent" /\ disk' = Append(disk, rec[p])
  BY <1>1 DEF LogStep, LogWrite, LogRefuse, LogSync, LogFail, TypeInv, TypeOK
<1>3. \A q \in Callers : Holding(q)' = Holding(q)
  BY <1>1, <1>2, Zenon DEF Holding, idsOf
<1>4. mode = "up" => OwnedOnce'
  BY <1>1, <1>3 DEF OwnerInv, OwnedOnce
<1>5. \A k \in 1 .. Len(disk') : \A i \in disk'[k].ids : i \notin fresh
  <2>1. CASE disk' = disk
    BY <2>1 DEF OwnerInv, FreshOK
  <2>2. ASSUME NEW p \in Callers, phase[p] = "sent", disk' = Append(disk, rec[p])
        PROVE  <1>5!:
    <3>1. \A i \in rec[p].ids : i \notin fresh
      BY <2>2, RecordsHandedOut
    <3>2. /\ Len(disk) \in Nat /\ Len(disk') = Len(disk) + 1 /\ disk'[Len(disk) + 1] = rec[p]
          /\ \A k \in 1 .. Len(disk) : disk'[k] = disk[k]
      BY <1>2, <2>2
    <3>3. \A k \in 1 .. Len(disk') : k \in 1 .. Len(disk) \/ k = Len(disk) + 1
      BY <3>2
    <3> QED
      BY <3>1, <3>2, <3>3 DEF OwnerInv, FreshOK
  <2> QED
    BY <1>2, <2>1, <2>2
<1>6. FreshOK'
  BY <1>1, <1>5 DEF OwnerInv, FreshOK
<1> QED
  BY <1>1, <1>4, <1>6 DEF OwnerInv, SplitOK, QuietOK

LEMMA OwnerCrash ==
  ASSUME TypeInv, OwnerInv, Crash
  PROVE  OwnerInv'
<1>1. /\ fresh' = fresh /\ mode' = "replay" /\ msgs' = {} /\ inflight' = {}
      /\ mt'.requeue = {} /\ \A p \in Clients : job'[p].op = "none"
  BY DEF Crash, newQueue, NoJob, Parked, supplyVars
<1>2. /\ Len(disk) \in Nat /\ Len(disk') \in 0 .. Len(disk)
      /\ \A k \in 1 .. Len(disk') : disk'[k] = disk[k]
  <2>1. disk \in Seq(Records) /\ synced \in 0 .. Len(disk)
    BY DEF TypeInv, TypeOK
  <2>2. CASE LogKill
    BY <2>1, <2>2 DEF LogKill
  <2>3. CASE LogPowerLoss
    <3>1. PICK k \in synced .. Len(disk) : disk' = SubSeq(disk, 1, k)
      BY <2>3 DEF LogPowerLoss
    <3>2. Len(disk) \in Nat /\ k \in Nat /\ k <= Len(disk)
      BY <2>1
    <3>3. Len(disk') = k /\ \A j \in 1 .. k : disk'[j] = disk[j]
      BY <2>1, <3>1, <3>2
    <3> QED
      BY <3>2, <3>3
  <2> QED
    BY <2>2, <2>3 DEF Crash
<1>3. \A k \in 1 .. Len(disk') : k \in 1 .. Len(disk)
  BY <1>2
<1>4. FreshOK'
  BY <1>1, <1>2, <1>3 DEF OwnerInv, FreshOK
<1> QED
  BY <1>1, <1>4 DEF OwnerInv, SplitOK, QuietOK

\* Replaying a record adds no message but those the record names.
LEMMA OwnerApply ==
  ASSUME TypeInv, OwnerInv, mode = "replay", pos < Len(disk), Applied,
         mode' \in {"replay", "failed"}, msgs' \subseteq msgs \cup disk[pos + 1].ids
  PROVE  OwnerInv'
<1>1. UNCHANGED <<disk, job, mt, inflight, fresh>>
  BY Zenon DEF Applied, logVars, leaseVars, loopVars, supplyVars
<1>2. pos + 1 \in 1 .. Len(disk)
  BY DEF TypeInv, TypeOK
<1>3. \A i \in fresh : i \notin msgs'
  BY <1>2, Zenon DEF OwnerInv, FreshOK
<1>4. \A p \in Clients : job[p].op = "none"
  BY DEF TypeInv, ClientOK
<1>5. FreshOK'
  BY <1>1, <1>3, <1>4 DEF OwnerInv, FreshOK
<1> QED
  BY <1>1, <1>5, Zenon DEF OwnerInv, SplitOK, QuietOK

\* finalize splits the messages between the two heaps.
LEMMA OwnerFinalize ==
  ASSUME TypeInv, OwnerInv, Finalize
  PROVE  OwnerInv'
<1>1. /\ UNCHANGED <<disk, job, msgs, inflight, fresh>> /\ mode = "replay" /\ mode' = "up"
      /\ mt'.requeue = {} /\ mt'.toDLQ = {}
      /\ delayed' = {i \in msgs : msg[i].visAt > clock}
      /\ ready' = {i \in msgs : msg[i].visAt <= clock}
  BY DEF Finalize, Parked, logVars, leaseVars, supplyVars
<1>2. inflight' = {}
  BY <1>1 DEF OwnerInv, QuietOK
<1>3. \A p \in Clients : job'[p].op = "none"
  BY <1>1 DEF TypeInv, ClientOK
<1>4. \A p \in Callers : Holding(p)' = {}
  <2>1. \A p \in Clients : Holding(p)' = {}
    BY <1>3, ClientHolding
  <2>2. Holding(Maintainer)' = {}
    BY <1>1, MaintainerHolding DEF idsOf
  <2> QED
    BY <2>1, <2>2 DEF Clients
<1>5. \A i \in msgs : (msg[i].visAt > clock) <=> ~(msg[i].visAt <= clock)
  BY DEF TypeInv, TypeOK, Messages, Time
<1>6. OwnedOnce'
  BY <1>1, <1>2, <1>4, <1>5, Zenon DEF OwnedOnce
<1>7. FreshOK'
  BY <1>1, <1>3, FreshFrame, Zenon DEF OwnerInv
<1> QED
  BY <1>1, <1>6, <1>7 DEF SplitOK, QuietOK, OwnerInv

LEMMA OwnerRecovery ==
  ASSUME TypeInv, OwnerInv, Recovery
  PROVE  OwnerInv'
<1>1. CASE ApplyEnqueue
  BY <1>1, OwnerApply DEF ApplyEnqueue, Replaying
<1>2. CASE ApplyLease
  BY <1>2, OwnerApply DEF ApplyLease, Replaying, Known
<1>3. CASE ApplyAck
  BY <1>3, OwnerApply DEF ApplyAck, Replaying, Known
<1>4. CASE ApplyNack
  BY <1>4, OwnerApply DEF ApplyNack, ApplyReturn, Replaying, Known
<1>5. CASE ApplyExpire
  BY <1>5, OwnerApply DEF ApplyExpire, ApplyReturn, Replaying, Known
<1>6. CASE ApplyDlqMove
  BY <1>6, OwnerApply DEF ApplyDlqMove, moveToDLQ, Replaying, Known
<1> QED
  BY <1>1, <1>2, <1>3, <1>4, <1>5, <1>6, OwnerFinalize DEF Recovery

----------------------------------------------------------------------------
LEMMA OwnerInit ==
  ASSUME Init
  PROVE  OwnerInv
<1>1. /\ msgs = {} /\ ready = {} /\ delayed = {} /\ inflight = {} /\ mode = "up"
      /\ mt.requeue = {} /\ mt.toDLQ = {} /\ \A p \in Clients : job[p].op = "none"
  BY DEF Init, QueueInit, Parked, NoJob
<1>2. disk = <<>>
  BY DEF Init, QueueInit, LogInit
<1>3. 1 .. Len(disk) = {}
  BY <1>2
<1>4. \A p \in Callers : Holding(p) = {}
  <2>1. \A p \in Clients : Holding(p) = {}
    BY <1>1, ClientHolding, Zenon
  <2>2. Holding(Maintainer) = {}
    BY <1>1, MaintainerHolding DEF idsOf
  <2> QED
    BY <2>1, <2>2, Zenon DEF Clients
<1>5. OwnedOnce
  BY <1>1, <1>4 DEF OwnedOnce
<1>6. FreshOK
  BY <1>1, <1>3 DEF FreshOK
<1> QED
  BY <1>1, <1>5, <1>6 DEF OwnerInv, SplitOK, QuietOK

LEMMA OwnerNext ==
  ASSUME TypeInv, OwnerInv, Next
  PROVE  OwnerInv'
<1>1. ASSUME NEW p \in Clients, Request(p)
      PROVE  OwnerInv'
  BY <1>1, OwnerEnqueueDuplicate, OwnerEnqueueReserve, OwnerDequeueReserve,
     OwnerAckReserve, OwnerNackReserve, Zenon DEF Request
<1>2. ASSUME NEW p \in Clients, Complete(p)
      PROVE  OwnerInv'
  BY <1>2, OwnerDuplicateReturn, OwnerEnqueueCommit, OwnerEnqueueUndo, OwnerDequeueCommit,
     OwnerDequeueUndo, OwnerAckCommit, OwnerNackCommit, OwnerNackToDLQ, OwnerSettleUndo
     DEF Complete
<1>3. CASE Maintenance
  BY <1>3, OwnerPark, OwnerMaintain, OwnerExpireCommit, OwnerExpireUndo, OwnerSendDLQ,
     OwnerDLQCommit, OwnerDLQUndo DEF Maintenance
<1>4. CASE QueueNext
  BY <1>1, <1>2, <1>3, <1>4, OwnerStats, OwnerTick, OwnerWriter DEF QueueNext
<1> QED
  BY <1>4, OwnerCrash, OwnerRecovery DEF Next

LEMMA OwnerStutter ==
  ASSUME OwnerInv, UNCHANGED vars
  PROVE  OwnerInv'
<1>1. UNCHANGED <<disk, rec, job, mt, msgs, ready, delayed, inflight, fresh, mode>>
  BY DEF vars, logVars, queueVars, procVars, heapVars, leaseVars, loopVars, supplyVars
<1> QED
  BY <1>1, OwnerPromote, Zenon

\* The inductive invariant behind SingleOwner holds in every state.
THEOREM OwnerInvariant == Spec => []OwnerInv
<1>1. Init => OwnerInv
  BY OwnerInit
<1>2. TypeInv /\ OwnerInv /\ [Next]_vars => OwnerInv'
  BY OwnerNext, OwnerStutter
<1> QED
  BY <1>1, <1>2, TypeInvariant, PTL DEF Spec

\* While the process is up, every live message is in exactly one of the ready
\* heap, the delayed heap, the in-flight map and the reservation of one
\* operation, for any number of messages, clients and crashes: the two critical
\* sections around each append of queue.go never lose or duplicate one.
THEOREM SingleOwnerCorrect == Spec => []SingleOwner
<1>1. OwnerInv => SingleOwner
  <2>1. SUFFICES ASSUME OwnedOnce PROVE SingleOwner
    BY DEF OwnerInv, SingleOwner
  <2>2. msgs = ready \cup delayed \cup inflight \cup UNION {Holding(p) : p \in Callers}
    BY <2>1 DEF OwnedOnce
  <2>3. /\ ready \cap delayed = {} /\ ready \cap inflight = {} /\ delayed \cap inflight = {}
        /\ \A p \in Callers :
             /\ Holding(p) \cap (ready \cup delayed \cup inflight) = {}
             /\ \A q \in Callers \ {p} : Holding(p) \cap Holding(q) = {}
    BY <2>1 DEF OwnedOnce
  <2> QED
    BY <2>2, <2>3 DEF SingleOwner
<1> QED
  BY <1>1, OwnerInvariant, PTL
============================================================================
