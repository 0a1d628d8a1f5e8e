-------------------------- MODULE QueueTypeProofs --------------------------
(***************************************************************************)
(* Type correctness of the queue across process deaths, for every value of *)
(* the constants: the steps of the maintenance goroutine, of the log and   *)
(* of recovery, and the theorem.                                           *)
(***************************************************************************)
EXTENDS QueueTypeSteps

----------------------------------------------------------------------------
(* Each step of the maintenance goroutine keeps TypeInv.                   *)

\* Entries name messages.
LEMMA EntryIds ==
  ASSUME NEW E \in SUBSET Entries
  PROVE  idsOf(E) \in SUBSET Ids
  BY DEF idsOf, Entries

LEMMA TypeNextDeadline ==
  ASSUME TypeInv, nextDeadline, UNCHANGED recoveryVars
  PROVE  TypeInv'
<1>1. Deadlines \subseteq Time
  BY DEF TypeInv, TypeOK, Deadlines, Messages, Entries, Deadline, Time
<1>2. armed' \in Time
  BY <1>1 DEF nextDeadline, Time
<1>3. mt' = [pc |-> "wait", requeue |-> {}, toDLQ |-> {}, err |-> FALSE] /\ mode' = mode
      /\ mode = "up" /\ mt.pc = "loop"
  BY Zenon DEF nextDeadline, Parked, procVars
<1>4. mt' \in [pc : Pcs, requeue : SUBSET Entries, toDLQ : SUBSET Entries, err : BOOLEAN]
  BY <1>3 DEF Pcs
<1>5. UNCHANGED <<phase, rec, job, dedup>> /\ OnlyCaller(Maintainer)
  BY DEF nextDeadline, logVars, dedupVars, OnlyCaller
<1>6. TypeOK'
  BY <1>2, <1>4 DEF TypeInv, TypeOK, nextDeadline, logVars, procVars, heapVars, leaseVars,
     dedupVars, supplyVars, histVars, recoveryVars
<1>7. MaintainerOK'
  BY <1>3, <1>5, Zenon DEF TypeInv, MaintainerOK
<1>8. DedupOK'
  BY <1>5, Zenon DEF TypeInv, DedupOK
<1> QED
  BY <1>3, <1>5, <1>6, <1>7, <1>8, ClientsOK DEF TypeInv

LEMMA TypeTakeWake ==
  ASSUME TypeInv, TakeWake, UNCHANGED recoveryVars
  PROVE  TypeInv'
<1>1. mt' = [pc |-> "loop", requeue |-> {}, toDLQ |-> {}, err |-> FALSE] /\ mode' = mode
      /\ mt.pc = "wait"
  BY DEF TakeWake, Parked, procVars
<1>2. mt' \in [pc : Pcs, requeue : SUBSET Entries, toDLQ : SUBSET Entries, err : BOOLEAN]
  BY <1>1 DEF Pcs
<1>3. UNCHANGED <<phase, rec, job, dedup>> /\ OnlyCaller(Maintainer)
  BY DEF TakeWake, logVars, dedupVars, OnlyCaller
<1>4. TypeOK'
  BY <1>2, Zenon DEF TypeInv, TypeOK, TakeWake, logVars, procVars, heapVars, leaseVars,
     dedupVars, supplyVars, histVars, recoveryVars
<1>5. MaintainerOK'
  BY <1>1, <1>3 DEF TypeInv, MaintainerOK
<1>6. DedupOK'
  BY <1>3, Zenon DEF TypeInv, DedupOK
<1> QED
  BY <1>1, <1>3, <1>4, <1>5, <1>6, ClientsOK DEF TypeInv

LEMMA TypeMaintain ==
  ASSUME TypeInv, NEW now \in Readings, Maintain(now), UNCHANGED recoveryVars
  PROVE  TypeInv'
<1> DEFINE expired == {e \in leases : e.exp <= now}
           toDLQ   == {e \in held(expired) : exhausted(msg[e.id])}
           requeue == held(expired) \ toDLQ
           r       == ExpireRec(idsOf(requeue), now)
<1>1. /\ mt' = [pc |-> IF requeue # {} THEN "expire" ELSE After(toDLQ, FALSE),
               requeue |-> requeue, toDLQ |-> toDLQ, err |-> FALSE]
      /\ IF requeue # {} THEN AppendJSON(Maintainer, r) ELSE UNCHANGED logVars
      /\ mt.pc = "wait"
  BY Zenon DEF Maintain
<1>2. requeue \in SUBSET Entries /\ toDLQ \in SUBSET Entries /\ now \in Time
  BY DEF TypeInv, TypeOK, held, Readings, Time
<1>3. ready' \subseteq Ids /\ delayed' \subseteq Ids /\ leases' \subseteq Entries
      /\ inflight' \subseteq Ids
  BY Zenon DEF TypeInv, TypeOK, Maintain, Due
<1>4. mode' = mode /\ job' = job /\ dedup' = dedup
  BY Zenon DEF Maintain, procVars, dedupVars
<1> HIDE DEF requeue, toDLQ
<1>5. mt' \in [pc : Pcs, requeue : SUBSET Entries, toDLQ : SUBSET Entries, err : BOOLEAN]
  BY <1>1, <1>2 DEF Pcs, After
<1>6. /\ LogType' /\ UNCHANGED <<disk, synced, dead>> /\ OnlyCaller(Maintainer)
      /\ MaintainerOK'
  <2>1. LogType /\ Maintainer \in Callers
    BY QueueAssumption, Zenon DEF TypeInv, TypeOK, LogType
  <2>2. CASE requeue # {}
    <3>1. r \in ReturnRecs /\ r \in Records /\ r.ids = idsOf(requeue)
      BY <1>2, EntryIds, RecordTypes DEF Records, ExpireRec
    <3> HIDE DEF r
    <3>2. /\ LogType' /\ UNCHANGED <<disk, synced, dead>> /\ OnlyCaller(Maintainer)
          /\ phase'[Maintainer] # "idle" /\ rec'[Maintainer] = r
      BY <1>1, <2>1, <2>2, <3>1, AppendFacts, Zenon
    <3>3. mt'.pc = "expire" /\ mt'.requeue = requeue
      BY <1>1, <2>2
    <3> QED
      BY <1>1, <1>4, <3>1, <3>2, <3>3, Zenon DEF TypeInv, MaintainerOK, idsOf
  <2>3. CASE requeue = {}
    <3>1. UNCHANGED <<disk, synced, dead, phase, rec>>
      BY <1>1, <2>3 DEF logVars
    <3>2. mt'.pc = After(toDLQ, FALSE) /\ mt'.requeue = {} /\ mt'.toDLQ = toDLQ
      BY <1>1, <2>3
    <3>3. MaintainerOK'
      BY <1>1, <1>4, <3>1, <3>2, Zenon DEF TypeInv, MaintainerOK, After
    <3> QED
      BY <2>1, <3>1, <3>3 DEF LogType, OnlyCaller
  <2> QED
    BY <2>2, <2>3
<1>7. TypeOK'
  BY <1>3, <1>5, <1>6, Zenon DEF TypeInv, TypeOK, LogType, Maintain, procVars, dedupVars,
     supplyVars, histVars, recoveryVars
<1>8. DedupOK'
  BY <1>4, Zenon DEF TypeInv, DedupOK
<1> QED
  BY <1>4, <1>6, <1>7, <1>8, ClientsOK DEF TypeInv

\* What the return of either of Maintain's appends does to the log.
LEMMA MaintainerReturns ==
  ASSUME TypeInv, LogReturn(Maintainer), mode' = mode, job' = job
  PROVE  /\ LogType' /\ UNCHANGED <<disk, synced, dead>> /\ phase'[Maintainer] = "idle"
         /\ \A q \in Clients : ClientOK(q)'
<1>1. LogType /\ Maintainer \in Callers
  BY QueueAssumption, Zenon DEF TypeInv, TypeOK, LogType
<1> QED
  BY <1>1, ReturnFacts, ClientsOK

LEMMA TypeExpireCommit ==
  ASSUME TypeInv, ExpireCommit, UNCHANGED recoveryVars
  PROVE  TypeInv'
<1> DEFINE r == rec[Maintainer]
<1>1. r \in ReturnRecs /\ r.ids \in SUBSET Ids
  BY DEF TypeInv, MaintainerOK, ExpireCommit, ReturnRecs
<1>2. /\ LogReturn(Maintainer) /\ mode' = mode /\ job' = job /\ dedup' = dedup
      /\ mt.pc = "expire"
  BY DEF ExpireCommit, procVars, dedupVars
<1>3. cnt' \in Counters
  <2>1. Cardinality(r.ids) \in Nat
    BY <1>1, FiniteIds
  <2> QED
    BY <2>1, CounterTypes, Zenon DEF TypeInv, TypeOK, ExpireCommit
<1>4. msg' \in [Ids -> Messages]
  BY <1>1, MessageTypes DEF TypeInv, ExpireCommit
<1>5. msgs' \subseteq Ids /\ ready' \subseteq Ids
  BY <1>1 DEF TypeInv, TypeOK, ExpireCommit
<1>6. /\ mt' \in [pc : Pcs, requeue : SUBSET Entries, toDLQ : SUBSET Entries, err : BOOLEAN]
      /\ mt'.pc = After(mt.toDLQ, FALSE) /\ mt'.requeue = {} /\ mt'.toDLQ = mt.toDLQ
  <2>1. mt \in [pc : Pcs, requeue : SUBSET Entries, toDLQ : SUBSET Entries, err : BOOLEAN]
    BY DEF TypeInv, TypeOK
  <2>2. mt' = [mt EXCEPT !.pc = After(mt.toDLQ, FALSE), !.requeue = {}]
    BY DEF ExpireCommit
  <2>3. After(mt.toDLQ, FALSE) \in Pcs
    BY DEF After, Pcs
  <2> QED
    BY <2>1, <2>2, <2>3, Zenon
<1>7. TypeOK'
  BY <1>2, <1>3, <1>4, <1>5, <1>6, MaintainerReturns DEF TypeInv, TypeOK, LogType,
     ExpireCommit, procVars, leaseVars, dedupVars, supplyVars, histVars, recoveryVars
<1>8. MaintainerOK'
  BY <1>2, <1>6, MaintainerReturns, Zenon DEF TypeInv, MaintainerOK, After
<1>9. DedupOK'
  BY <1>2, Zenon DEF TypeInv, DedupOK
<1> QED
  BY <1>2, <1>7, <1>8, <1>9, MaintainerReturns DEF TypeInv

LEMMA TypeExpireUndo ==
  ASSUME TypeInv, ExpireUndo, UNCHANGED recoveryVars
  PROVE  TypeInv'
<1>1. mt \in [pc : Pcs, requeue : SUBSET Entries, toDLQ : SUBSET Entries, err : BOOLEAN]
  BY DEF TypeInv, TypeOK
<1>2. /\ LogReturn(Maintainer) /\ mode' = mode /\ job' = job /\ dedup' = dedup
      /\ mt.pc = "expire"
  BY DEF ExpireUndo, procVars, dedupVars
<1>3. inflight' \subseteq Ids /\ leases' \subseteq Entries
  BY <1>1, EntryIds DEF TypeInv, TypeOK, ExpireUndo
<1>4. /\ mt' \in [pc : Pcs, requeue : SUBSET Entries, toDLQ : SUBSET Entries, err : BOOLEAN]
      /\ mt'.pc = After(mt.toDLQ, TRUE) /\ mt'.requeue = {} /\ mt'.toDLQ = mt.toDLQ
  <2>1. mt' = [mt EXCEPT !.pc = After(mt.toDLQ, TRUE), !.requeue = {}, !.err = TRUE]
    BY DEF ExpireUndo
  <2>2. After(mt.toDLQ, TRUE) \in Pcs
    BY DEF After, Pcs
  <2> QED
    BY <1>1, <2>1, <2>2, Zenon
<1>5. TypeOK'
  BY <1>2, <1>3, <1>4, MaintainerReturns DEF TypeInv, TypeOK, LogType, ExpireUndo,
     procVars, heapVars, dedupVars, supplyVars, histVars, recoveryVars
<1>6. MaintainerOK'
  BY <1>2, <1>4, MaintainerReturns, Zenon DEF TypeInv, MaintainerOK, After
<1>7. DedupOK'
  BY <1>2, Zenon DEF TypeInv, DedupOK
<1> QED
  BY <1>2, <1>5, <1>6, <1>7, MaintainerReturns DEF TypeInv

LEMMA TypeSendDLQ ==
  ASSUME TypeInv, SendDLQ, UNCHANGED recoveryVars
  PROVE  TypeInv'
<1> DEFINE r == DlqRec(idsOf(mt.toDLQ))
<1>1. mt \in [pc : Pcs, requeue : SUBSET Entries, toDLQ : SUBSET Entries, err : BOOLEAN]
  BY DEF TypeInv, TypeOK
<1>2. mode' = mode /\ job' = job /\ dedup' = dedup /\ mt.pc = "send"
  BY DEF SendDLQ, procVars, dedupVars
<1>3. r \in RemoveRecs /\ r \in Records /\ r.ids = idsOf(mt.toDLQ)
  BY <1>1, EntryIds, RecordTypes DEF Records, DlqRec
<1>4. AppendJSON(Maintainer, r)
  BY DEF SendDLQ
<1> HIDE DEF r
<1>5. /\ LogType' /\ UNCHANGED <<disk, synced, dead>> /\ OnlyCaller(Maintainer)
      /\ phase'[Maintainer] # "idle" /\ rec'[Maintainer] = r
  <2>1. LogType /\ Maintainer \in Callers
    BY QueueAssumption, Zenon DEF TypeInv, TypeOK, LogType
  <2> QED
    BY <1>3, <1>4, <2>1, AppendFacts, Zenon
<1>6. /\ mt' \in [pc : Pcs, requeue : SUBSET Entries, toDLQ : SUBSET Entries, err : BOOLEAN]
      /\ mt'.pc = "dlq" /\ mt'.requeue = mt.requeue /\ mt'.toDLQ = mt.toDLQ
  BY <1>1 DEF SendDLQ, Pcs
<1>7. TypeOK'
  BY <1>5, <1>6, Zenon DEF TypeInv, TypeOK, LogType, SendDLQ, procVars, heapVars, leaseVars,
     dedupVars, supplyVars, histVars, recoveryVars
<1>8. MaintainerOK'
  BY <1>2, <1>3, <1>5, <1>6, Zenon DEF TypeInv, MaintainerOK, idsOf
<1>9. DedupOK'
  BY <1>2, Zenon DEF TypeInv, DedupOK
<1> QED
  BY <1>2, <1>5, <1>7, <1>8, <1>9, ClientsOK, Zenon DEF TypeInv

LEMMA TypeDLQCommit ==
  ASSUME TypeInv, DLQCommit, UNCHANGED recoveryVars
  PROVE  TypeInv'
<1>1. mt \in [pc : Pcs, requeue : SUBSET Entries, toDLQ : SUBSET Entries, err : BOOLEAN]
  BY DEF TypeInv, TypeOK
<1>2. /\ LogReturn(Maintainer) /\ mode' = mode /\ job' = job /\ dedup' = dedup
      /\ mt.pc = "dlq" /\ moveToDLQ(idsOf(mt.toDLQ))
  BY DEF DLQCommit, procVars, dedupVars
<1>3. cnt' \in Counters
  <2>1. rec[Maintainer].ids \in SUBSET Ids
    BY <1>2, Zenon DEF TypeInv, MaintainerOK, RemoveRecs
  <2>2. Cardinality(rec[Maintainer].ids) \in Nat
    BY <2>1, FiniteIds, Zenon
  <2> QED
    BY <2>2, CounterTypes, Zenon DEF TypeInv, TypeOK, DLQCommit
<1>4. msgs' \subseteq Ids /\ dlq' \subseteq Ids /\ msg' \in [Ids -> Messages]
  <2>1. idsOf(mt.toDLQ) \in SUBSET Ids
    BY <1>1, EntryIds
  <2> QED
    BY <1>2, <2>1, TypeMoveToDLQ DEF TypeInv
<1>5. /\ mt' \in [pc : Pcs, requeue : SUBSET Entries, toDLQ : SUBSET Entries, err : BOOLEAN]
      /\ mt'.pc \in {"stopped", "loop"} /\ mt'.requeue = {} /\ mt'.toDLQ = {}
  BY DEF DLQCommit, Parked, After, Pcs
<1>6. TypeOK'
  BY <1>2, <1>3, <1>4, <1>5, MaintainerReturns DEF TypeInv, TypeOK, LogType, DLQCommit,
     procVars, heapVars, leaseVars, dedupVars, supplyVars, histVars, recoveryVars
<1>7. MaintainerOK'
  BY <1>2, <1>5, MaintainerReturns, Zenon DEF TypeInv, MaintainerOK
<1>8. DedupOK'
  BY <1>2, Zenon DEF TypeInv, DedupOK
<1> QED
  BY <1>2, <1>6, <1>7, <1>8, MaintainerReturns DEF TypeInv

LEMMA TypeDLQUndo ==
  ASSUME TypeInv, DLQUndo, UNCHANGED recoveryVars
  PROVE  TypeInv'
<1>1. mt \in [pc : Pcs, requeue : SUBSET Entries, toDLQ : SUBSET Entries, err : BOOLEAN]
  BY DEF TypeInv, TypeOK
<1>2. /\ LogReturn(Maintainer) /\ mode' = mode /\ job' = job /\ dedup' = dedup
      /\ mt.pc = "dlq"
  BY Zenon DEF DLQUndo, procVars, dedupVars
<1>3. inflight' \subseteq Ids /\ leases' \subseteq Entries
  BY <1>1, EntryIds DEF TypeInv, TypeOK, DLQUndo
<1>4. /\ mt' \in [pc : Pcs, requeue : SUBSET Entries, toDLQ : SUBSET Entries, err : BOOLEAN]
      /\ mt'.pc = "stopped" /\ mt'.requeue = {} /\ mt'.toDLQ = {}
  BY DEF DLQUndo, Parked, Pcs
<1>5. TypeOK'
  BY <1>2, <1>3, <1>4, MaintainerReturns, Zenon DEF TypeInv, TypeOK, LogType, DLQUndo,
     procVars, heapVars, dedupVars, supplyVars, histVars, recoveryVars
<1>6. MaintainerOK'
  BY <1>2, <1>4, MaintainerReturns, Zenon DEF TypeInv, MaintainerOK
<1>7. DedupOK'
  BY <1>2, Zenon DEF TypeInv, DedupOK
<1> QED
  BY <1>2, <1>5, <1>6, <1>7, MaintainerReturns DEF TypeInv

----------------------------------------------------------------------------
(* The other steps of a running process.                                   *)

LEMMA TypeStats ==
  ASSUME TypeInv, NEW now, Stats(now), UNCHANGED recoveryVars
  PROVE  TypeInv'
<1>1. ready' \subseteq Ids /\ delayed' \subseteq Ids
  BY DEF TypeInv, TypeOK, Stats, Due
<1>2. TypeOK'
  BY <1>1 DEF TypeInv, TypeOK, Stats, logVars, procVars, leaseVars, dedupVars, loopVars,
     supplyVars, histVars, recoveryVars
<1>3. UNCHANGED <<phase, rec, job, mt, mode, dedup>>
  BY DEF Stats, logVars, procVars, dedupVars, loopVars
<1> QED
  BY <1>2, <1>3, Zenon DEF TypeInv, ClientOK, MaintainerOK, DedupOK, idsOf

LEMMA TypeTick ==
  ASSUME TypeInv, Tick, UNCHANGED recoveryVars
  PROVE  TypeInv'
<1>1. TypeOK'
  BY DEF TypeInv, TypeOK, Tick, Time, logVars, heapVars, leaseVars, dedupVars, loopVars,
     supplyVars, histVars, recoveryVars
<1>2. UNCHANGED <<phase, rec, job, mt, mode, dedup>>
  BY Zenon DEF Tick, logVars, dedupVars, loopVars
<1> QED
  BY <1>1, <1>2, Zenon DEF TypeInv, ClientOK, MaintainerOK, DedupOK, idsOf

LEMMA TypeWriter ==
  ASSUME TypeInv, Writer, UNCHANGED recoveryVars
  PROVE  TypeInv'
<1>1. /\ LogType' /\ rec' = rec /\ Len(disk) <= Len(disk')
      /\ \A q \in Callers : phase'[q] = "idle" <=> phase[q] = "idle"
  BY WriterFacts, InsideAppend DEF TypeInv, TypeOK, LogType, Writer
<1>2. UNCHANGED <<job, mt, mode, dedup, pos>>
  BY DEF Writer, queueVars, procVars, loopVars, dedupVars, recoveryVars
<1>3. TypeOK'
  <2>1. pos' \in 0 .. Len(disk')
    BY <1>1, <1>2 DEF TypeInv, TypeOK, LogType
  <2> QED
    BY <1>1, <2>1 DEF TypeInv, TypeOK, LogType, Writer, queueVars, procVars, heapVars,
       leaseVars, dedupVars, loopVars, supplyVars, histVars, recoveryVars
<1>4. \A q \in Clients : ClientOK(q)'
  BY <1>1, <1>2, Zenon DEF TypeInv, ClientOK, Clients
<1>5. MaintainerOK'
  BY <1>1, <1>2, QueueAssumption DEF TypeInv, MaintainerOK, idsOf
<1>6. DedupOK'
  BY <1>2, Zenon DEF TypeInv, DedupOK
<1> QED
  BY <1>3, <1>4, <1>5, <1>6 DEF TypeInv

----------------------------------------------------------------------------
(* Process death and recovery.                                             *)

\* The empty fields newQueue gives a queue are well typed.
LEMMA TypeEmpty ==
  /\ [i \in Ids |-> NoMsg] \in [Ids -> Messages]
  /\ [k \in Keys |-> NoEntry] \in [Keys -> [id : Ids \cup {NoId}, exp : Time]]
  /\ NoCnt \in Counters
  /\ [p \in Clients |-> NoJob] \in [Clients -> [op : Ops, id : Ids \cup {NoId}, at : Time]]
  /\ \A pc \in Pcs : Parked(pc) \in [pc : Pcs, requeue : SUBSET Entries,
                                     toDLQ : SUBSET Entries, err : BOOLEAN]
<1>1. [i \in Ids |-> NoMsg] \in [Ids -> Messages]
  BY MessageTypes
<1>2. [k \in Keys |-> NoEntry] \in [Keys -> [id : Ids \cup {NoId}, exp : Time]]
  BY DEF NoEntry, Time
<1>3. NoCnt \in Counters
  BY DEF NoCnt, Counters
<1>4. [p \in Clients |-> NoJob] \in [Clients -> [op : Ops, id : Ids \cup {NoId}, at : Time]]
  BY DEF NoJob, Ops, Time
<1>5. \A pc \in Pcs : Parked(pc) \in [pc : Pcs, requeue : SUBSET Entries,
                                      toDLQ : SUBSET Entries, err : BOOLEAN]
  BY DEF Parked
<1> QED
  BY <1>1, <1>2, <1>3, <1>4, <1>5

LEMMA TypeInit ==
  ASSUME Init
  PROVE  TypeInv
<1>1. LogType
  <2>1. disk \in Seq(Records) /\ Len(disk) = 0 /\ synced = 0 /\ dead \in BOOLEAN
    <3>1. disk = <<>> /\ synced = 0 /\ dead = FALSE
      BY DEF Init, QueueInit, LogInit
    <3>2. <<>> \in Seq(Records) /\ Len(<<>>) = 0
      OBVIOUS
    <3> QED
      BY <3>1, <3>2, Zenon
  <2>2. phase \in [Callers -> Phases] /\ rec \in [Callers -> Records \cup {NoRec}]
    BY DEF Init, QueueInit, LogInit, Phases
  <2> QED
    BY <2>1, <2>2 DEF LogType
<1>2. TypeOK
  <2>1. mt \in [pc : Pcs, requeue : SUBSET Entries, toDLQ : SUBSET Entries, err : BOOLEAN]
    BY TypeEmpty DEF Init, QueueInit, Pcs
  <2>2. pos \in 0 .. Len(disk)
    BY <1>1 DEF Init, LogType
  <2> QED
    BY <1>1, <2>1, <2>2, TypeEmpty, Zenon DEF Init, QueueInit, TypeOK, LogType, Time
<1>3. \A p \in Clients : ClientOK(p)
  BY Zenon DEF Init, QueueInit, LogInit, ClientOK, NoJob, Clients
<1>4. MaintainerOK
  BY QueueAssumption, Zenon DEF Init, QueueInit, LogInit, MaintainerOK, Parked
<1>5. DedupOK
  BY DEF Init, QueueInit, DedupOK, NoEntry
<1> QED
  BY <1>2, <1>3, <1>4, <1>5 DEF TypeInv

LEMMA TypeCrash ==
  ASSUME TypeInv, Crash
  PROVE  TypeInv'
<1>1. LogType' /\ \A q \in Callers : phase'[q] = "idle"
  BY ReopenFacts DEF TypeInv, TypeOK, LogType, Crash
<1>2. pos' \in 0 .. Len(disk') /\ crashes' \in Nat
  BY <1>1 DEF TypeInv, TypeOK, LogType, Crash
<1>3. mt' \in [pc : Pcs, requeue : SUBSET Entries, toDLQ : SUBSET Entries, err : BOOLEAN]
  BY TypeEmpty DEF Crash, newQueue, Pcs
<1>4. TypeOK'
  BY <1>1, <1>2, <1>3, TypeEmpty, Zenon DEF TypeInv, TypeOK, LogType, Crash, newQueue, Time,
     supplyVars, histVars
<1>5. \A p \in Clients : ClientOK(p)'
  BY <1>1, Zenon DEF Crash, newQueue, ClientOK, NoJob, Clients
<1>6. MaintainerOK'
  BY <1>1, QueueAssumption, Zenon DEF Crash, newQueue, MaintainerOK, Parked
<1>7. DedupOK'
  BY DEF Crash, newQueue, DedupOK, NoEntry
<1> QED
  BY <1>4, <1>5, <1>6, <1>7 DEF TypeInv

\* Applying a record leaves the goroutines alone, and the next one is at hand.
LEMMA AppliedFacts ==
  ASSUME TypeInv, mode = "replay", pos < Len(disk), Applied,
         mode' \in {"replay", "failed"}
  PROVE  /\ disk[pos + 1] \in Records
         /\ pos' \in 0 .. Len(disk')
         /\ (\A p \in Clients : ClientOK(p)') /\ MaintainerOK'
<1>1. disk \in Seq(Records) /\ pos \in 0 .. Len(disk)
  BY DEF TypeInv, TypeOK
<1>2. disk[pos + 1] \in Records
  BY <1>1
<1>3. pos' \in 0 .. Len(disk')
  BY <1>1 DEF Applied, logVars
<1>4. UNCHANGED <<phase, rec, job, mt>>
  BY DEF Applied, logVars, loopVars
<1>5. \A p \in Clients : ClientOK(p)'
  BY <1>4 DEF TypeInv, ClientOK
<1>6. MaintainerOK'
  BY <1>4, Zenon DEF TypeInv, MaintainerOK, idsOf
<1> QED
  BY <1>2, <1>3, <1>5, <1>6

\* The type of a record tells which kind it is.
LEMMA KindOfRecord ==
  ASSUME NEW r \in Records
  PROVE  /\ r.ids \in SUBSET Ids
         /\ r.t = "ENQUEUE" => r \in EnqueueRecs
         /\ r.t = "LEASE" => r \in LeaseRecs
         /\ r.t \in {"ACK", "DLQ_MOVE"} => r \in RemoveRecs
         /\ r.t \in {"NACK", "LEASE_EXPIRE"} => r \in ReturnRecs
  BY Zenon DEF Records, EnqueueRecs, LeaseRecs, RemoveRecs, ReturnRecs

LEMMA TypeApplyEnqueue ==
  ASSUME TypeInv, ApplyEnqueue
  PROVE  TypeInv'
<1> DEFINE r == disk[pos + 1]
<1>1. mode = "replay" /\ mode' = mode /\ pos < Len(disk) /\ r.t = "ENQUEUE" /\ Applied
  BY DEF ApplyEnqueue, Replaying
<1>2. r \in EnqueueRecs /\ r.ids \in SUBSET Ids
  BY <1>1, AppliedFacts, KindOfRecord
<1>3. msgs' \subseteq Ids /\ cnt' \in Counters
  BY <1>2, CounterTypes, Zenon DEF TypeInv, TypeOK, ApplyEnqueue
<1>4. msg' \in [Ids -> Messages]
  BY <1>2, MessageTypes DEF TypeInv, TypeOK, ApplyEnqueue
<1>5. seq' \in Nat
  BY <1>2 DEF TypeInv, TypeOK, ApplyEnqueue, replaySeq, EnqueueRecs
<1>6. dedup' \in [Keys -> [id : Ids \cup {NoId}, exp : Time]] /\ DedupOK'
  <2>1. dedup \in [Keys -> [id : Ids \cup {NoId}, exp : Time]] /\ DedupOK
    BY DEF TypeInv, TypeOK
  <2>2. r.enqAt + DedupTTL \in Time
    <3>1. r.enqAt \in Nat
      BY <1>2 DEF EnqueueRecs, Time
    <3>2. DedupTTL \in Nat
      BY QueueAssumption, Zenon
    <3> QED
      BY <3>1, <3>2 DEF Time
  <2>3. \/ dedup' = dedup
        \/ \E i \in r.ids : /\ r.key \in Keys
             /\ dedup' = [dedup EXCEPT ![r.key] = [id |-> i, exp |-> r.enqAt + DedupTTL]]
    BY Zenon DEF ApplyEnqueue
  <2> HIDE DEF r
  <2>4. ASSUME NEW i \in r.ids, r.key \in Keys,
               dedup' = [dedup EXCEPT ![r.key] = [id |-> i, exp |-> r.enqAt + DedupTTL]]
        PROVE  dedup' \in [Keys -> [id : Ids \cup {NoId}, exp : Time]] /\ DedupOK'
    BY <1>2, <2>1, <2>2, <2>4 DEF DedupOK
  <2> QED
    BY <2>1, <2>3, <2>4, Zenon DEF DedupOK
<1>7. TypeOK'
  BY <1>1, <1>3, <1>4, <1>5, <1>6, AppliedFacts DEF TypeInv, TypeOK, ApplyEnqueue,
     Applied, logVars, heapVars, leaseVars, loopVars, supplyVars, histVars
<1> QED
  BY <1>1, <1>6, <1>7, AppliedFacts DEF TypeInv

LEMMA TypeApplyLease ==
  ASSUME TypeInv, ApplyLease
  PROVE  TypeInv'
<1> DEFINE r == disk[pos + 1]
<1>1. /\ mode = "replay" /\ mode' \in {"replay", "failed"} /\ pos < Len(disk)
      /\ r.t = "LEASE" /\ Applied /\ dedup' = dedup
  BY DEF ApplyLease, Replaying, Known
<1>2. r \in LeaseRecs /\ r.ids \in SUBSET Ids
  BY <1>1, AppliedFacts, KindOfRecord
<1>3. leased' \subseteq Ids /\ cnt' \in Counters
  <2>1. Cardinality(r.ids) \in Nat
    BY <1>2, FiniteIds
  <2> QED
    BY <1>2, <2>1, CounterTypes, Zenon DEF TypeInv, TypeOK, ApplyLease
<1>4. msg' \in [Ids -> Messages]
  BY <1>2, MessageTypes DEF TypeInv, ApplyLease
<1>5. TypeOK'
  BY <1>1, <1>3, <1>4, AppliedFacts DEF TypeInv, TypeOK, ApplyLease, Applied, logVars,
     heapVars, leaseVars, loopVars, supplyVars, histVars
<1>6. DedupOK'
  BY <1>1, Zenon DEF TypeInv, DedupOK
<1> QED
  BY <1>1, <1>5, <1>6, AppliedFacts DEF TypeInv

LEMMA TypeApplyAck ==
  ASSUME TypeInv, ApplyAck
  PROVE  TypeInv'
<1> DEFINE r == disk[pos + 1]
<1>1. /\ mode = "replay" /\ mode' \in {"replay", "failed"} /\ pos < Len(disk)
      /\ r.t = "ACK" /\ Applied /\ dedup' = dedup
  BY DEF ApplyAck, Replaying, Known
<1>2. leased' \subseteq Ids /\ msgs' \subseteq Ids /\ cnt' \in Counters
  BY CounterTypes, Zenon DEF TypeInv, TypeOK, ApplyAck
<1>3. msg' \in [Ids -> Messages]
  BY MessageTypes DEF TypeInv, TypeOK, ApplyAck
<1>4. TypeOK'
  BY <1>1, <1>2, <1>3, AppliedFacts DEF TypeInv, TypeOK, ApplyAck, Applied, logVars,
     heapVars, leaseVars, loopVars, supplyVars, histVars
<1>5. DedupOK'
  BY <1>1, Zenon DEF TypeInv, DedupOK
<1> QED
  BY <1>1, <1>4, <1>5, AppliedFacts DEF TypeInv

LEMMA TypeApplyReturn ==
  ASSUME TypeInv, NEW t \in {"NACK", "LEASE_EXPIRE"}, NEW count \in Counters,
         ApplyReturn(t, count)
  PROVE  TypeInv'
<1> DEFINE r == disk[pos + 1]
<1>1. /\ mode = "replay" /\ mode' \in {"replay", "failed"} /\ pos < Len(disk)
      /\ r.t = t /\ Applied /\ dedup' = dedup
  BY DEF ApplyReturn, Replaying, Known
<1>2. r \in ReturnRecs
  BY <1>1, AppliedFacts, KindOfRecord
<1>3. leased' \subseteq Ids /\ cnt' \in Counters
  BY Zenon DEF TypeInv, TypeOK, ApplyReturn
<1>4. msg' \in [Ids -> Messages]
  BY <1>2, MessageTypes, Zenon DEF TypeInv, ApplyReturn
<1>5. TypeOK'
  BY <1>1, <1>3, <1>4, AppliedFacts, Zenon DEF TypeInv, TypeOK, ApplyReturn, Applied, logVars,
     heapVars, leaseVars, loopVars, supplyVars, histVars
<1>6. DedupOK'
  BY <1>1, Zenon DEF TypeInv, DedupOK
<1> QED
  BY <1>1, <1>5, <1>6, AppliedFacts DEF TypeInv

LEMMA TypeApplyDlqMove ==
  ASSUME TypeInv, ApplyDlqMove
  PROVE  TypeInv'
<1> DEFINE r == disk[pos + 1]
<1>1. /\ mode = "replay" /\ mode' \in {"replay", "failed"} /\ pos < Len(disk)
      /\ Applied /\ dedup' = dedup /\ moveToDLQ(r.ids)
  BY DEF ApplyDlqMove, Replaying, Known
<1>2. r.ids \in SUBSET Ids
  BY <1>1, AppliedFacts, KindOfRecord
<1>3. leased' \subseteq Ids /\ cnt' \in Counters
  <2>1. Cardinality(r.ids) \in Nat
    BY <1>2, FiniteIds
  <2> QED
    BY <2>1, CounterTypes, Zenon DEF TypeInv, TypeOK, ApplyDlqMove
<1>4. msgs' \subseteq Ids /\ dlq' \subseteq Ids /\ msg' \in [Ids -> Messages]
  BY <1>1, <1>2, TypeMoveToDLQ DEF TypeInv
<1>5. TypeOK'
  BY <1>1, <1>3, <1>4, AppliedFacts DEF TypeInv, TypeOK, ApplyDlqMove, Applied, logVars,
     heapVars, leaseVars, loopVars, supplyVars, histVars
<1>6. DedupOK'
  BY <1>1, Zenon DEF TypeInv, DedupOK
<1> QED
  BY <1>1, <1>5, <1>6, AppliedFacts DEF TypeInv

LEMMA TypeFinalize ==
  ASSUME TypeInv, Finalize
  PROVE  TypeInv'
<1>1. UNCHANGED <<phase, rec, job>> /\ mode' = "up" /\ mode = "replay"
      /\ mt' = Parked("loop")
  BY DEF Finalize, logVars
<1>2. msg' \in [Ids -> Messages]
  <2>1. \A i \in Ids : msg[i] \in Messages
    BY DEF TypeInv, TypeOK
  <2>2. \A i \in Ids : [msg[i] EXCEPT !.token = 0] \in Messages
    BY <2>1 DEF Messages
  <2> QED
    BY <2>1, <2>2 DEF Finalize
<1>3. dedup' \in [Keys -> [id : Ids \cup {NoId}, exp : Time]] /\ DedupOK'
  <2>1. dedup \in [Keys -> [id : Ids \cup {NoId}, exp : Time]] /\ DedupOK
    BY DEF TypeInv, TypeOK
  <2>2. dedup' = [k \in Keys |-> IF dedup[k].exp <= clock THEN NoEntry ELSE dedup[k]]
    BY DEF Finalize
  <2> QED
    BY <2>1, <2>2 DEF DedupOK, NoEntry, Time
<1>4. ready' \subseteq Ids /\ delayed' \subseteq Ids /\ pos' \in 0 .. Len(disk')
  BY DEF TypeInv, TypeOK, Finalize, logVars
<1>5. mt' \in [pc : Pcs, requeue : SUBSET Entries, toDLQ : SUBSET Entries, err : BOOLEAN]
  BY <1>1, TypeEmpty DEF Pcs
<1>6. TypeOK'
  BY <1>2, <1>3, <1>4, <1>5 DEF TypeInv, TypeOK, Finalize, logVars, leaseVars,
     supplyVars, histVars
<1>7. \A p \in Clients : ClientOK(p)'
  BY <1>1, Zenon DEF TypeInv, ClientOK
<1>8. MaintainerOK'
  BY <1>1, Zenon DEF TypeInv, MaintainerOK, Parked
<1> QED
  BY <1>3, <1>6, <1>7, <1>8 DEF TypeInv

----------------------------------------------------------------------------
\* Every step, of a client, the maintenance goroutine, the writer, the clock, a
\* crash or recovery, keeps the inductive invariant.
LEMMA TypeNext ==
  ASSUME TypeInv, Next
  PROVE  TypeInv'
<1>1. ASSUME QueueNext, UNCHANGED recoveryVars
      PROVE  TypeInv'
  <2>1. ASSUME NEW p \in Clients, Request(p)
        PROVE  TypeInv'
    BY <1>1, <2>1, TypeEnqueueDuplicate, TypeEnqueueReserve, TypeDequeueReserve,
       TypeAckReserve, TypeNackReserve DEF Request
  <2>2. ASSUME NEW p \in Clients, Complete(p)
        PROVE  TypeInv'
    BY <1>1, <2>2, TypeDuplicateReturn, TypeEnqueueCommit, TypeEnqueueUndo,
       TypeDequeueCommit, TypeDequeueUndo, TypeAckCommit, TypeNackCommit,
       TypeNackToDLQ, TypeSettleUndo DEF Complete
  <2>3. CASE Maintenance
    BY <1>1, <2>3, TypeNextDeadline, TypeTakeWake, TypeMaintain, TypeExpireCommit,
       TypeExpireUndo, TypeSendDLQ, TypeDLQCommit, TypeDLQUndo DEF Maintenance
  <2> QED
    BY <1>1, <2>1, <2>2, <2>3, TypeStats, TypeTick, TypeWriter DEF QueueNext
<1>2. CASE Recovery
  <2>1. CASE ApplyNack
    <3>1. [cnt EXCEPT !.nacked = @ + 1] \in Counters
      BY CounterTypes, Zenon DEF TypeInv, TypeOK
    <3> QED
      BY <2>1, <3>1, TypeApplyReturn DEF ApplyNack
  <2>2. CASE ApplyExpire
    <3>1. mode = "replay" /\ pos < Len(disk) /\ Applied /\ mode' \in {"replay", "failed"}
      BY <2>2 DEF ApplyExpire, ApplyReturn, Replaying, Known
    <3>2. disk[pos + 1].ids \in SUBSET Ids
      BY <3>1, AppliedFacts, KindOfRecord
    <3>3. [cnt EXCEPT !.expired = @ + Cardinality(disk[pos + 1].ids)] \in Counters
      BY <3>2, FiniteIds, CounterTypes, Zenon DEF TypeInv, TypeOK
    <3> QED
      BY <2>2, <3>3, TypeApplyReturn DEF ApplyExpire
  <2> QED
    BY <1>2, <2>1, <2>2, TypeApplyEnqueue, TypeApplyLease, TypeApplyAck,
       TypeApplyDlqMove, TypeFinalize DEF Recovery
<1> QED
  BY <1>1, <1>2, TypeCrash DEF Next

\* A step that changes nothing keeps it too.
LEMMA TypeStutter ==
  ASSUME TypeInv, UNCHANGED vars
  PROVE  TypeInv'
<1>1. TypeOK'
  BY DEF TypeInv, TypeOK, vars, logVars, queueVars, procVars, heapVars, leaseVars,
     dedupVars, loopVars, supplyVars, histVars, recoveryVars
<1>2. UNCHANGED <<phase, rec, job, mt, mode, dedup>>
  BY DEF vars, logVars, queueVars, procVars, dedupVars, loopVars
<1> QED
  BY <1>1, <1>2, Zenon DEF TypeInv, ClientOK, MaintainerOK, DedupOK, idsOf

\* TypeInv holds in every state of every behaviour.
THEOREM TypeInvariant == Spec => []TypeInv
<1>1. Init => TypeInv
  BY TypeInit
<1>2. TypeInv /\ [Next]_vars => TypeInv'
  BY TypeNext, TypeStutter
<1> QED
  BY <1>1, <1>2, PTL DEF Spec

\* Queue, log and goroutines stay in their types across every interleaving,
\* crash and recovery, the fsynced prefix is within the log, and replay never
\* reads past its end.
THEOREM TypeCorrect == Spec => []TypeOK
<1>1. TypeInv => TypeOK
  BY DEF TypeInv
<1> QED
  BY <1>1, TypeInvariant, PTL
============================================================================
