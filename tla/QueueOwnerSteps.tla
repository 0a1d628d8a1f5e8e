-------------------------- MODULE QueueOwnerSteps --------------------------
(***************************************************************************)
(* SingleOwner: the inductive invariant, and that every step of a client   *)
(* keeps it. QueueProofs has the other steps and the theorem.              *)
(*                                                                         *)
(* The invariant is not inductive by itself. An enqueue publishes its      *)
(* message long after it chose the id, so ids handed out must be unknown   *)
(* to every place, the log included, until then (FreshOK); what Maintain   *)
(* popped for requeueing must not also be on its way to the DLQ (SplitOK); *)
(* and recovery must start from empty heaps (QuietOK).                     *)
(***************************************************************************)
EXTENDS QueueTypeProofs

\* SingleOwner, one message at a time.
OwnedOnce ==
  /\ ready \subseteq msgs /\ delayed \subseteq msgs /\ inflight \subseteq msgs
  /\ \A p \in Callers : Holding(p) \subseteq msgs
  /\ \A i \in msgs : \/ i \in ready \/ i \in delayed \/ i \in inflight
                     \/ \E p \in Callers : i \in Holding(p)
  /\ \A i \in ready : i \notin delayed /\ i \notin inflight
  /\ \A i \in delayed : i \notin inflight
  /\ \A p \in Callers : \A i \in Holding(p) :
       /\ i \notin ready /\ i \notin delayed /\ i \notin inflight
       /\ \A q \in Callers : i \in Holding(q) => q = p

\* The id an enqueue chose is its own until it commits, and an id that has not
\* been chosen is nowhere.
FreshOK ==
  /\ \A i \in fresh : i \notin msgs
  /\ \A k \in 1 .. Len(disk) : \A i \in disk[k].ids : i \notin fresh
  /\ \A p \in Clients : job[p].op = "enqueue" =>
       /\ job[p].id \notin fresh /\ job[p].id \notin msgs
       /\ \A q \in Clients : job[q].op = "enqueue" /\ job[q].id = job[p].id => q = p

\* Maintain decides once for each message.
SplitOK == \A d \in mt.requeue, e \in mt.toDLQ : d.id # e.id

\* Nothing is in flight before recovery is over.
QuietOK == mode # "up" => inflight = {}

OwnerInv ==
  /\ mode = "up" => OwnedOnce
  /\ FreshOK
  /\ SplitOK
  /\ QuietOK

----------------------------------------------------------------------------
(* What an operation has in its hands.                                     *)

LEMMA ClientHolding ==
  ASSUME NEW p \in Clients
  PROVE  /\ p # Maintainer /\ p \in Callers
         /\ job[p].op \in {"dequeue", "ack", "nack"} => Holding(p) = rec[p].ids
         /\ job[p].op \notin {"dequeue", "ack", "nack"} => Holding(p) = {}
         /\ job'[p].op \in {"dequeue", "ack", "nack"} => Holding(p)' = rec'[p].ids
         /\ job'[p].op \notin {"dequeue", "ack", "nack"} => Holding(p)' = {}
  BY DEF Holding, Clients

LEMMA MaintainerHolding ==
  /\ Maintainer \in Callers
  /\ Holding(Maintainer) = idsOf(mt.requeue) \cup idsOf(mt.toDLQ)
  /\ Holding(Maintainer)' = idsOf(mt'.requeue) \cup idsOf(mt'.toDLQ)
  BY QueueAssumption DEF Holding, idsOf

\* A client's step leaves what the others hold in their hands.
LEMMA OthersHold ==
  ASSUME NEW p \in Clients, OnlyCaller(p), mt' = mt,
         \A q \in Clients \ {p} : job'[q] = job[q]
  PROVE  \A q \in Callers : q # p => Holding(q)' = Holding(q)
  BY DEF Holding, OnlyCaller, Clients, idsOf

\* A step of the maintenance goroutine leaves what the clients hold.
LEMMA ClientsHold ==
  ASSUME OnlyCaller(Maintainer), job' = job
  PROVE  \A q \in Callers : q # Maintainer => Holding(q)' = Holding(q)
  BY DEF Holding, OnlyCaller, Clients

\* A step that hands out no id, writes nothing and adds no message.
LEMMA FreshFrame ==
  ASSUME FreshOK, fresh' = fresh, disk' = disk, msgs' \subseteq msgs,
         \A q \in Clients : job'[q].op = "enqueue" => job'[q] = job[q]
  PROVE  FreshOK'
  BY DEF FreshOK

----------------------------------------------------------------------------
(* Requests.                                                               *)

\* What a request that appends does to the goroutines.
LEMMA Started ==
  ASSUME TypeInv, NEW p \in Clients, NEW op \in Ops, NEW i, NEW now, NEW r \in Records,
         Start(p, op, i, now), AppendJSON(p, r)
  PROVE  /\ disk' = disk /\ phase[p] = "idle" /\ rec'[p] = r /\ OnlyCaller(p)
         /\ job[p].op = "none" /\ job'[p] = [op |-> op, id |-> i, at |-> now]
         /\ \A q \in Clients \ {p} : job'[q] = job[q]
<1>1. LogType /\ p \in Callers
  BY DEF TypeInv, TypeOK, LogType, Clients
<1>2. disk' = disk /\ phase[p] = "idle" /\ rec'[p] = r /\ OnlyCaller(p)
  BY <1>1, AppendFacts
<1>3. /\ job[p].op = "none" /\ job'[p] = [op |-> op, id |-> i, at |-> now]
      /\ \A q \in Clients \ {p} : job'[q] = job[q]
  BY DEF TypeInv, TypeOK, Start
<1> QED
  BY <1>2, <1>3

LEMMA OwnerEnqueueDuplicate ==
  ASSUME TypeInv, OwnerInv, NEW p \in Clients, NEW k, NEW now,
         EnqueueDuplicate(p, k, now)
  PROVE  OwnerInv'
<1>1. /\ UNCHANGED <<disk, phase, rec, msgs, ready, delayed, inflight, fresh, mt, mode>>
      /\ OnlyCaller(p) /\ mode = "up"
  BY DEF EnqueueDuplicate, OnlyCaller, logVars, procVars, heapVars, leaseVars, loopVars,
     supplyVars
<1>2. /\ job[p].op = "none" /\ job'[p].op = "duplicate"
      /\ \A q \in Clients \ {p} : job'[q] = job[q]
  BY DEF TypeInv, TypeOK, EnqueueDuplicate, Start
<1>3. \A q \in Callers : Holding(q)' = Holding(q)
  BY <1>1, <1>2, OthersHold, ClientHolding, Zenon
<1>4. OwnedOnce'
  BY <1>1, <1>3 DEF OwnerInv, OwnedOnce
<1>5. FreshOK'
  BY <1>1, <1>2, FreshFrame DEF OwnerInv
<1> QED
  BY <1>1, <1>4, <1>5 DEF OwnerInv, SplitOK, QuietOK

LEMMA OwnerEnqueueReserve ==
  ASSUME TypeInv, OwnerInv, NEW p \in Clients, NEW i \in fresh, NEW prio \in Priorities,
         NEW delay \in Delays, NEW k \in Keys \cup {NoKey}, NEW now \in Readings,
         EnqueueReserve(p, i, prio, delay, k, now)
  PROVE  OwnerInv'
<1> DEFINE m == [NoMsg EXCEPT !.seq = seq + 1,
                              !.prio = IF PriorityOn THEN prio ELSE 0,
                              !.enqAt = now,
                              !.visAt = IF DelayOn THEN now + delay ELSE now,
                              !.key = k]
<1>1. /\ UNCHANGED <<msgs, ready, delayed, inflight, mt, mode>> /\ mode = "up"
      /\ fresh' = fresh \ {i} /\ Start(p, "enqueue", i, 0)
      /\ AppendJSON(p, EnqueueRec(i, m))
  BY DEF EnqueueReserve, procVars, heapVars, leaseVars, loopVars
<1>2. EnqueueRec(i, m) \in Records
  <2>1. now \in Nat /\ i \in Ids /\ delay \in Nat /\ prio \in Int
    BY QueueAssumption DEF TypeInv, TypeOK, Readings, Time
  <2>2. seq + 1 \in Nat /\ k \in KeyOrNone
    BY DEF TypeInv, TypeOK, KeyOrNone
  <2>3. (IF PriorityOn THEN prio ELSE 0) \in Int /\ (IF DelayOn THEN now + delay ELSE now) \in Nat
    BY <2>1
  <2>4. m \in Messages
    BY <2>1, <2>2, <2>3, Zenon DEF NoMsg, Messages, Time
  <2> HIDE DEF m
  <2> QED
    BY <2>1, <2>4, RecordTypes DEF Records
<1> HIDE DEF m
<1>3. /\ disk' = disk /\ OnlyCaller(p)
      /\ job[p].op = "none" /\ job'[p] = [op |-> "enqueue", id |-> i, at |-> 0]
      /\ \A q \in Clients \ {p} : job'[q] = job[q]
  BY <1>1, <1>2, Started DEF Ops
<1>4. \A q \in Callers : Holding(q)' = Holding(q)
  BY <1>1, <1>3, OthersHold, ClientHolding
<1>5. OwnedOnce'
  BY <1>1, <1>4 DEF OwnerInv, OwnedOnce
<1>6. FreshOK'
  <2>1. job'[p].op = "enqueue" /\ job'[p].id = i
    BY <1>3
  <2> QED
    BY <1>1, <1>3, <2>1 DEF OwnerInv, FreshOK
<1> QED
  BY <1>1, <1>5, <1>6 DEF OwnerInv, SplitOK, QuietOK

LEMMA OwnerDequeueReserve ==
  ASSUME TypeInv, OwnerInv, NEW p \in Clients, NEW n, NEW now \in Readings,
         DequeueReserve(p, n, now)
  PROVE  OwnerInv'
<1> DEFINE visible == ready \cup Due(now)
           att(S)  == [i \in Ids |-> IF i \in S THEN msg[i].attempts + 1 ELSE 0]
           r(S)    == LeaseRec(S, tokens + 1, now + VisibilityTimeout, att(S))
<1>1. /\ UNCHANGED <<msgs, inflight, fresh, mt, mode>> /\ mode = "up"
      /\ delayed' = delayed \ Due(now) /\ Start(p, "dequeue", NoId, 0)
  BY DEF DequeueReserve, procVars, leaseVars, loopVars
<1>2. PICK S \in SUBSET visible : ready' = visible \ S /\ AppendJSON(p, r(S))
  BY DEF DequeueReserve
<1>3. r(S) \in Records /\ r(S).ids = S
  <2>1. att(S) \in [Ids -> Nat]
    BY DEF TypeInv, TypeOK, Messages
  <2>2. now \in Nat /\ S \in SUBSET Ids
    BY DEF TypeInv, TypeOK, Readings, Time, Due
  <2>3. tokens + 1 \in Nat /\ now + VisibilityTimeout \in Deadline
    BY <2>2, QueueAssumption DEF TypeInv, TypeOK, Deadline
  <2> HIDE DEF att
  <2>4. r(S) \in LeaseRecs
    BY <2>1, <2>2, <2>3, RecordTypes
  <2> QED
    BY <2>4 DEF Records, LeaseRec
<1> HIDE DEF r
<1>4. /\ disk' = disk /\ OnlyCaller(p) /\ rec'[p] = r(S)
      /\ job[p].op = "none" /\ job'[p] = [op |-> "dequeue", id |-> NoId, at |-> 0]
      /\ \A q \in Clients \ {p} : job'[q] = job[q]
  BY <1>1, <1>2, <1>3, Started DEF Ops
<1>5. /\ Holding(p) = {} /\ Holding(p)' = S /\ p \in Callers
      /\ \A q \in Callers : q # p => Holding(q)' = Holding(q)
  BY <1>1, <1>3, <1>4, OthersHold, ClientHolding
<1>6. Due(now) \subseteq delayed
  BY DEF Due
<1>7. OwnedOnce'
  BY <1>1, <1>2, <1>5, <1>6 DEF OwnerInv, OwnedOnce
<1>8. FreshOK'
  BY <1>1, <1>4, FreshFrame DEF OwnerInv
<1> QED
  BY <1>1, <1>7, <1>8 DEF OwnerInv, SplitOK, QuietOK

\* An ack or a nack takes the message out of the in-flight map.
LEMMA OwnerSettleReserve ==
  ASSUME TypeInv, OwnerInv, NEW p \in Clients, NEW op \in {"ack", "nack"}, NEW i, NEW now,
         NEW r \in Records, r.ids = {i}, i \in inflight, inflight' = inflight \ {i},
         Start(p, op, i, now), AppendJSON(p, r), mode = "up",
         UNCHANGED <<msgs, ready, delayed, fresh, mt, mode>>
  PROVE  OwnerInv'
<1>1. /\ disk' = disk /\ OnlyCaller(p) /\ rec'[p] = r
      /\ job[p].op = "none" /\ job'[p] = [op |-> op, id |-> i, at |-> now]
      /\ \A q \in Clients \ {p} : job'[q] = job[q]
  BY Started DEF Ops
<1>2. /\ Holding(p) = {} /\ Holding(p)' = {i} /\ p \in Callers
      /\ \A q \in Callers : q # p => Holding(q)' = Holding(q)
  BY <1>1, OthersHold, ClientHolding
<1>3. OwnedOnce'
  BY <1>2 DEF OwnerInv, OwnedOnce
<1>4. FreshOK'
  BY <1>1, FreshFrame DEF OwnerInv
<1> QED
  BY <1>3, <1>4 DEF OwnerInv, SplitOK, QuietOK

LEMMA OwnerAckReserve ==
  ASSUME TypeInv, OwnerInv, NEW p \in Clients, NEW i, NEW tok, AckReserve(p, i, tok)
  PROVE  OwnerInv'
<1>1. /\ UNCHANGED <<msgs, ready, delayed, fresh, mt, mode>> /\ mode = "up"
      /\ i \in inflight /\ inflight' = inflight \ {i}
      /\ Start(p, "ack", i, 0) /\ AppendJSON(p, AckRec(i))
  BY DEF AckReserve, takeLeased, procVars, heapVars, loopVars, supplyVars
<1>2. AckRec(i) \in Records /\ AckRec(i).ids = {i}
  BY <1>1, RecordTypes DEF TypeInv, TypeOK, Records, AckRec
<1> QED
  BY <1>1, <1>2, OwnerSettleReserve

LEMMA OwnerNackReserve ==
  ASSUME TypeInv, OwnerInv, NEW p \in Clients, NEW i, NEW tok, NEW delay \in Delays,
         NEW now \in Readings, NackReserve(p, i, tok, delay, now)
  PROVE  OwnerInv'
<1> DEFINE r == IF exhausted(msg[i]) THEN DlqRec({i}) ELSE NackRec(i, now + delay)
<1>1. /\ UNCHANGED <<msgs, ready, delayed, fresh, mt, mode>> /\ mode = "up"
      /\ i \in inflight /\ inflight' = inflight \ {i}
      /\ Start(p, "nack", i, now) /\ AppendJSON(p, r)
  BY DEF NackReserve, takeLeased, procVars, heapVars, loopVars, supplyVars
<1>2. r \in Records /\ r.ids = {i}
  <2>1. i \in Ids /\ now + delay \in Time
    BY <1>1, ReadingTypes DEF TypeInv, TypeOK
  <2> QED
    BY <2>1, RecordTypes, Zenon DEF Records, DlqRec, NackRec
<1> HIDE DEF r
<1> QED
  BY <1>1, <1>2, OwnerSettleReserve, Zenon

----------------------------------------------------------------------------
(* Completions.                                                            *)

\* What every completion does to the goroutines.
LEMMA Completed ==
  ASSUME TypeInv, OwnerInv, NEW p \in Clients, LogReturn(p), Finish(p), mt' = mt,
         job[p].op # "none"
  PROVE  /\ disk' = disk /\ mode = "up" /\ OwnedOnce
         /\ p \in Callers /\ Holding(p)' = {}
         /\ \A q \in Callers : q # p => Holding(q)' = Holding(q)
         /\ job'[p].op = "none" /\ \A q \in Clients \ {p} : job'[q] = job[q]
<1>1. LogType /\ p \in Callers
  BY DEF TypeInv, TypeOK, LogType, Clients
<1>2. disk' = disk /\ OnlyCaller(p)
  BY <1>1, ReturnFacts
<1>3. job'[p].op = "none" /\ \A q \in Clients \ {p} : job'[q] = job[q]
  BY DEF TypeInv, TypeOK, Finish, NoJob
<1>4. mode = "up" /\ OwnedOnce
  BY DEF TypeInv, ClientOK, OwnerInv
<1>5. Holding(p)' = {}
  BY <1>3, ClientHolding
<1> QED
  BY <1>1, <1>2, <1>3, <1>4, <1>5, OthersHold

\* The parts of OwnerInv that a completion which adds no message cannot disturb.
LEMMA CompletedRest ==
  ASSUME TypeInv, OwnerInv, NEW p \in Clients, LogReturn(p), Finish(p), job[p].op # "none",
         UNCHANGED <<mode, mt, fresh>>, msgs' \subseteq msgs, OwnedOnce'
  PROVE  OwnerInv'
<1>1. /\ disk' = disk /\ mode = "up"
      /\ job'[p].op = "none" /\ \A q \in Clients \ {p} : job'[q] = job[q]
  BY Completed
<1>2. FreshOK'
  BY <1>1, FreshFrame DEF OwnerInv
<1> QED
  BY <1>1, <1>2 DEF OwnerInv, SplitOK, QuietOK

\* insert gives a message that is nowhere else, or only in p's hands, a heap.
LEMMA OwnerInsert ==
  ASSUME OwnedOnce, NEW p \in Callers, NEW i, NEW m, NEW now, insert(i, m, now),
         inflight' = inflight,
         i \notin ready, i \notin delayed, i \notin inflight,
         Holding(p) \subseteq {i}, Holding(p)' = {},
         \A q \in Callers : q # p => Holding(q)' = Holding(q) /\ i \notin Holding(q)
  PROVE  OwnedOnce'
<1>1. \/ msgs' = msgs \cup {i} /\ delayed' = delayed \cup {i} /\ ready' = ready
      \/ msgs' = msgs \cup {i} /\ ready' = ready \cup {i} /\ delayed' = delayed
  BY DEF insert
<1> QED
  BY <1>1 DEF OwnedOnce

LEMMA OwnerDuplicateReturn ==
  ASSUME TypeInv, OwnerInv, NEW p \in Clients, DuplicateReturn(p)
  PROVE  OwnerInv'
<1>1. /\ UNCHANGED <<disk, phase, rec, msgs, ready, delayed, inflight, fresh, mt, mode>>
      /\ OnlyCaller(p) /\ job[p].op = "duplicate"
  BY Zenon DEF DuplicateReturn, OnlyCaller, logVars, procVars, heapVars, leaseVars, loopVars,
     supplyVars
<1>2. job'[p].op = "none" /\ \A q \in Clients \ {p} : job'[q] = job[q]
  BY Zenon DEF TypeInv, TypeOK, DuplicateReturn, Finish, NoJob
<1>3. \A q \in Callers : Holding(q)' = Holding(q)
  BY <1>1, <1>2, OthersHold, ClientHolding
<1>4. mode = "up" => OwnedOnce'
  BY <1>1, <1>3 DEF OwnerInv, OwnedOnce
<1>5. FreshOK'
  BY <1>1, <1>2, FreshFrame DEF OwnerInv
<1> QED
  BY <1>1, <1>4, <1>5, Zenon DEF OwnerInv, SplitOK, QuietOK

LEMMA OwnerEnqueueCommit ==
  ASSUME TypeInv, OwnerInv, NEW p \in Clients, EnqueueCommit(p)
  PROVE  OwnerInv'
<1> DEFINE i == job[p].id
           m == MessageOf(rec[p])
<1>1. /\ UNCHANGED <<inflight, mt, fresh, mode>> /\ job[p].op = "enqueue"
      /\ LogReturn(p) /\ Finish(p) /\ insert(i, m, clock)
  BY DEF EnqueueCommit, leaseVars, procVars, supplyVars
<1>2. /\ disk' = disk /\ mode = "up" /\ OwnedOnce
      /\ p \in Callers /\ Holding(p)' = {}
      /\ \A q \in Callers : q # p => Holding(q)' = Holding(q)
      /\ job'[p].op = "none" /\ \A q \in Clients \ {p} : job'[q] = job[q]
  BY <1>1, Completed
<1>3. i \notin msgs /\ i \notin fresh
  BY <1>1 DEF OwnerInv, FreshOK
<1>4. Holding(p) = {}
  BY <1>1, ClientHolding
<1>5. i \notin ready /\ i \notin delayed /\ i \notin inflight
      /\ \A q \in Callers : i \notin Holding(q)
  BY <1>2, <1>3 DEF OwnedOnce
<1>6. OwnedOnce'
  <2> HIDE DEF i, m
  <2> QED
    BY <1>1, <1>2, <1>4, <1>5, OwnerInsert
<1>7. FreshOK'
  <2>1. msgs' = msgs \cup {i}
    BY <1>1 DEF insert
  <2> QED
    BY <1>1, <1>2, <1>3, <2>1 DEF OwnerInv, FreshOK
<1> QED
  BY <1>1, <1>2, <1>6, <1>7 DEF OwnerInv, SplitOK, QuietOK

LEMMA OwnerEnqueueUndo ==
  ASSUME TypeInv, OwnerInv, NEW p \in Clients, EnqueueUndo(p)
  PROVE  OwnerInv'
<1>1. /\ UNCHANGED <<msgs, ready, delayed, inflight, mt, fresh, mode>>
      /\ job[p].op = "enqueue" /\ LogReturn(p) /\ Finish(p)
  BY Zenon DEF EnqueueUndo, heapVars, leaseVars, loopVars, procVars, supplyVars
<1>2. \A q \in Callers : Holding(q)' = Holding(q)
  BY <1>1, Completed, ClientHolding, Zenon
<1>3. OwnedOnce'
  BY <1>1, <1>2, Completed DEF OwnedOnce
<1> QED
  BY <1>1, <1>3, CompletedRest

LEMMA OwnerDequeueCommit ==
  ASSUME TypeInv, OwnerInv, NEW p \in Clients, DequeueCommit(p)
  PROVE  OwnerInv'
<1>1. /\ UNCHANGED <<msgs, ready, delayed, mt, fresh, mode>>
      /\ job[p].op = "dequeue" /\ LogReturn(p) /\ Finish(p)
      /\ inflight' = inflight \cup rec[p].ids
  BY DEF DequeueCommit, heapVars, procVars, supplyVars
<1>2. /\ OwnedOnce /\ p \in Callers /\ Holding(p) = rec[p].ids /\ Holding(p)' = {}
      /\ \A q \in Callers : q # p => Holding(q)' = Holding(q)
  BY <1>1, Completed, ClientHolding, Zenon
<1>3. OwnedOnce'
  BY <1>1, <1>2 DEF OwnedOnce
<1> QED
  BY <1>1, <1>3, CompletedRest, Zenon

LEMMA OwnerDequeueUndo ==
  ASSUME TypeInv, OwnerInv, NEW p \in Clients, DequeueUndo(p)
  PROVE  OwnerInv'
<1>1. /\ UNCHANGED <<msgs, delayed, inflight, mt, fresh, mode>>
      /\ job[p].op = "dequeue" /\ LogReturn(p) /\ Finish(p)
      /\ ready' = ready \cup rec[p].ids
  BY Zenon DEF DequeueUndo, leaseVars, loopVars, procVars, supplyVars
<1>2. /\ OwnedOnce /\ p \in Callers /\ Holding(p) = rec[p].ids /\ Holding(p)' = {}
      /\ \A q \in Callers : q # p => Holding(q)' = Holding(q)
  BY <1>1, Completed, ClientHolding, Zenon
<1>3. OwnedOnce'
  BY <1>1, <1>2 DEF OwnedOnce
<1> QED
  BY <1>1, <1>3, CompletedRest

\* A settlement has its one message in its hands.
LEMMA Settling ==
  ASSUME TypeInv, OwnerInv, NEW p \in Clients, job[p].op \in {"ack", "nack"},
         LogReturn(p), Finish(p), mt' = mt
  PROVE  /\ OwnedOnce /\ p \in Callers /\ Holding(p) = {job[p].id} /\ Holding(p)' = {}
         /\ \A q \in Callers : q # p => Holding(q)' = Holding(q)
<1>1. rec[p].ids = {job[p].id}
  BY DEF TypeInv, ClientOK
<1> QED
  BY <1>1, Completed, ClientHolding

LEMMA OwnerAckCommit ==
  ASSUME TypeInv, OwnerInv, NEW p \in Clients, AckCommit(p)
  PROVE  OwnerInv'
<1>1. /\ UNCHANGED <<ready, delayed, inflight, mt, fresh, mode>>
      /\ job[p].op = "ack" /\ LogReturn(p) /\ Finish(p) /\ msgs' = msgs \ {job[p].id}
  BY DEF AckCommit, heapVars, leaseVars, loopVars, procVars, supplyVars
<1>2. OwnedOnce'
  BY <1>1, Settling DEF OwnedOnce
<1> QED
  BY <1>1, <1>2, CompletedRest

LEMMA OwnerNackCommit ==
  ASSUME TypeInv, OwnerInv, NEW p \in Clients, NackCommit(p)
  PROVE  OwnerInv'
<1> DEFINE i == job[p].id
           m == [msg[i] EXCEPT !.token = 0, !.visAt = rec[p].visAt]
<1>1. /\ UNCHANGED <<inflight, mt, fresh, mode>>
      /\ job[p].op = "nack" /\ LogReturn(p) /\ Finish(p) /\ insert(i, m, job[p].at)
  BY DEF NackCommit, leaseVars, procVars, supplyVars
<1>2. /\ OwnedOnce /\ p \in Callers /\ Holding(p) = {i} /\ Holding(p)' = {}
      /\ \A q \in Callers : q # p => Holding(q)' = Holding(q)
  BY <1>1, Settling
<1>3. /\ i \in msgs /\ i \notin ready /\ i \notin delayed /\ i \notin inflight
      /\ \A q \in Callers : q # p => i \notin Holding(q)
  BY <1>2 DEF OwnedOnce
<1>4. msgs' \subseteq msgs
  BY <1>1, <1>3 DEF insert
<1>5. OwnedOnce'
  <2> HIDE DEF i, m
  <2> QED
    BY <1>1, <1>2, <1>3, OwnerInsert
<1> QED
  BY <1>1, <1>4, <1>5, CompletedRest

LEMMA OwnerNackToDLQ ==
  ASSUME TypeInv, OwnerInv, NEW p \in Clients, NackToDLQ(p)
  PROVE  OwnerInv'
<1>1. /\ UNCHANGED <<ready, delayed, inflight, mt, fresh, mode>>
      /\ job[p].op = "nack" /\ LogReturn(p) /\ Finish(p) /\ msgs' = msgs \ {job[p].id}
  BY DEF NackToDLQ, moveToDLQ, heapVars, leaseVars, loopVars, procVars, supplyVars
<1>2. OwnedOnce'
  BY <1>1, Settling DEF OwnedOnce
<1> QED
  BY <1>1, <1>2, CompletedRest

LEMMA OwnerSettleUndo ==
  ASSUME TypeInv, OwnerInv, NEW p \in Clients, SettleUndo(p)
  PROVE  OwnerInv'
<1>1. /\ UNCHANGED <<msgs, ready, delayed, mt, fresh, mode>>
      /\ job[p].op \in {"ack", "nack"} /\ LogReturn(p) /\ Finish(p)
      /\ inflight' = inflight \cup {job[p].id}
  BY Zenon DEF SettleUndo, heapVars, loopVars, procVars, supplyVars
<1>2. OwnedOnce'
  BY <1>1, Settling DEF OwnedOnce
<1> QED
  BY <1>1, <1>2, CompletedRest
============================================================================
