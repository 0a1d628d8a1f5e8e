-------------------------- MODULE QueueWakeProofs --------------------------
(***************************************************************************)
(* NoMissedDeadline, for every value of the constants: no interleaving     *)
(* loses a wake-up of the maintenance goroutine.                           *)
(*                                                                         *)
(* armed = 0 stands for "no deadline", so the argument needs that no       *)
(* deadline is 0 (WakeInv's second conjunct); that the deadline of a       *)
(* delayed message is not changed under the goroutine's feet, which is     *)
(* what SingleOwner's invariant gives; and that recovery starts with an    *)
(* empty delayed heap.                                                     *)
(***************************************************************************)
EXTENDS QueueProofs

\* The inductive form of NoMissedDeadline.
WakeInv ==
  /\ NoMissedDeadline
  /\ \A i \in delayed : msg[i].visAt # 0
  /\ mode # "up" => delayed = {}

----------------------------------------------------------------------------
(* How the deadlines may change.                                           *)

LEMMA DeadlinesShrink ==
  ASSUME delayed' \subseteq delayed, leases' \subseteq leases,
         \A i \in delayed' : msg'[i].visAt = msg[i].visAt
  PROVE  Deadlines' \subseteq Deadlines
<1> SUFFICES ASSUME NEW d \in Deadlines' PROVE d \in Deadlines
  OBVIOUS
<1>1. CASE \E i \in delayed' : d = msg'[i].visAt
  BY <1>1 DEF Deadlines
<1>2. CASE \E e \in leases' : d = e.exp
  BY <1>2 DEF Deadlines
<1> QED
  BY <1>1, <1>2 DEF Deadlines

\* A step that adds no deadline and leaves the goroutine where it is.
LEMMA WakeFrame ==
  ASSUME WakeInv, delayed' \subseteq delayed, leases' \subseteq leases,
         \A i \in delayed' : msg'[i].visAt = msg[i].visAt,
         UNCHANGED <<armed, wake>>, mt'.pc = mt.pc, mode' # "up" => mode # "up"
  PROVE  WakeInv'
<1>1. Deadlines' \subseteq Deadlines
  BY DeadlinesShrink
<1>2. NoMissedDeadline'
  BY <1>1 DEF WakeInv, NoMissedDeadline
<1> QED
  BY <1>2 DEF WakeInv

\* A step after which the goroutine is not parked.
LEMMA WakeBusy ==
  ASSUME WakeInv, delayed' \subseteq delayed, mt'.pc # "wait", mode' = mode,
         \A i \in delayed' : msg'[i].visAt = msg[i].visAt
  PROVE  WakeInv'
<1>1. NoMissedDeadline'
  BY DEF NoMissedDeadline
<1> QED
  BY <1>1 DEF WakeInv

\* A step that adds one deadline and calls wakeIfSooner for it.
LEMMA WakeSooner ==
  ASSUME TypeInv, NoMissedDeadline, NEW d \in Time, wakeIfSooner(d),
         UNCHANGED <<armed, mt>>, Deadlines' \subseteq Deadlines \cup {d}
  PROVE  NoMissedDeadline'
<1> SUFFICES ASSUME mt'.pc = "wait", ~wake'
             PROVE  IF armed' = 0 THEN Deadlines' = {} ELSE \A e \in Deadlines' : armed' <= e
  BY DEF NoMissedDeadline
<1>1. ~wake /\ armed # 0 /\ ~(d < armed)
  BY Zenon DEF wakeIfSooner
<1>2. armed \in Nat /\ d \in Nat
  BY DEF TypeInv, TypeOK, Time
<1>3. armed <= d
  BY <1>1, <1>2
<1>4. \A e \in Deadlines : armed <= e
  BY <1>1 DEF NoMissedDeadline
<1> QED
  BY <1>1, <1>3, <1>4

\* insert of a message that is in no heap yet.
LEMMA WakeInsert ==
  ASSUME TypeInv, WakeInv, NEW i \in Ids, NEW m \in Messages, NEW now \in Time,
         i \notin delayed, mode = "up", insert(i, m, now), UNCHANGED <<leases, armed, mt, mode>>
  PROVE  WakeInv'
<1>1. \A j \in delayed : msg'[j] = msg[j]
  BY DEF TypeInv, TypeOK, insert
<1>2. msg'[i] = m /\ m.visAt \in Nat /\ now \in Nat
  BY DEF TypeInv, TypeOK, insert, Messages, Time
<1>3. CASE m.visAt <= now
  <2>1. delayed' = delayed /\ wake' = wake
    BY <1>2, <1>3 DEF insert
  <2> QED
    BY <1>1, <2>1, WakeFrame
<1>4. CASE m.visAt > now
  <2>1. delayed' = delayed \cup {i} /\ wakeIfSooner(m.visAt)
    BY <1>2, <1>4 DEF insert
  <2>2. m.visAt # 0
    BY <1>2, <1>4
  <2>3. \A j \in delayed' : msg'[j].visAt # 0
    BY <1>1, <1>2, <2>1, <2>2 DEF WakeInv
  <2>4. Deadlines' \subseteq Deadlines \cup {m.visAt}
    <3> SUFFICES ASSUME NEW d \in Deadlines' PROVE d \in Deadlines \cup {m.visAt}
      OBVIOUS
    <3>1. CASE \E j \in delayed' : d = msg'[j].visAt
      BY <1>1, <1>2, <2>1, <3>1 DEF Deadlines
    <3>2. CASE \E e \in leases' : d = e.exp
      BY <3>2 DEF Deadlines
    <3> QED
      BY <3>1, <3>2 DEF Deadlines
  <2>5. NoMissedDeadline'
    BY <1>2, <2>1, <2>4, WakeSooner DEF WakeInv, Time
  <2> QED
    BY <2>3, <2>5 DEF WakeInv
<1> QED
  BY <1>2, <1>3, <1>4

----------------------------------------------------------------------------
(* Requests and completions.                                               *)

LEMMA WakeRequest ==
  ASSUME WakeInv, NEW p \in Clients, Request(p)
  PROVE  WakeInv'
<1>1. delayed' \subseteq delayed /\ UNCHANGED <<msg, leases, armed, wake, mt, mode>>
  <2>1. ASSUME NEW now, NEW k, EnqueueDuplicate(p, k, now)
        PROVE  <1>1!:
    BY <2>1 DEF EnqueueDuplicate, heapVars, leaseVars, loopVars, procVars
  <2>2. ASSUME NEW now, NEW i, NEW prio, NEW delay, NEW k,
               EnqueueReserve(p, i, prio, delay, k, now)
        PROVE  <1>1!:
    BY <2>2 DEF EnqueueReserve, heapVars, leaseVars, loopVars, procVars
  <2>3. ASSUME NEW now, NEW n, DequeueReserve(p, n, now)
        PROVE  <1>1!:
    BY <2>3 DEF DequeueReserve, leaseVars, loopVars, procVars
  <2>4. ASSUME NEW i, NEW tok, AckReserve(p, i, tok)
        PROVE  <1>1!:
    BY <2>4 DEF AckReserve, heapVars, loopVars, procVars
  <2>5. ASSUME NEW i, NEW tok, NEW delay, NEW now, NackReserve(p, i, tok, delay, now)
        PROVE  <1>1!:
    BY <2>5 DEF NackReserve, heapVars, loopVars, procVars
  <2> QED
    BY <2>1, <2>2, <2>3, <2>4, <2>5 DEF Request
<1> QED
  BY <1>1, WakeFrame

\* What a client has in its hands is not delayed.
LEMMA HeldNotDelayed ==
  ASSUME TypeInv, OwnerInv, NEW p \in Clients, job[p].op \in {"dequeue", "ack", "nack"}
  PROVE  /\ mode = "up" /\ \A i \in rec[p].ids : i \notin delayed
         /\ job[p].op # "dequeue" => job[p].id \in Ids /\ job[p].id \notin delayed
<1>1. /\ mode = "up" /\ OwnedOnce
      /\ job[p].op # "dequeue" => rec[p].ids = {job[p].id} /\ job[p].id \in Ids
  BY DEF TypeInv, ClientOK, OwnerInv
<1>2. Holding(p) = rec[p].ids /\ p \in Callers
  BY ClientHolding
<1>3. \A i \in rec[p].ids : i \notin delayed
  BY <1>1, <1>2 DEF OwnedOnce
<1> QED
  BY <1>1, <1>3

LEMMA WakeEnqueueCommit ==
  ASSUME TypeInv, OwnerInv, WakeInv, NEW p \in Clients, EnqueueCommit(p)
  PROVE  WakeInv'
<1> DEFINE i == job[p].id
           m == MessageOf(rec[p])
<1>1. /\ UNCHANGED <<leases, armed, mt, mode>> /\ job[p].op = "enqueue" /\ insert(i, m, clock)
  BY DEF EnqueueCommit, leaseVars, procVars
<1>2. i \in Ids /\ rec[p] \in EnqueueRecs /\ mode = "up" /\ i \notin msgs
  BY <1>1 DEF TypeInv, ClientOK, OwnerInv, FreshOK
<1>3. m \in Messages /\ clock \in Time
  BY <1>2, MessageTypes DEF TypeInv, TypeOK
<1>4. i \notin delayed
  BY <1>2 DEF OwnerInv, OwnedOnce
<1> HIDE DEF i, m
<1> QED
  BY <1>1, <1>2, <1>3, <1>4, WakeInsert

LEMMA WakeNackCommit ==
  ASSUME TypeInv, OwnerInv, WakeInv, NEW p \in Clients, NackCommit(p)
  PROVE  WakeInv'
<1> DEFINE i == job[p].id
           m == [msg[i] EXCEPT !.token = 0, !.visAt = rec[p].visAt]
<1>1. /\ UNCHANGED <<leases, armed, mt, mode>> /\ job[p].op = "nack"
      /\ insert(i, m, job[p].at) /\ rec[p].t = "NACK"
  BY DEF NackCommit, leaseVars, procVars
<1>2. i \in Ids /\ i \notin delayed /\ mode = "up"
  BY <1>1, HeldNotDelayed
<1>3. rec[p].visAt \in Time
  <2>1. rec[p] \in RemoveRecs \cup ReturnRecs
    BY <1>1 DEF TypeInv, ClientOK
  <2> QED
    BY <1>1, <2>1 DEF RemoveRecs, ReturnRecs
<1>4. job[p].at \in Time
  BY DEF TypeInv, TypeOK
<1>5. m \in Messages
  <2>1. msg[i] \in Messages
    BY <1>2 DEF TypeInv, TypeOK
  <2> QED
    BY <1>3, <2>1, Zenon DEF Messages
<1> HIDE DEF i, m
<1> QED
  BY <1>1, <1>2, <1>4, <1>5, WakeInsert

LEMMA WakeDequeueCommit ==
  ASSUME TypeInv, OwnerInv, WakeInv, NEW p \in Clients, DequeueCommit(p)
  PROVE  WakeInv'
<1> DEFINE r == rec[p]
<1>1. /\ UNCHANGED <<delayed, armed, mt, mode>> /\ job[p].op = "dequeue"
      /\ leases' = leases \cup [id : r.ids, token : {r.tok}, exp : {r.exp}]
      /\ wakeIfSooner(r.exp) /\ msg' = leasedBy(r)
  BY DEF DequeueCommit, heapVars, procVars
<1>2. r.exp \in Time /\ mode = "up" /\ \A i \in r.ids : i \notin delayed
  <2>1. r \in LeaseRecs
    BY <1>1 DEF TypeInv, ClientOK
  <2> QED
    BY <1>1, <2>1, HeldNotDelayed DEF LeaseRecs, Deadline, Time
<1>3. \A i \in delayed : msg'[i] = msg[i]
  BY <1>1, <1>2, Zenon DEF TypeInv, TypeOK, leasedBy
<1>4. Deadlines' \subseteq Deadlines \cup {r.exp}
  <2> SUFFICES ASSUME NEW d \in Deadlines' PROVE d \in Deadlines \cup {r.exp}
    OBVIOUS
  <2>1. CASE \E j \in delayed' : d = msg'[j].visAt
    BY <1>1, <1>3, <2>1 DEF Deadlines
  <2>2. CASE \E e \in leases' : d = e.exp
    BY <1>1, <2>2 DEF Deadlines
  <2> QED
    BY <2>1, <2>2 DEF Deadlines
<1>5. NoMissedDeadline'
  BY <1>1, <1>2, <1>4, WakeSooner DEF WakeInv
<1> QED
  BY <1>1, <1>2, <1>3, <1>5 DEF WakeInv

\* The message an ack or a nack removes is not delayed.
LEMMA WakeRemove ==
  ASSUME TypeInv, OwnerInv, WakeInv, NEW p \in Clients, AckCommit(p) \/ NackToDLQ(p)
  PROVE  WakeInv'
<1>1. UNCHANGED <<delayed, leases, armed, wake, mt, mode>> /\ job[p].op \in {"ack", "nack"}
  BY DEF AckCommit, NackToDLQ, heapVars, leaseVars, loopVars, procVars
<1>2. job[p].id \notin delayed
  BY <1>1, HeldNotDelayed
<1>3. \A i \in delayed : msg'[i] = msg[i]
  BY <1>2 DEF TypeInv, TypeOK, AckCommit, NackToDLQ, moveToDLQ
<1> QED
  BY <1>1, <1>3, WakeFrame

LEMMA WakeComplete ==
  ASSUME TypeInv, OwnerInv, WakeInv, NEW p \in Clients, Complete(p)
  PROVE  WakeInv'
<1>1. CASE DuplicateReturn(p)
  BY <1>1, WakeFrame DEF DuplicateReturn, heapVars, leaseVars, loopVars, procVars
<1>2. CASE EnqueueUndo(p)
  BY <1>2, WakeFrame DEF EnqueueUndo, heapVars, leaseVars, loopVars, procVars
<1>3. CASE DequeueUndo(p)
  BY <1>3, WakeFrame DEF DequeueUndo, leaseVars, loopVars, procVars
<1>4. CASE SettleUndo(p)
  BY <1>4, WakeFrame DEF SettleUndo, heapVars, loopVars, procVars
<1> QED
  BY <1>1, <1>2, <1>3, <1>4, WakeEnqueueCommit, WakeNackCommit, WakeDequeueCommit,
     WakeRemove DEF Complete

----------------------------------------------------------------------------
(* The maintenance goroutine.                                              *)

\* It parks on the earliest deadline, and no deadline is 0.
LEMMA WakeNextDeadline ==
  ASSUME TypeInv, WakeInv, nextDeadline
  PROVE  WakeInv'
<1>1. UNCHANGED <<msg, delayed, leases, mode>>
  BY DEF nextDeadline, heapVars, leaseVars, procVars
<1>2. Deadlines' = Deadlines
  BY <1>1 DEF Deadlines
<1>3. 0 \notin Deadlines
  BY DEF WakeInv, TypeInv, TypeOK, Deadlines, Entries, Deadline
<1>4. IF armed' = 0 THEN Deadlines' = {} ELSE \A d \in Deadlines' : armed' <= d
  BY <1>2, <1>3 DEF nextDeadline
<1> QED
  BY <1>1, <1>4 DEF WakeInv, NoMissedDeadline

\* What Maintain has in its hands is not delayed.
LEMMA PoppedNotDelayed ==
  ASSUME TypeInv, OwnerInv, mt.pc # "off"
  PROVE  \A i \in idsOf(mt.requeue) \cup idsOf(mt.toDLQ) : i \notin delayed
<1>1. OwnedOnce
  BY DEF TypeInv, MaintainerOK, OwnerInv
<1> QED
  BY <1>1, MaintainerHolding DEF OwnedOnce

LEMMA WakeMaintenance ==
  ASSUME TypeInv, OwnerInv, WakeInv, Maintenance
  PROVE  WakeInv'
<1>1. CASE TakeWake
  BY <1>1, WakeBusy DEF TakeWake, Parked, heapVars, procVars
<1>2. ASSUME NEW now, Maintain(now)
      PROVE  WakeInv'
  <2>1. delayed' \subseteq delayed /\ UNCHANGED <<msg, mode>>
    BY <1>2 DEF Maintain, procVars
  <2>2. mt'.pc # "wait"
    BY <1>2 DEF Maintain, After
  <2> QED
    BY <2>1, <2>2, WakeBusy
<1>3. CASE ExpireCommit
  <2>1. UNCHANGED <<delayed, mode>> /\ mt.pc = "expire" /\ msg' = returnedBy(rec[Maintainer])
    BY <1>3 DEF ExpireCommit, procVars
  <2>2. mt'.pc # "wait"
    BY <1>3 DEF ExpireCommit, After, TypeInv, TypeOK
  <2>3. rec[Maintainer].ids = idsOf(mt.requeue)
    BY <2>1 DEF TypeInv, MaintainerOK
  <2>4. \A i \in delayed : msg'[i] = msg[i]
    BY <2>1, <2>3, PoppedNotDelayed, Zenon DEF TypeInv, TypeOK, returnedBy
  <2> QED
    BY <2>1, <2>2, <2>4, WakeBusy
<1>4. CASE ExpireUndo
  <2>1. mt'.pc # "wait"
    BY <1>4 DEF ExpireUndo, After, TypeInv, TypeOK
  <2> QED
    BY <1>4, <2>1, WakeBusy DEF ExpireUndo, heapVars, procVars
<1>5. CASE SendDLQ
  <2>1. mt'.pc # "wait"
    BY <1>5 DEF SendDLQ, TypeInv, TypeOK
  <2> QED
    BY <1>5, <2>1, WakeBusy DEF SendDLQ, heapVars, procVars
<1>6. CASE DLQCommit
  <2>1. UNCHANGED <<delayed, mode>> /\ mt.pc = "dlq" /\ moveToDLQ(idsOf(mt.toDLQ))
    BY <1>6 DEF DLQCommit, heapVars, procVars
  <2>2. mt'.pc # "wait"
    BY <1>6 DEF DLQCommit, Parked, After
  <2>3. \A i \in delayed : msg'[i] = msg[i]
    BY <2>1, PoppedNotDelayed DEF TypeInv, TypeOK, moveToDLQ
  <2> QED
    BY <2>1, <2>2, <2>3, WakeBusy
<1>7. CASE DLQUndo
  BY <1>7, WakeBusy DEF DLQUndo, Parked, heapVars, procVars
<1> QED
  BY <1>1, <1>2, <1>3, <1>4, <1>5, <1>6, <1>7, WakeNextDeadline DEF Maintenance

----------------------------------------------------------------------------
(* Everything else.                                                        *)

LEMMA WakeOthers ==
  ASSUME WakeInv, (\E now \in Readings : Stats(now)) \/ Tick \/ Writer
  PROVE  WakeInv'
<1>1. CASE \E now \in Readings : Stats(now)
  BY <1>1, WakeFrame DEF Stats, leaseVars, loopVars, procVars
<1>2. CASE Tick
  BY <1>2, WakeFrame DEF Tick, heapVars, leaseVars, loopVars
<1>3. CASE Writer
  BY <1>3, WakeFrame DEF Writer, queueVars, heapVars, leaseVars, loopVars, procVars
<1> QED
  BY <1>1, <1>2, <1>3

LEMMA WakeCrash ==
  ASSUME Crash
  PROVE  WakeInv'
<1>1. mt'.pc = "off" /\ delayed' = {}
  BY DEF Crash, newQueue, Parked
<1> QED
  BY <1>1 DEF WakeInv, NoMissedDeadline

LEMMA WakeApply ==
  ASSUME WakeInv, mode = "replay", Applied
  PROVE  WakeInv'
<1>1. UNCHANGED <<delayed, leases, armed, wake, mt>>
  BY DEF Applied, heapVars, leaseVars, loopVars
<1>2. delayed = {}
  BY DEF WakeInv
<1> QED
  BY <1>1, <1>2, WakeFrame

LEMMA WakeFinalize ==
  ASSUME TypeInv, Finalize
  PROVE  WakeInv'
<1>1. /\ mt'.pc = "loop" /\ mode' = "up"
      /\ delayed' = {i \in msgs : msg[i].visAt > clock}
      /\ msg' = [i \in Ids |-> IF i \in leased /\ i \in msgs THEN [msg[i] EXCEPT !.token = 0]
                               ELSE msg[i]]
  BY DEF Finalize, Parked
<1>2. \A i \in msgs : i \in Ids /\ msg[i] \in Messages /\ clock \in Nat
  BY DEF TypeInv, TypeOK, Time
<1>3. \A i \in msgs : msg'[i].visAt = msg[i].visAt /\ msg[i].visAt \in Nat
  BY <1>1, <1>2 DEF Messages, Time
<1>4. \A i \in delayed' : msg'[i].visAt # 0
  BY <1>1, <1>2, <1>3
<1> QED
  BY <1>1, <1>4 DEF WakeInv, NoMissedDeadline

LEMMA WakeNext ==
  ASSUME TypeInv, OwnerInv, WakeInv, Next
  PROVE  WakeInv'
<1>1. CASE QueueNext
  BY <1>1, WakeRequest, WakeComplete, WakeMaintenance, WakeOthers DEF QueueNext
<1>2. CASE Recovery
  <2>1. CASE ApplyEnqueue \/ ApplyLease \/ ApplyAck \/ ApplyNack \/ ApplyExpire \/ ApplyDlqMove
    BY <2>1, WakeApply DEF ApplyEnqueue, ApplyLease, ApplyAck, ApplyNack, ApplyExpire,
       ApplyReturn, ApplyDlqMove, Replaying
  <2> QED
    BY <1>2, <2>1, WakeFinalize DEF Recovery
<1> QED
  BY <1>1, <1>2, WakeCrash DEF Next

\* Parked with an empty wake channel, the maintenance goroutine is armed for the
\* earliest deadline there is, or there is none: nextDeadline and wakeIfSooner
\* lose no wake-up, whatever the clock readings, failures and crashes.
THEOREM NoMissedDeadlineCorrect == Spec => []NoMissedDeadline
<1>1. Init => WakeInv
  BY DEF Init, QueueInit, Parked, WakeInv, NoMissedDeadline
<1>2. TypeInv /\ OwnerInv /\ WakeInv /\ [Next]_vars => WakeInv'
  <2>1. ASSUME WakeInv, UNCHANGED vars
        PROVE  WakeInv'
    BY <2>1, WakeFrame DEF vars, queueVars, heapVars, leaseVars, loopVars, procVars
  <2> QED
    BY <2>1, WakeNext
<1>3. WakeInv => NoMissedDeadline
  BY DEF WakeInv
<1> QED
  BY <1>1, <1>2, <1>3, TypeInvariant, OwnerInvariant, PTL DEF Spec
============================================================================
