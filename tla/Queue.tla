------------------------------- MODULE Queue -------------------------------
(***************************************************************************)
(* One queue of internal/queue while the process is up: the in-memory      *)
(* state of type Queue, its operations and its maintenance goroutine, over *)
(* the log of DurableLog.                                                  *)
(*                                                                         *)
(* Every operation that appends is two critical sections of q.mu with the  *)
(* append between them, hence a reserve action (before the append) and a   *)
(* commit or undo action (after it). Calls that return an error before     *)
(* reserving change nothing and are not actions. A heap is the set of its  *)
(* elements; message bodies, leaseExpires (written, never read) and        *)
(* logging are left out. The leases of one batch share a token, which is   *)
(* only ever compared with other tokens of the same message.               *)
(***************************************************************************)
EXTENDS DurableLog, Order

CONSTANTS
  Ids, NoId,           \* message ids (randomID never repeats one)
  Keys, NoKey,         \* dedup keys; NoKey is the empty string
  Maintainer,          \* the caller that is the maintenance goroutine
  Lifo, PriorityOn, DelayOn, DLQ,      \* Config
  VisibilityTimeout, MaxAttempts,      \* Config
  DedupTTL,            \* DedupTTL
  MaxItems,            \* items that fit in one record (wal's maxRecordSize)
  Priorities, Delays,  \* inputs of Enqueue and Nack
  MaxN,                \* largest n a consumer asks for
  Lag,                 \* how stale a clock reading taken before q.mu may be
  AppendTime,          \* how long an enqueue may wait for its append
  Horizon,             \* bound: last tick of the clock, latest deadline
  MaxTokens,           \* bound: leases granted
  MaxDups              \* bound: duplicates counted

VARIABLES
  mode,                \* "up", or what recovery is doing
  clock,               \* unix milliseconds, from 1 (0 means "no deadline")
  booted,              \* clock when this process began to serve
  msg,                 \* the Message objects
  msgs,                \* keys of q.msgs
  seq, ready, delayed, inflight, leases, dlq, dedup, cnt, armed, wake,
  entryErr,            \* ids whose dedupEntry was closed with an error
  job,                 \* what each client goroutine is doing
  mt,                  \* the maintenance goroutine
  fresh, tokens,       \* ids and lease tokens not handed out yet / so far
  granted,             \* history: leases delivered to consumers
  confirmed,           \* history: ids answered with 201
  acked                \* history: ids answered with 204 to an ack

procVars == <<mode, clock, booted>>
heapVars == <<ready, delayed>>
leaseVars == <<inflight, leases>>
loopVars == <<armed, wake, mt>>
histVars == <<granted, confirmed, acked>>
supplyVars == <<fresh, tokens>>
dedupVars == <<dedup, entryErr>>
queueVars == <<procVars, msg, msgs, seq, heapVars, leaseVars, dlq, dedupVars,
               cnt, loopVars, job, supplyVars, histVars>>

Clients == Callers \ {Maintainer}

ASSUME QueueAssumption ==
  /\ Maintainer \in Callers
  /\ IsFiniteSet(Ids)
  /\ NoId \notin Ids
  /\ NoKey \notin Keys
  /\ {Lifo, PriorityOn, DelayOn, DLQ} \subseteq BOOLEAN
  /\ VisibilityTimeout \in Nat \ {0}
  /\ MaxAttempts \in Nat \ {0}
  /\ {DedupTTL, Lag, AppendTime, Horizon, MaxTokens, MaxDups} \subseteq Nat
  /\ Priorities \subseteq Int
  /\ Delays \subseteq Nat
  /\ MaxN \in Nat \ {0}
  /\ MaxItems \in Nat
  /\ MaxN <= MaxItems

NoMsg == [seq |-> 0, prio |-> 0, enqAt |-> 0, visAt |-> 0, attempts |-> 0,
          token |-> 0, key |-> NoKey]
NoEntry == [id |-> NoId, exp |-> 0]
NoJob == [op |-> "none", id |-> NoId, at |-> 0]
NoCnt == [enqueued |-> 0, dequeued |-> 0, acked |-> 0, nacked |-> 0,
          expired |-> 0, dlqMoved |-> 0, deduped |-> 0]
Parked(pc) == [pc |-> pc, requeue |-> {}, toDLQ |-> {}, err |-> FALSE]

QueueInit ==
  /\ LogInit
  /\ mode = "up"
  /\ clock = 1 /\ booted = 1
  /\ msg = [i \in Ids |-> NoMsg]
  /\ msgs = {} /\ ready = {} /\ delayed = {} /\ inflight = {}
  /\ leases = {} /\ dlq = {} /\ entryErr = {}
  /\ seq = 0
  /\ dedup = [k \in Keys |-> NoEntry]
  /\ cnt = NoCnt
  /\ armed = 0 /\ wake = FALSE
  /\ job = [p \in Clients |-> NoJob]
  /\ mt = Parked("loop")
  /\ fresh = Ids /\ tokens = 0
  /\ granted = {} /\ confirmed = {} /\ acked = {}

----------------------------------------------------------------------------
(* Records (record.go) and helpers that run under q.mu.                    *)

EnqueueRec(i, m) ==
  [t |-> "ENQUEUE", ids |-> {i}, seq |-> m.seq, prio |-> m.prio,
   enqAt |-> m.enqAt, visAt |-> m.visAt, key |-> m.key]
LeaseRec(S, tok, exp, att) ==
  [t |-> "LEASE", ids |-> S, tok |-> tok, exp |-> exp, att |-> att]
AckRec(i) == [t |-> "ACK", ids |-> {i}]
NackRec(i, vis) == [t |-> "NACK", ids |-> {i}, visAt |-> vis]
ExpireRec(S, vis) == [t |-> "LEASE_EXPIRE", ids |-> S, visAt |-> vis]
DlqRec(S) == [t |-> "DLQ_MOVE", ids |-> S]

\* appendJSON: a record whose items do not fit never reaches the writer.
AppendJSON(p, r) ==
  IF Cardinality(r.ids) > MaxItems THEN LogReject(p, r) ELSE LogAppend(p, r)

\* Values q.now() may return to a caller that then waits for q.mu.
Readings == {t \in booted .. clock : t + Lag >= clock}

\* Mutant: a loop parked on a later deadline is not woken for a sooner one.
wakeIfSooner_OnlyFirst(deadline) == wake' = (wake \/ armed = 0)

\* Mutant: a loop parked without a deadline is not woken for the first one.
wakeIfSooner_NotFirst(deadline) == wake' = (wake \/ deadline < armed)

wakeIfSooner(deadline) == wake' = (wake \/ armed = 0 \/ deadline < armed)

\* insert(m, now) for the message with id i.
insert(i, m, now) ==
  /\ msgs' = msgs \cup {i}
  /\ msg' = [msg EXCEPT ![i] = m]
  /\ \/ /\ m.visAt > now
        /\ delayed' = delayed \cup {i}
        /\ wakeIfSooner(m.visAt)
        /\ UNCHANGED ready
     \/ /\ m.visAt <= now
        /\ ready' = ready \cup {i}
        /\ UNCHANGED <<delayed, wake>>

\* Mutant: a message due this very millisecond waits.
Due_Strict(now) == {i \in delayed : msg[i].visAt < now}

\* What promoteDue(now) moves from the delayed heap to the ready heap.
Due(now) == {i \in delayed : msg[i].visAt <= now}

\* Mutant: the message stays in q.msgs.
moveToDLQ_StaysLive(S) ==
  /\ dlq' = IF DLQ THEN dlq \cup S ELSE dlq
  /\ UNCHANGED <<msgs, msg>>

\* moveToDLQ for every message of S.
moveToDLQ(S) ==
  /\ msgs' = msgs \ S
  /\ dlq' = IF DLQ THEN dlq \cup S ELSE dlq
  /\ msg' = [i \in Ids |-> IF i \notin S THEN msg[i]
                           ELSE IF DLQ THEN [msg[i] EXCEPT !.token = 0] ELSE NoMsg]

\* Mutant: any token of the message will do.
takeLeased_AnyToken(i, tok) ==
  /\ i \in inflight
  /\ inflight' = inflight \ {i}

takeLeased(i, tok) ==
  /\ i \in inflight
  /\ msg[i].token = tok
  /\ inflight' = inflight \ {i}

\* Mutant: one delivery too many.
exhausted_OneMore(m) == m.attempts > MaxAttempts

exhausted(m) == m.attempts >= MaxAttempts

\* The Message a reserved or replayed ENQUEUE record describes.
MessageOf(r) ==
  [NoMsg EXCEPT !.seq = r.seq, !.prio = r.prio, !.enqAt = r.enqAt,
                !.visAt = r.visAt, !.key = r.key]

\* The messages once the LEASE record r is applied.
leasedBy(r) ==
  [i \in Ids |-> IF i \notin r.ids THEN msg[i]
                 ELSE [msg[i] EXCEPT !.attempts = r.att[i], !.token = r.tok]]

\* Mutant: the visible_at the record carries is dropped.
returnedBy_NoVisibleAt(r) ==
  [i \in Ids |-> IF i \notin r.ids THEN msg[i] ELSE [msg[i] EXCEPT !.token = 0]]

\* The messages once the NACK or LEASE_EXPIRE record r is applied.
returnedBy(r) ==
  [i \in Ids |-> IF i \notin r.ids THEN msg[i]
                 ELSE [msg[i] EXCEPT !.token = 0, !.visAt = r.visAt]]

----------------------------------------------------------------------------
(* Enqueue.                                                                *)

Start(p, op, i, now) ==
  /\ job[p].op = "none"
  /\ job' = [job EXCEPT ![p] = [op |-> op, id |-> i, at |-> now]]
Finish(p) == job' = [job EXCEPT ![p] = NoJob]

\* Mutant: a claim lapses one tick early.
claimed_OneEarly(k, now) == k \in Keys /\ dedup[k].exp > now + 1

\* A claim on dedup key k is in force.
claimed(k, now) == k \in Keys /\ dedup[k].exp > now

\* The key collapses the call onto an earlier message; the caller then waits
\* on that message's entry.
EnqueueDuplicate(p, k, now) ==
  /\ mode = "up"
  /\ claimed(k, now)
  /\ cnt.deduped < MaxDups
  /\ cnt' = [cnt EXCEPT !.deduped = @ + 1]
  /\ Start(p, "duplicate", dedup[k].id, 0)
  /\ UNCHANGED <<logVars, procVars, msg, msgs, seq, heapVars, leaseVars, dlq,
                 dedupVars, loopVars, supplyVars, histVars>>

\* Mutant: the duplicate does not wait for the original's fsync.
Published_AtOnce(i) == TRUE

\* The entry's ready channel is closed.
Published(i) == \A p \in Clients : ~(job[p].op = "enqueue" /\ job[p].id = i)

DuplicateReturn(p) ==
  /\ job[p].op = "duplicate"
  /\ Published(job[p].id)
  /\ confirmed' = IF job[p].id \in entryErr THEN confirmed
                  ELSE confirmed \cup {job[p].id}
  /\ Finish(p)
  /\ UNCHANGED <<logVars, procVars, msg, msgs, seq, heapVars, leaseVars, dlq,
                 dedupVars, cnt, loopVars, supplyVars, granted, acked>>

EnqueueReserve(p, i, prio, delay, k, now) ==
  LET m == [NoMsg EXCEPT !.seq = seq + 1,
                         !.prio = IF PriorityOn THEN prio ELSE 0,
                         !.enqAt = now,
                         !.visAt = IF DelayOn THEN now + delay ELSE now,
                         !.key = k]
  IN /\ mode = "up"
     /\ i \in fresh
     /\ m.visAt <= Horizon
     /\ ~claimed(k, now)
     /\ seq' = seq + 1
     /\ fresh' = fresh \ {i}
     /\ dedup' = IF k \in Keys
                 THEN [dedup EXCEPT ![k] = [id |-> i, exp |-> now + DedupTTL]]
                 ELSE dedup
     /\ Start(p, "enqueue", i, 0)
     /\ AppendJSON(p, EnqueueRec(i, m))
     /\ UNCHANGED <<procVars, msg, msgs, heapVars, leaseVars, dlq, entryErr,
                    cnt, loopVars, tokens, histVars>>

\* Visible only now, with the clock read again under q.mu.
EnqueueCommit(p) ==
  /\ job[p].op = "enqueue"
  /\ phase[p] = "ok"
  /\ LogReturn(p)
  /\ insert(job[p].id, MessageOf(rec[p]), clock)
  /\ cnt' = [cnt EXCEPT !.enqueued = @ + 1]
  /\ confirmed' = confirmed \cup {job[p].id}
  /\ Finish(p)
  /\ UNCHANGED <<procVars, seq, leaseVars, dlq, dedupVars, armed, mt,
                 supplyVars, granted, acked>>

\* The claim is withdrawn whoever holds it by now.
EnqueueUndo(p) ==
  /\ job[p].op = "enqueue"
  /\ phase[p] = "err"
  /\ LogReturn(p)
  /\ dedup' = IF rec[p].key \in Keys THEN [dedup EXCEPT ![rec[p].key] = NoEntry]
              ELSE dedup
  /\ entryErr' = IF rec[p].key \in Keys THEN entryErr \cup {job[p].id} ELSE entryErr
  /\ Finish(p)
  /\ UNCHANGED <<procVars, msg, msgs, seq, heapVars, leaseVars, dlq, cnt,
                 loopVars, supplyVars, histVars>>

----------------------------------------------------------------------------
(* Dequeue. One action per round of its polling loop: a round that finds   *)
(* nothing ready has promoted nothing either, and only sleeps.             *)

DequeueReserve(p, n, now) ==
  LET visible == ready \cup Due(now)
  IN /\ mode = "up"
     /\ tokens < MaxTokens
     /\ now + VisibilityTimeout <= Horizon
     /\ \E S \in SUBSET visible :
          /\ S # {}
          /\ popped(S, visible, n, msg, Lifo)
          /\ ready' = visible \ S
          /\ AppendJSON(p, LeaseRec(S, tokens + 1, now + VisibilityTimeout,
               [i \in Ids |-> IF i \in S THEN msg[i].attempts + 1 ELSE 0]))
     /\ delayed' = delayed \ Due(now)
     /\ tokens' = tokens + 1
     /\ Start(p, "dequeue", NoId, 0)
     /\ UNCHANGED <<procVars, msg, msgs, seq, leaseVars, dlq, dedupVars, cnt,
                    loopVars, fresh, histVars>>

DequeueCommit(p) ==
  LET r == rec[p]
  IN /\ job[p].op = "dequeue"
     /\ phase[p] = "ok"
     /\ LogReturn(p)
     /\ msg' = leasedBy(r)
     /\ inflight' = inflight \cup r.ids
     /\ leases' = leases \cup [id : r.ids, token : {r.tok}, exp : {r.exp}]
     /\ cnt' = [cnt EXCEPT !.dequeued = @ + Cardinality(r.ids)]
     /\ wakeIfSooner(r.exp)
     /\ granted' = granted \cup (r.ids \X {r.tok})
     /\ Finish(p)
     /\ UNCHANGED <<procVars, msgs, seq, heapVars, dlq, dedupVars, armed, mt,
                    supplyVars, confirmed, acked>>

DequeueUndo(p) ==
  /\ job[p].op = "dequeue"
  /\ phase[p] = "err"
  /\ LogReturn(p)
  /\ ready' = ready \cup rec[p].ids
  /\ Finish(p)
  /\ UNCHANGED <<procVars, msg, msgs, seq, delayed, leaseVars, dlq, dedupVars,
                 cnt, loopVars, supplyVars, histVars>>

----------------------------------------------------------------------------
(* Ack and Nack, by a consumer that presents the token it was given.       *)

AckReserve(p, i, tok) ==
  /\ mode = "up"
  /\ <<i, tok>> \in granted
  /\ takeLeased(i, tok)
  /\ Start(p, "ack", i, 0)
  /\ AppendJSON(p, AckRec(i))
  /\ UNCHANGED <<procVars, msg, msgs, seq, heapVars, leases, dlq, dedupVars,
                 cnt, loopVars, supplyVars, histVars>>

AckCommit(p) ==
  /\ job[p].op = "ack"
  /\ phase[p] = "ok"
  /\ LogReturn(p)
  /\ msgs' = msgs \ {job[p].id}
  /\ msg' = [msg EXCEPT ![job[p].id] = NoMsg]
  /\ cnt' = [cnt EXCEPT !.acked = @ + 1]
  /\ acked' = acked \cup {job[p].id}
  /\ Finish(p)
  /\ UNCHANGED <<procVars, seq, heapVars, leaseVars, dlq, dedupVars, loopVars,
                 supplyVars, granted, confirmed>>

NackReserve(p, i, tok, delay, now) ==
  /\ mode = "up"
  /\ <<i, tok>> \in granted
  /\ now + delay <= Horizon
  /\ takeLeased(i, tok)
  /\ Start(p, "nack", i, now)
  /\ AppendJSON(p, IF exhausted(msg[i]) THEN DlqRec({i})
                   ELSE NackRec(i, now + delay))
  /\ UNCHANGED <<procVars, msg, msgs, seq, heapVars, leases, dlq, dedupVars,
                 cnt, loopVars, supplyVars, histVars>>

\* Requeued against the clock reading Nack began with.
NackCommit(p) ==
  LET i == job[p].id
  IN /\ job[p].op = "nack"
     /\ phase[p] = "ok"
     /\ rec[p].t = "NACK"
     /\ LogReturn(p)
     /\ insert(i, [msg[i] EXCEPT !.token = 0, !.visAt = rec[p].visAt], job[p].at)
     /\ cnt' = [cnt EXCEPT !.nacked = @ + 1]
     /\ Finish(p)
     /\ UNCHANGED <<procVars, seq, leaseVars, dlq, dedupVars, armed, mt,
                    supplyVars, histVars>>

NackToDLQ(p) ==
  /\ job[p].op = "nack"
  /\ phase[p] = "ok"
  /\ rec[p].t = "DLQ_MOVE"
  /\ LogReturn(p)
  /\ moveToDLQ({job[p].id})
  /\ cnt' = [cnt EXCEPT !.dlqMoved = @ + 1]
  /\ Finish(p)
  /\ UNCHANGED <<procVars, seq, heapVars, leaseVars, dedupVars, loopVars,
                 supplyVars, histVars>>

\* restoreLeased: in flight again, but nothing puts the lease entry back if
\* Maintain popped it meanwhile.
SettleUndo(p) ==
  /\ job[p].op \in {"ack", "nack"}
  /\ phase[p] = "err"
  /\ LogReturn(p)
  /\ inflight' = inflight \cup {job[p].id}
  /\ Finish(p)
  /\ UNCHANGED <<procVars, msg, msgs, seq, heapVars, leases, dlq, dedupVars,
                 cnt, loopVars, supplyVars, histVars>>

----------------------------------------------------------------------------
(* Stats promotes what is due; the rest of it only reads.                  *)

Stats(now) ==
  /\ mode = "up"
  /\ Due(now) # {}
  /\ ready' = ready \cup Due(now)
  /\ delayed' = delayed \ Due(now)
  /\ UNCHANGED <<logVars, procVars, msg, msgs, seq, leaseVars, dlq, dedupVars,
                 cnt, loopVars, job, supplyVars, histVars>>

----------------------------------------------------------------------------
(* The maintenance goroutine: arm, park, maintain. Parked on deadline      *)
(* armed, it is released by the timer or by the wake channel.              *)

\* Mutant: the delayed heap is forgotten.
Deadlines_LeasesOnly == {e.exp : e \in leases}

Deadlines == {msg[i].visAt : i \in delayed} \cup {e.exp : e \in leases}

nextDeadline ==
  /\ mode = "up"
  /\ mt.pc = "loop"
  /\ \/ Deadlines = {} /\ armed' = 0
     \/ \E d \in Deadlines : (\A e \in Deadlines : d <= e) /\ armed' = d
  /\ mt' = Parked("wait")
  /\ UNCHANGED <<logVars, procVars, msg, msgs, seq, heapVars, leaseVars, dlq,
                 dedupVars, cnt, wake, job, supplyVars, histVars>>

TakeWake ==
  /\ mt.pc = "wait"
  /\ wake
  /\ wake' = FALSE
  /\ mt' = Parked("loop")
  /\ UNCHANGED <<logVars, procVars, msg, msgs, seq, heapVars, leaseVars, dlq,
                 dedupVars, cnt, armed, job, supplyVars, histVars>>

idsOf(E) == {e.id : e \in E}

\* Where Maintain goes once the records it still has to append are known.
After(toDLQ, err) ==
  IF toDLQ # {} THEN "send" ELSE IF err THEN "stopped" ELSE "loop"

\* Mutant: q.msgs is consulted where q.inflight should be.
held_Live(E) == {e \in E : e.id \in msgs /\ msg[e.id].token = e.token}

\* Mutant: the token is not compared.
held_AnyToken(E) == {e \in E : e.id \in inflight}

\* The entries of E whose lease is still the one that owns its message; the
\* others were acked, nacked or superseded by a later lease.
held(E) == {e \in E : e.id \in inflight /\ msg[e.id].token = e.token}

\* The timer fires: Maintain up to its first append.
Maintain(now) ==
  LET expired == {e \in leases : e.exp <= now}
      toDLQ   == {e \in held(expired) : exhausted(msg[e.id])}
      requeue == held(expired) \ toDLQ
  IN /\ mt.pc = "wait"
     /\ armed # 0 /\ armed <= now
     /\ ready' = ready \cup Due(now)
     /\ delayed' = delayed \ Due(now)
     /\ leases' = leases \ expired
     /\ inflight' = inflight \ idsOf(held(expired))
     /\ mt' = [pc |-> IF requeue # {} THEN "expire" ELSE After(toDLQ, FALSE),
               requeue |-> requeue, toDLQ |-> toDLQ, err |-> FALSE]
     /\ IF requeue # {} THEN AppendJSON(Maintainer, ExpireRec(idsOf(requeue), now))
                        ELSE UNCHANGED logVars
     /\ UNCHANGED <<procVars, msg, msgs, seq, dlq, dedupVars, cnt, armed, wake,
                    job, supplyVars, histVars>>

\* The LEASE_EXPIRE append returned: requeue, or restoreLeasedEntry.
ExpireCommit ==
  LET r == rec[Maintainer]
  IN /\ mt.pc = "expire"
     /\ phase[Maintainer] = "ok"
     /\ LogReturn(Maintainer)
     /\ msg' = returnedBy(r)
     /\ msgs' = msgs \cup r.ids
     /\ ready' = ready \cup r.ids
     /\ cnt' = [cnt EXCEPT !.expired = @ + Cardinality(r.ids)]
     /\ mt' = [mt EXCEPT !.pc = After(mt.toDLQ, FALSE), !.requeue = {}]
     /\ UNCHANGED <<procVars, seq, delayed, leaseVars, dlq, dedupVars, armed,
                    wake, job, supplyVars, histVars>>

\* Mutant: the popped lease entry is not pushed back.
ExpireUndo_NoEntry ==
  /\ mt.pc = "expire"
  /\ phase[Maintainer] = "err"
  /\ LogReturn(Maintainer)
  /\ inflight' = inflight \cup idsOf(mt.requeue)
  /\ mt' = [mt EXCEPT !.pc = After(mt.toDLQ, TRUE), !.requeue = {}, !.err = TRUE]
  /\ UNCHANGED <<procVars, msg, msgs, seq, heapVars, leases, dlq, dedupVars, cnt,
                 armed, wake, job, supplyVars, histVars>>

ExpireUndo ==
  /\ mt.pc = "expire"
  /\ phase[Maintainer] = "err"
  /\ LogReturn(Maintainer)
  /\ inflight' = inflight \cup idsOf(mt.requeue)
  /\ leases' = leases \cup mt.requeue
  /\ mt' = [mt EXCEPT !.pc = After(mt.toDLQ, TRUE), !.requeue = {}, !.err = TRUE]
  /\ UNCHANGED <<procVars, msg, msgs, seq, heapVars, dlq, dedupVars, cnt, armed,
                 wake, job, supplyVars, histVars>>

SendDLQ ==
  /\ mt.pc = "send"
  /\ AppendJSON(Maintainer, DlqRec(idsOf(mt.toDLQ)))
  /\ mt' = [mt EXCEPT !.pc = "dlq"]
  /\ UNCHANGED <<procVars, msg, msgs, seq, heapVars, leaseVars, dlq, dedupVars,
                 cnt, armed, wake, job, supplyVars, histVars>>

\* The DLQ_MOVE append returned. An error of either append ends the goroutine.
DLQCommit ==
  LET n == Cardinality(rec[Maintainer].ids)
  IN /\ mt.pc = "dlq"
     /\ phase[Maintainer] = "ok"
     /\ LogReturn(Maintainer)
     /\ moveToDLQ(idsOf(mt.toDLQ))
     /\ cnt' = [cnt EXCEPT !.expired = @ + n, !.dlqMoved = @ + n]
     /\ mt' = Parked(After({}, mt.err))
     /\ UNCHANGED <<procVars, seq, heapVars, leaseVars, dedupVars, armed, wake,
                    job, supplyVars, histVars>>

DLQUndo ==
  /\ mt.pc = "dlq"
  /\ phase[Maintainer] = "err"
  /\ LogReturn(Maintainer)
  /\ inflight' = inflight \cup idsOf(mt.toDLQ)
  /\ leases' = leases \cup mt.toDLQ
  /\ mt' = Parked("stopped")
  /\ UNCHANGED <<procVars, msg, msgs, seq, heapVars, dlq, dedupVars, cnt, armed,
                 wake, job, supplyVars, histVars>>

----------------------------------------------------------------------------
(* The clock and the writer goroutine go on whatever the queue does.       *)

Tick ==
  /\ clock < Horizon
  /\ \A p \in Clients : job[p].op = "enqueue" => clock < rec[p].enqAt + AppendTime
  /\ clock' = clock + 1
  /\ UNCHANGED <<logVars, mode, booted, msg, msgs, seq, heapVars, leaseVars, dlq,
                 dedupVars, cnt, loopVars, job, supplyVars, histVars>>

Writer == LogStep /\ UNCHANGED queueVars

\* What a client starts.
Request(p) ==
  \/ \E now \in Readings, k \in Keys : EnqueueDuplicate(p, k, now)
  \/ \E now \in Readings, i \in fresh, prio \in Priorities, delay \in Delays,
        k \in Keys \cup {NoKey} : EnqueueReserve(p, i, prio, delay, k, now)
  \/ \E now \in Readings, n \in 1 .. MaxN : DequeueReserve(p, n, now)
  \/ \E g \in granted : AckReserve(p, g[1], g[2])
  \/ \E g \in granted, delay \in Delays, now \in Readings :
        NackReserve(p, g[1], g[2], delay, now)

\* What the code does for a client once its append, or the entry it waits
\* on, is settled.
Complete(p) ==
  \/ DuplicateReturn(p)
  \/ EnqueueCommit(p) \/ EnqueueUndo(p)
  \/ DequeueCommit(p) \/ DequeueUndo(p)
  \/ AckCommit(p) \/ NackCommit(p) \/ NackToDLQ(p) \/ SettleUndo(p)

\* A step of the maintenance goroutine.
Maintenance ==
  \/ nextDeadline \/ TakeWake
  \/ \E now \in Readings : Maintain(now)
  \/ ExpireCommit \/ ExpireUndo \/ SendDLQ \/ DLQCommit \/ DLQUndo

QueueNext ==
  \/ \E p \in Clients : Request(p) \/ Complete(p)
  \/ \E now \in Readings : Stats(now)
  \/ Maintenance
  \/ Tick
  \/ Writer
============================================================================
