--------------------------- MODULE QueueRecovery ---------------------------
(***************************************************************************)
(* The queue across process deaths: Manager.Open folds the log back into   *)
(* memory one record at a time (apply), finalize rebuilds the heaps, and   *)
(* the maintenance goroutine starts. A record apply rejects makes Open     *)
(* fail, and every later Open of the same log fails the same way.          *)
(*                                                                         *)
(* The log here is the one queue's: its QUEUE_CREATE record is taken as    *)
(* already replayed.                                                       *)
(***************************************************************************)
EXTENDS Queue

CONSTANTS
  MaxCrashes           \* bound: deaths of a serving process

VARIABLES
  pos,                 \* records replayed so far
  leased,              \* replayState.leased
  crashes              \* deaths of a serving process so far

recoveryVars == <<pos, leased, crashes>>
vars == <<logVars, queueVars, recoveryVars>>

ASSUME RecoveryAssumption == MaxCrashes \in Nat

Init ==
  /\ QueueInit
  /\ pos = 0 /\ leased = {} /\ crashes = 0

\* Memory is lost; newQueue gives every field its empty value.
newQueue ==
  /\ msg' = [i \in Ids |-> NoMsg]
  /\ msgs' = {} /\ ready' = {} /\ delayed' = {} /\ inflight' = {}
  /\ leases' = {} /\ dlq' = {} /\ entryErr' = {}
  /\ seq' = 0
  /\ dedup' = [k \in Keys |-> NoEntry]
  /\ cnt' = NoCnt
  /\ armed' = 0 /\ wake' = FALSE
  /\ job' = [p \in Clients |-> NoJob]
  /\ mt' = Parked("off")

\* The process dies while it serves, or, any number of times, while it replays.
Crash ==
  /\ \/ mode = "up" /\ crashes < MaxCrashes /\ crashes' = crashes + 1
     \/ mode = "replay" /\ UNCHANGED crashes
  /\ LogKill \/ LogPowerLoss
  /\ newQueue
  /\ mode' = "replay"
  /\ pos' = 0 /\ leased' = {}
  /\ UNCHANGED <<clock, booted, supplyVars, histVars>>

----------------------------------------------------------------------------
(* apply, one action per record type. r is the next record of the log.     *)

Replaying(t) ==
  /\ mode = "replay"
  /\ pos < Len(disk)
  /\ disk[pos + 1].t = t

\* A record about a message apply does not know ends the replay, and Open,
\* with an error; what the maps hold by then is discarded.
Known(r) == mode' = IF r.ids \subseteq msgs THEN "replay" ELSE "failed"

Applied ==
  /\ pos' = pos + 1
  /\ UNCHANGED <<logVars, clock, booted, heapVars, leaseVars, entryErr, loopVars, job,
                 supplyVars, histVars, crashes>>

\* Mutant: the last record read wins.
replaySeq_Last(r) == r.seq

replaySeq(r) == IF r.seq > seq THEN r.seq ELSE seq

ApplyEnqueue ==
  LET r == disk[pos + 1]
  IN /\ Replaying("ENQUEUE")
     /\ msgs' = msgs \cup r.ids
     /\ msg' = [i \in Ids |-> IF i \in r.ids THEN MessageOf(r) ELSE msg[i]]
     /\ seq' = replaySeq(r)
     /\ \/ r.key \notin Keys /\ dedup' = dedup
        \/ \E i \in r.ids :
             /\ r.key \in Keys
             /\ dedup' = [dedup EXCEPT ![r.key] = [id |-> i, exp |-> r.enqAt + DedupTTL]]
     /\ cnt' = [cnt EXCEPT !.enqueued = @ + 1]
     /\ Applied
     /\ UNCHANGED <<mode, dlq, leased>>

ApplyLease ==
  LET r == disk[pos + 1]
  IN /\ Replaying("LEASE") /\ Known(r)
     /\ msg' = leasedBy(r)
     /\ leased' = leased \cup r.ids
     /\ cnt' = [cnt EXCEPT !.dequeued = @ + Cardinality(r.ids)]
     /\ Applied
     /\ UNCHANGED <<msgs, seq, dlq, dedup>>

ApplyAck ==
  LET r == disk[pos + 1]
  IN /\ Replaying("ACK") /\ Known(r)
     /\ msgs' = msgs \ r.ids
     /\ msg' = [i \in Ids |-> IF i \in r.ids THEN NoMsg ELSE msg[i]]
     /\ leased' = leased \ r.ids
     /\ cnt' = [cnt EXCEPT !.acked = @ + 1]
     /\ Applied
     /\ UNCHANGED <<seq, dlq, dedup>>

\* NACK and LEASE_EXPIRE differ only in the counter.
ApplyReturn(t, count) ==
  LET r == disk[pos + 1]
  IN /\ Replaying(t) /\ Known(r)
     /\ msg' = returnedBy(r)
     /\ leased' = leased \ r.ids
     /\ cnt' = count
     /\ Applied
     /\ UNCHANGED <<msgs, seq, dlq, dedup>>

ApplyNack == ApplyReturn("NACK", [cnt EXCEPT !.nacked = @ + 1])

ApplyExpire ==
  ApplyReturn("LEASE_EXPIRE",
              [cnt EXCEPT !.expired = @ + Cardinality(disk[pos + 1].ids)])

ApplyDlqMove ==
  LET r == disk[pos + 1]
  IN /\ Replaying("DLQ_MOVE") /\ Known(r)
     /\ moveToDLQ(r.ids)
     /\ leased' = leased \ r.ids
     /\ cnt' = [cnt EXCEPT !.dlqMoved = @ + Cardinality(r.ids)]
     /\ Applied
     /\ UNCHANGED <<seq, dedup>>

\* finalize, then q.start().
Finalize ==
  /\ mode = "replay"
  /\ pos = Len(disk)
  /\ msg' = [i \in Ids |-> IF i \in leased /\ i \in msgs THEN [msg[i] EXCEPT !.token = 0]
                           ELSE msg[i]]
  /\ delayed' = {i \in msgs : msg[i].visAt > clock}
  /\ ready' = {i \in msgs : msg[i].visAt <= clock}
  /\ dedup' = [k \in Keys |-> IF dedup[k].exp <= clock THEN NoEntry ELSE dedup[k]]
  /\ mode' = "up" /\ booted' = clock
  /\ mt' = Parked("loop")
  /\ pos' = 0 /\ leased' = {}
  /\ UNCHANGED <<logVars, clock, msgs, seq, leaseVars, dlq, entryErr, cnt, armed, wake,
                 job, supplyVars, histVars, crashes>>

----------------------------------------------------------------------------
Recovery ==
  \/ ApplyEnqueue \/ ApplyLease \/ ApplyAck \/ ApplyNack \/ ApplyExpire
  \/ ApplyDlqMove \/ Finalize

Next ==
  \/ QueueNext /\ UNCHANGED recoveryVars
  \/ Crash
  \/ Recovery

Spec == Init /\ [][Next]_vars
============================================================================
