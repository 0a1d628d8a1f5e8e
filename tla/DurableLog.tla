---------------------------- MODULE DurableLog ----------------------------
(***************************************************************************)
(* What internal/wal promises to the queues above it: Append hands a       *)
(* record to the writer goroutine and blocks until that record is on disk  *)
(* or the log has failed for good.                                         *)
(*                                                                         *)
(* disk is the record stream recovery would read now (page cache included),*)
(* and its first `synced' records have been covered by a completed fsync.  *)
(* A batch of the group commit is a run of LogWrite steps closed by one    *)
(* LogSync, so fsync=always is the special case of runs of length one.     *)
(***************************************************************************)
EXTENDS Naturals, Sequences, FiniteSets

CONSTANTS
  Callers,   \* goroutines that may be inside Append
  NoRec,     \* the value of rec[p] while p is not inside Append
  Faults     \* which of "io", "kill", "power" may happen

VARIABLES
  disk,      \* sequence of records, in write order
  synced,    \* length of the prefix of disk an fsync has covered
  dead,      \* l.fatal # nil: the first failed write or fsync is sticky
  phase,     \* phase[p]: where p's Append call is
  rec        \* rec[p]: the record p is appending

logVars == <<disk, synced, dead, phase, rec>>

ASSUME FaultsAssumption == Faults \subseteq {"io", "kill", "power"}

Phases == {"idle", "sent", "written", "ok", "err"}

LogInit ==
  /\ disk = <<>>
  /\ synced = 0
  /\ dead = FALSE
  /\ phase = [p \in Callers |-> "idle"]
  /\ rec = [p \in Callers |-> NoRec]

\* Append has checked the record. Its request is in the writer's channel or on the
\* way there, so the writer may take callers in another order than they came in.
LogAppend(p, r) ==
  /\ phase[p] = "idle"
  /\ phase' = [phase EXCEPT ![p] = "sent"]
  /\ rec' = [rec EXCEPT ![p] = r]
  /\ UNCHANGED <<disk, synced, dead>>

\* ErrRecordTooLarge: Append returns before the writer sees the record.
LogReject(p, r) ==
  /\ phase[p] = "idle"
  /\ phase' = [phase EXCEPT ![p] = "err"]
  /\ rec' = [rec EXCEPT ![p] = r]
  /\ UNCHANGED <<disk, synced, dead>>

\* commit: one record of the current batch reaches the segment file.
LogWrite(p) ==
  /\ ~dead
  /\ phase[p] = "sent"
  /\ disk' = Append(disk, rec[p])
  /\ phase' = [phase EXCEPT ![p] = "written"]
  /\ UNCHANGED <<synced, dead, rec>>

\* Mutant: callers are released without an fsync.
LogSync_NoFsync ==
  /\ ~dead
  /\ \E p \in Callers : phase[p] = "written"
  /\ phase' = [p \in Callers |-> IF phase[p] = "written" THEN "ok" ELSE phase[p]]
  /\ UNCHANGED <<disk, synced, dead, rec>>

\* Callers whose records wait for the fsync of their batch.
Written == {p \in Callers : phase[p] = "written"}

\* commit: the fsync returns and every caller of the batch is released. It is an
\* fsync of the current segment: a tail that a killed process left uncovered stays
\* so when the batch began a new segment.
LogSync ==
  /\ ~dead
  /\ Written # {}
  /\ \/ synced' = Len(disk)
     \/ synced' = synced /\ synced + Cardinality(Written) < Len(disk)
  /\ phase' = [p \in Callers |-> IF phase[p] = "written" THEN "ok" ELSE phase[p]]
  /\ UNCHANGED <<disk, dead, rec>>

\* commit: rotate, Write or Sync fails. Records already written stay in the
\* file although their callers are told the append failed.
LogFail ==
  /\ "io" \in Faults
  /\ ~dead
  /\ \E p \in Callers : phase[p] \in {"sent", "written"}
  /\ dead' = TRUE
  /\ phase' = [p \in Callers |-> IF phase[p] = "written" THEN "err" ELSE phase[p]]
  /\ UNCHANGED <<disk, synced, rec>>

\* Mutant: the writer exits on a failed log and answers nobody.
LogRefuse_Silent(p) == FALSE /\ UNCHANGED logVars

\* commit on a failed log: nothing is written, the caller gets l.fatal.
LogRefuse(p) ==
  /\ dead
  /\ phase[p] = "sent"
  /\ phase' = [phase EXCEPT ![p] = "err"]
  /\ UNCHANGED <<disk, synced, dead, rec>>

\* The caller takes the answer off its done channel.
LogReturn(p) ==
  /\ phase[p] \in {"ok", "err"}
  /\ phase' = [phase EXCEPT ![p] = "idle"]
  /\ rec' = [rec EXCEPT ![p] = NoRec]
  /\ UNCHANGED <<disk, synced, dead>>

\* The process dies and the log is reopened. A kill leaves the page cache to
\* the next process, which replays it; recovery issues an fsync only when it
\* truncates a torn tail. A power failure keeps some prefix that includes
\* everything an fsync has covered.
LogReopen ==
  /\ phase' = [p \in Callers |-> "idle"]
  /\ rec' = [p \in Callers |-> NoRec]
  /\ dead' = FALSE

LogKill ==
  /\ "kill" \in Faults
  /\ LogReopen
  /\ synced' \in {synced, Len(disk)}
  /\ UNCHANGED disk

\* Mutant: the tail is cut at an offset before the end of the fsynced prefix.
LogPowerLoss_CutTooMuch ==
  /\ "power" \in Faults
  /\ LogReopen
  /\ \E k \in 0 .. Len(disk) : disk' = SubSeq(disk, 1, k)
  /\ UNCHANGED synced

LogPowerLoss ==
  /\ "power" \in Faults
  /\ LogReopen
  /\ \E k \in synced .. Len(disk) :
       /\ disk' = SubSeq(disk, 1, k)
       /\ synced' = k

\* Steps of the writer goroutine.
LogStep ==
  \/ \E p \in Callers : LogWrite(p) \/ LogRefuse(p)
  \/ LogSync
  \/ LogFail

\* Everything callers that append members of R, and the environment, can see.
LogNext(R) ==
  \/ \E p \in Callers, r \in R : LogAppend(p, r) \/ LogReject(p, r)
  \/ \E p \in Callers : LogReturn(p)
  \/ LogStep
  \/ LogKill
  \/ LogPowerLoss
============================================================================
