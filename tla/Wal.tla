-------------------------------- MODULE Wal --------------------------------
(***************************************************************************)
(* internal/wal: callers of Append, the request channel, the single writer *)
(* goroutine with its group commit, segment rotation, Close, and recovery. *)
(*                                                                         *)
(* A segment is a sequence of cells: a record, or Torn for a frame that    *)
(* decodeRecord rejects. A frame has size 1. Written cells are in the page *)
(* cache; the first dur[j] cells of segment j are on the platter.          *)
(***************************************************************************)
EXTENDS Integers, SequencesExt

CONSTANTS
  Callers, NoRec,
  Payloads,      \* records to append, each at most once
  Torn,          \* a frame that does not decode
  SyncAlways,    \* opts.Sync = "always"
  BatchMax,      \* opts.BatchMax
  SegmentSize,   \* opts.SegmentSize, in frames
  Faults,        \* which of "io", "kill", "power" may happen
  MaxCrashes     \* bound: process deaths

VARIABLES
  mode,          \* "up", or "failed": Open returned an error
  segs, dur,     \* the segment files and how much of each is durable
  size,          \* l.size
  fatal,         \* l.fatal # nil
  closer,        \* where the call of Close is
  reqs,          \* the channel
  wpc,           \* the writer: "recv", "drain", "commit", "write", "reply", "exit"
  batch,         \* callers of the batch being committed and not answered
  wrote,         \* how many half frames of the batch are in the file
  pc, arg,       \* each caller: where it is in Append, and with what
  used,          \* records appended or being appended
  crashes        \* process deaths so far

files == <<segs, dur, size>>
writer == <<wpc, batch, wrote, fatal>>
callers == <<pc, arg, used>>
vars == <<mode, files, closer, reqs, writer, callers, crashes>>

\* l.closed
closed == closer \in {"waiting", "returned"}

ASSUME WalAssumption ==
  /\ SyncAlways \in BOOLEAN
  /\ BatchMax \in Nat \ {0}
  /\ SegmentSize \in Nat
  /\ Faults \subseteq {"io", "kill", "power"}
  /\ MaxCrashes \in Nat
  /\ Torn \notin Payloads
  /\ NoRec \notin Payloads

Init ==
  /\ mode = "up"
  /\ segs = << <<>> >> /\ dur = <<0>> /\ size = 0
  /\ fatal = FALSE /\ closer = "none"
  /\ reqs = <<>> /\ wpc = "recv" /\ batch = <<>> /\ wrote = 0
  /\ pc = [p \in Callers |-> "idle"]
  /\ arg = [p \in Callers |-> NoRec]
  /\ used = {} /\ crashes = 0

----------------------------------------------------------------------------
(* Append and Close. l.mu is a sync.RWMutex: a call of Lock that waits for   *)
(* readers to leave lets no new reader in.                                 *)

Reading == {p \in Callers : pc[p] = "locked"}

\* A caller is about to take the read lock. The type and size checks at the head
\* of Append end like Refuse and are left out.
Call(p, r) ==
  /\ mode = "up"
  /\ pc[p] = "idle" /\ r \notin used
  /\ pc' = [pc EXCEPT ![p] = "call"]
  /\ arg' = [arg EXCEPT ![p] = r]
  /\ used' = used \cup {r}
  /\ UNCHANGED <<mode, files, closer, reqs, writer, crashes>>

\* Append has the read lock and finds the log open.
Enter(p) ==
  /\ pc[p] = "call" /\ closer = "none"
  /\ pc' = [pc EXCEPT ![p] = "locked"]
  /\ UNCHANGED <<mode, files, closer, reqs, writer, arg, used, crashes>>

\* Append returns ErrClosed.
Refuse(p) ==
  /\ pc[p] = "call" /\ closed
  /\ pc' = [pc EXCEPT ![p] = "err"]
  /\ UNCHANGED <<mode, files, closer, reqs, writer, arg, used, crashes>>

\* The send completes once the channel has room; the read lock is released.
Send(p) ==
  /\ pc[p] = "locked"
  /\ Len(reqs) < BatchMax
  /\ reqs' = Append(reqs, p)
  /\ pc' = [pc EXCEPT ![p] = "waiting"]
  /\ UNCHANGED <<mode, files, closer, writer, arg, used, crashes>>

Return(p) ==
  /\ pc[p] \in {"ok", "err"}
  /\ pc' = [pc EXCEPT ![p] = "idle"]
  /\ arg' = [arg EXCEPT ![p] = NoRec]
  /\ UNCHANGED <<mode, files, closer, reqs, writer, used, crashes>>

CloseAt(from, to) ==
  /\ closer = from /\ closer' = to
  /\ UNCHANGED <<mode, files, reqs, writer, callers, crashes>>

\* Close is called and waits for the write lock.
Close == mode = "up" /\ CloseAt("none", "locking")

\* Mutant: Close does not wait for senders to release the read lock.
CloseReqs_NoLock == CloseAt("locking", "waiting")

\* It has the lock, marks the log closed and closes the channel.
CloseReqs == Reading = {} /\ CloseAt("locking", "waiting")

\* The writer has exited; the segment is closed and Close returns.
CloseReturn == wpc = "exit" /\ CloseAt("waiting", "returned")

----------------------------------------------------------------------------
(* run: receive, drain, commit.                                            *)

Receive ==
  /\ mode = "up" /\ wpc = "recv" /\ reqs # <<>>
  /\ batch' = <<Head(reqs)>>
  /\ reqs' = Tail(reqs)
  /\ wpc' = IF SyncAlways THEN "commit" ELSE "drain"
  /\ wrote' = 0
  /\ UNCHANGED <<mode, files, closer, fatal, callers, crashes>>

\* Mutant: a writer whose log has failed waits for more requests.
Exit_NotWhenFatal ==
  /\ mode = "up" /\ wpc = "recv" /\ reqs = <<>> /\ closed /\ ~fatal
  /\ wpc' = "exit"
  /\ UNCHANGED <<mode, files, closer, reqs, batch, wrote, fatal, callers, crashes>>

\* The channel is closed and empty.
Exit ==
  /\ mode = "up" /\ wpc = "recv" /\ reqs = <<>> /\ closed
  /\ wpc' = "exit"
  /\ UNCHANGED <<mode, files, closer, reqs, batch, wrote, fatal, callers, crashes>>

\* Mutant: the limit on a batch is off by one.
Drain_OneMore ==
  /\ wpc = "drain"
  /\ \/ /\ Len(batch) <= BatchMax /\ reqs # <<>>
        /\ batch' = Append(batch, Head(reqs))
        /\ reqs' = Tail(reqs)
        /\ UNCHANGED wpc
     \/ /\ Len(batch) > BatchMax \/ reqs = <<>>
        /\ wpc' = "commit"
        /\ UNCHANGED <<batch, reqs>>
  /\ UNCHANGED <<mode, files, closer, wrote, fatal, callers, crashes>>

Drain ==
  /\ wpc = "drain"
  /\ \/ /\ Len(batch) < BatchMax /\ reqs # <<>>
        /\ batch' = Append(batch, Head(reqs))
        /\ reqs' = Tail(reqs)
        /\ UNCHANGED wpc
     \/ /\ Len(batch) = BatchMax \/ reqs = <<>>
        /\ wpc' = "commit"
        /\ UNCHANGED <<batch, reqs>>
  /\ UNCHANGED <<mode, files, closer, wrote, fatal, callers, crashes>>

last == Len(segs)

\* The batch does not fit in the current segment.
Full == size > 0 /\ size + Len(batch) > SegmentSize

\* A new, empty segment file, whose name is on the platter.
createSegment == segs' = Append(segs, <<>>) /\ dur' = Append(dur, 0)

\* The old file is closed as it is, without an fsync.
rotate == createSegment /\ size' = 0

\* Mutant: a failed log keeps accepting writes.
commit_NotSticky ==
  /\ wpc = "commit"
  /\ \/ Full /\ rotate
     \/ ~Full /\ UNCHANGED files
  /\ wpc' = "write"
  /\ fatal' = FALSE
  /\ UNCHANGED <<mode, closer, reqs, batch, wrote, callers, crashes>>

\* commit up to the write: the sticky error, and rotation.
commit ==
  /\ wpc = "commit"
  /\ \/ fatal /\ wpc' = "reply" /\ UNCHANGED files
     \/ ~fatal /\ Full /\ wpc' = "write" /\ rotate
     \/ ~fatal /\ ~Full /\ wpc' = "write" /\ UNCHANGED files
  /\ UNCHANGED <<mode, closer, reqs, batch, wrote, fatal, callers, crashes>>

\* rotate fails, with or without the new segment file on disk.
RotateFails ==
  /\ "io" \in Faults
  /\ wpc = "commit" /\ ~fatal /\ Full
  /\ \/ UNCHANGED files
     \/ createSegment /\ UNCHANGED size
  /\ fatal' = TRUE /\ wpc' = "reply"
  /\ UNCHANGED <<mode, closer, reqs, batch, wrote, callers, crashes>>

\* The write call puts the next frame into the file, in two parts.
WriteHalf ==
  /\ wpc = "write" /\ wrote < 2 * Len(batch) /\ wrote % 2 = 0
  /\ segs' = [segs EXCEPT ![last] = Append(@, Torn)]
  /\ wrote' = wrote + 1
  /\ UNCHANGED <<mode, dur, size, closer, reqs, wpc, batch, fatal, callers, crashes>>

WriteRest ==
  /\ wpc = "write" /\ wrote % 2 = 1
  /\ segs' = [segs EXCEPT ![last] = Append(Front(@), arg[batch[(wrote + 1) \div 2]])]
  /\ wrote' = wrote + 1
  /\ UNCHANGED <<mode, dur, size, closer, reqs, wpc, batch, fatal, callers, crashes>>

\* Mutant: callers are released without an fsync.
Sync_Skipped ==
  /\ wpc = "write" /\ wrote = 2 * Len(batch)
  /\ size' = size + Len(batch)
  /\ wpc' = "reply"
  /\ UNCHANGED <<mode, segs, dur, closer, reqs, batch, wrote, fatal, callers, crashes>>

\* The whole batch is written and the fsync returns.
Sync ==
  /\ wpc = "write" /\ wrote = 2 * Len(batch)
  /\ dur' = [dur EXCEPT ![last] = Len(segs[last])]
  /\ size' = size + Len(batch)
  /\ wpc' = "reply"
  /\ UNCHANGED <<mode, segs, closer, reqs, batch, wrote, fatal, callers, crashes>>

\* Write or Sync returns an error; what reached the file stays there.
WriteFails ==
  /\ "io" \in Faults
  /\ wpc = "write"
  /\ fatal' = TRUE /\ wpc' = "reply"
  /\ UNCHANGED <<mode, files, closer, reqs, batch, wrote, callers, crashes>>

\* reply: the callers of the batch are answered one by one.
reply ==
  /\ wpc = "reply"
  /\ \/ /\ batch # <<>>
        /\ pc' = [pc EXCEPT ![Head(batch)] = IF fatal THEN "err" ELSE "ok"]
        /\ batch' = Tail(batch)
        /\ wrote' = IF wrote > 1 THEN wrote - 2 ELSE 0
        /\ UNCHANGED wpc
     \/ /\ batch = <<>>
        /\ wpc' = "recv"
        /\ UNCHANGED <<pc, batch, wrote>>
  /\ UNCHANGED <<mode, files, closer, reqs, fatal, arg, used, crashes>>

----------------------------------------------------------------------------
(* Process death and Open.                                                 *)

IsTorn(seg) == \E k \in DOMAIN seg : seg[k] = Torn

\* The records before the first frame that does not decode.
Decoded(seg) ==
  SubSeq(seg, 1, Cardinality({k \in DOMAIN seg : \A j \in 1 .. k : seg[j] # Torn}))

\* Mutant: the size is the file's before its torn tail is cut.
replay_UncutSize(S, D) ==
  LET n == Len(S)
  IN IF \E j \in 1 .. n - 1 : IsTorn(S[j])
     THEN /\ mode' = "failed"
          /\ segs' = S /\ dur' = D /\ UNCHANGED size
     ELSE /\ mode' = "up"
          /\ segs' = [S EXCEPT ![n] = Decoded(@)]
          /\ dur' = [D EXCEPT ![n] = IF IsTorn(S[n]) THEN Len(Decoded(S[n])) ELSE @]
          /\ size' = Len(S[n])

\* replay over the surviving segments S, of which D is durable: only the final
\* segment may end in a torn frame, and it is cut there and fsynced.
replay(S, D) ==
  LET n == Len(S)
  IN IF \E j \in 1 .. n - 1 : IsTorn(S[j])
     THEN /\ mode' = "failed"
          /\ segs' = S /\ dur' = D /\ UNCHANGED size
     ELSE /\ mode' = "up"
          /\ segs' = [S EXCEPT ![n] = Decoded(@)]
          /\ dur' = [D EXCEPT ![n] = IF IsTorn(S[n]) THEN Len(Decoded(S[n])) ELSE @]
          /\ size' = Len(Decoded(S[n]))

\* The old process is gone; Open returns a Log with an idle writer.
Reopened ==
  /\ mode = "up" /\ crashes < MaxCrashes
  /\ fatal' = FALSE /\ closer' = "none"
  /\ reqs' = <<>> /\ wpc' = "recv" /\ batch' = <<>> /\ wrote' = 0
  /\ pc' = [p \in Callers |-> "idle"]
  /\ arg' = [p \in Callers |-> NoRec]
  /\ crashes' = crashes + 1
  /\ UNCHANGED used

\* The process is killed, or has exited after Close; the page cache survives.
Kill ==
  /\ "kill" \in Faults
  /\ Reopened
  /\ replay(segs, dur)

\* What a power failure may leave of a segment with d durable cells.
Survivors(seg, d) ==
  {SubSeq(seg, 1, k) : k \in d .. Len(seg)}
    \cup {Append(SubSeq(seg, 1, k), Torn) : k \in d .. Len(seg) - 1}

PowerLoss ==
  /\ "power" \in Faults
  /\ Reopened
  /\ \E S \in [1 .. last -> UNION {Survivors(segs[j], dur[j]) : j \in 1 .. last}] :
       /\ \A j \in 1 .. last : S[j] \in Survivors(segs[j], dur[j])
       /\ replay(S, [j \in 1 .. last |-> Len(S[j])])

----------------------------------------------------------------------------
Next ==
  \/ \E p \in Callers, r \in Payloads : Call(p, r)
  \/ \E p \in Callers : Enter(p) \/ Refuse(p) \/ Send(p) \/ Return(p)
  \/ Close \/ CloseReqs \/ CloseReturn
  \/ Receive \/ Exit \/ Drain \/ commit \/ RotateFails
  \/ WriteHalf \/ WriteRest \/ Sync \/ WriteFails \/ reply
  \/ Kill \/ PowerLoss

Spec == Init /\ [][Next]_vars

----------------------------------------------------------------------------
(* Properties.                                                             *)

\* Every variable keeps its type, and no more of a file is durable than it has.
TypeOK ==
  /\ mode \in {"up", "failed"}
  /\ segs \in Seq(Seq(Payloads \cup {Torn})) /\ Len(dur) = Len(segs)
  /\ \A j \in 1 .. Len(segs) : dur[j] \in 0 .. Len(segs[j])
  /\ size \in Nat
  /\ fatal \in BOOLEAN /\ closer \in {"none", "locking", "waiting", "returned"}
  /\ reqs \in Seq(Callers) /\ Len(reqs) <= BatchMax
  /\ wpc \in {"recv", "drain", "commit", "write", "reply", "exit"}
  /\ batch \in Seq(Callers) /\ Len(batch) <= BatchMax
  /\ wrote \in 0 .. 2 * BatchMax
  /\ pc \in [Callers -> {"idle", "call", "locked", "waiting", "ok", "err"}]
  /\ arg \in [Callers -> Payloads \cup {NoRec}]
  /\ used \subseteq Payloads /\ crashes \in 0 .. MaxCrashes

\* "A crash can only ever damage the file that was being appended to"
\* (recovery.go): Open never meets a torn frame in an earlier segment.
DamageOnlyInLastSegment == mode # "failed"

\* l.size is the length of the segment being appended to, so rotation decides
\* on the real size, whatever crashes and truncations came before.
SizeIsFileSize ==
  mode = "up" /\ ~fatal /\ wpc \in {"recv", "drain", "commit"} =>
    size = Len(segs[last])

\* Refinement: the log as the queues see it.
InBatch(p) == \E k \in DOMAIN batch : batch[k] = p
\* Replies are sent from the head of the batch, and wrote counts from there.
Written(p) == \E k \in DOMAIN batch : batch[k] = p /\ 2 * k <= wrote
phaseBar ==
  [p \in Callers |->
     IF pc[p] = "call" THEN "idle"
     ELSE IF pc[p] \in {"idle", "ok", "err"} THEN pc[p]
     ELSE IF ~Written(p) THEN "sent"
     ELSE IF wpc # "reply" THEN "written"
     ELSE IF fatal THEN "err" ELSE "ok"]
recBar == [p \in Callers |-> IF pc[p] = "call" THEN NoRec ELSE arg[p]]
diskBar == FlattenSeq([j \in 1 .. last |-> Decoded(segs[j])])
\* Records before the first one that is not durable in its own file.
syncedBar ==
  Cardinality({jk \in (1 .. last) \X (1 .. Len(diskBar)) :
     /\ jk[2] <= Len(Decoded(segs[jk[1]])) /\ jk[2] <= dur[jk[1]]
     /\ \A i \in 1 .. jk[1] - 1 : dur[i] = Len(segs[i])})

Abstract == INSTANCE DurableLog
  WITH disk <- diskBar, synced <- syncedBar, dead <- fatal, phase <- phaseBar,
       rec <- recBar

\* The implementation keeps the promise the queue model is built on: callers are
\* released only once their record is in the fsynced prefix, a failed log never
\* writes again, no accepted request is lost by batching, rotation or Close,
\* and reopening yields a prefix of what was written that has all of it.
ImplementsLog == Abstract!LogInit /\ [][Abstract!LogNext(Payloads)]_(Abstract!logVars)

Fairness ==
  /\ \A p \in Callers : WF_vars(Enter(p) \/ Refuse(p) \/ Send(p) \/ Return(p))
  /\ WF_vars(CloseReqs \/ CloseReturn)
  /\ WF_vars(Receive \/ Exit \/ Drain \/ commit \/ WriteHalf \/ WriteRest
              \/ Sync \/ reply)

FairSpec == Spec /\ Fairness

\* Every Append returns: when the channel is full, when the log has failed, and
\* when Close waits for the lock, or comes while requests are queued behind an
\* fsync.
AppendsReturn == \A p \in Callers : pc[p] # "idle" ~> pc[p] = "idle"

\* Close returns: senders blocked on a full channel give up the read lock, no
\* reader overtakes the waiting Lock, and the writer drains the channel and exits.
CloseReturns == closer = "locking" ~> closer \in {"returned", "none"}
============================================================================
