------------------------------ MODULE UringIO -------------------------------
(***************************************************************************)
(* The io_uring file writer (src/persistence/uring_io.c): one thread that  *)
(* prepares, submits and receives, and the kernel that completes requests  *)
(* in any order, in part, with an error, or after they were cancelled.     *)
(*                                                                         *)
(* A block of a batch lies in a buffer of the caller, which it reuses or   *)
(* frees as soon as the call returns: the kernel therefore takes the bytes *)
(* of a request from the batch of the call that runs when it writes.       *)
(***************************************************************************)
EXTENDS Integers, Sequences, FiniteSets

CONSTANTS
    Batch,       \* the batches callers pass: sequences of [off, len] records
    QueueDepth,  \* KVS_URING_QUEUE_DEPTH
    MaxRequest,  \* INT_MAX: the longest single request
    FileLimit,   \* the first offset off_t cannot represent
    MaxCalls,    \* bound: calls of write_batch and sync
    MaxFaults    \* bound: interrupted or failing operations

ASSUME UringAssumption ==
    /\ QueueDepth \in Nat \ {0}
    /\ MaxRequest \in Nat \ {0}
    /\ {FileLimit, MaxCalls, MaxFaults} \subseteq Nat
    /\ Batch \subseteq Seq([off : Nat, len : Nat])

VARIABLES
    ring,       \* io->initialized: "open" or "closed"; "exited" after _Exit
    pc,         \* where the running call is; "idle" when none runs
    writes,     \* the batch of the running or last write_batch
    progress,   \* [completed, requested] of every block
    sq,         \* prepared requests the kernel has not taken
    inflight,   \* requests the kernel works on
    cq,         \* completions nobody has taken
    pending,    \* submitted_count - received_count
    error,      \* first_error is set
    calls,      \* calls made so far; names the data of the running one
    faults,     \* faults so far
    result,     \* what the last call returned
    file,       \* offset -> byte, as the kernel shows it
    durable     \* the file as of the last successful fsync

queue == <<sq, inflight, cq, pending>>
disk == <<file, durable>>
vars == <<ring, pc, writes, progress, sq, inflight, cq, pending, error,
          calls, faults, result, file, durable>>

NoByte == <<>>
Offset == 0 .. FileLimit - 1

\* A WRITE covers the bytes from .. from + len - 1 of block data; a sync is a
\* request whose data is 0 too, as in the code.
Request == [op : {"write", "fsync"}, data : 1 .. QueueDepth, from : Nat,
            len : Nat]

\* A result: the number of bytes (0 for a good fsync) or a kind of failure.
Cqe == [data : 1 .. QueueDepth, res : Int, why : {"done", "EINTR", "error"}]

\* The byte a block is to put at an offset.
ByteAt(call, i, pos) == <<call, i, pos>>

Init ==
    /\ ring = "closed"
    /\ pc = "idle"
    /\ writes = <<>>
    /\ progress = <<>>
    /\ sq = <<>> /\ inflight = {} /\ cq = <<>> /\ pending = 0
    /\ error = FALSE
    /\ calls = 0 /\ faults = 0
    /\ result = "none"
    /\ file = [o \in Offset |-> NoByte]
    /\ durable = file

\* One more thing goes wrong.
Fault == faults < MaxFaults /\ faults' = faults + 1

\* The call returns r and leaves the ring as it is.
ReturnWith(r) == pc' = "idle" /\ result' = r

\* kvs_uring_io_close: io_uring_queue_exit drops what was never submitted.
CloseRing == ring' = "closed" /\ sq' = <<>> /\ cq' = <<>>

\* uring_abort_requests is entered with the number of submitted requests whose
\* completion has not been taken.
Abort == pc' = "cancel"

-----------------------------------------------------------------------------
(* Calls.                                                                   *)

\* kvs_uring_io_init.
Open ==
    /\ ring = "closed" /\ pc = "idle"
    /\ calls < MaxCalls
    /\ ring' = "open"
    /\ UNCHANGED <<pc, writes, progress, error, calls, faults, result>>
    /\ UNCHANGED queue /\ UNCHANGED disk

\* kvs_uring_io_close by the caller, which releases its buffer next.
Close ==
    /\ ring = "open" /\ pc = "idle"
    /\ CloseRing
    /\ UNCHANGED <<pc, writes, progress, inflight, pending, error, calls,
                   faults, result>>
    /\ UNCHANGED disk

\* Two blocks of which neither is empty share an offset.
Overlap(a, b) ==
    /\ a.len > 0 /\ b.len > 0
    /\ a.off < b.off + b.len
    /\ b.off < a.off + a.len

\* Mutant: overlapping blocks are accepted.
BugValidOverlap(b) ==
    /\ Len(b) <= QueueDepth
    /\ \A i \in DOMAIN b : b[i].off + b[i].len <= FileLimit

\* The checks of kvs_uring_io_write_batch before its first request.
Valid(b) ==
    /\ Len(b) <= QueueDepth
    /\ \A i \in DOMAIN b : b[i].off + b[i].len <= FileLimit
    /\ \A i, j \in DOMAIN b : i # j => ~Overlap(b[i], b[j])

Call == ring = "open" /\ pc = "idle" /\ calls < MaxCalls /\ calls' = calls + 1

WriteBatch(b) ==
    /\ Call
    /\ IF b = <<>>
       THEN /\ ReturnWith("ok")
            /\ UNCHANGED <<writes, progress>>
       ELSE IF Valid(b)
       THEN /\ writes' = b
            /\ progress' = [i \in DOMAIN b |-> [completed |-> 0, requested |-> 0]]
            /\ pc' = "prepare" /\ result' = "none"
       ELSE /\ ReturnWith("failed")
            /\ UNCHANGED <<writes, progress>>
    /\ UNCHANGED <<ring, error, faults>> /\ UNCHANGED queue /\ UNCHANGED disk

-----------------------------------------------------------------------------
(* kvs_uring_io_write_batch, one round.                                     *)

Least(a, b) == IF a < b THEN a ELSE b

Unfinished == {i \in DOMAIN writes : progress[i].completed # writes[i].len}

\* uring_prepare_writes: what is left of block i.
WriteRequest(i) ==
    [op |-> "write", data |-> i, from |-> progress[i].completed,
     len |-> Least(writes[i].len - progress[i].completed, MaxRequest)]

\* The requests in the order of the blocks.
InOrder(S) ==
    [n \in 1 .. Cardinality(S) |->
        WriteRequest(CHOOSE i \in S : Cardinality({j \in S : j < i}) = n - 1)]

\* A round begins; when nothing is left to request the batch is done.
Prepare ==
    /\ pc = "prepare"
    /\ IF Unfinished = {}
       THEN /\ ReturnWith("ok")
            /\ UNCHANGED <<sq, progress, error>>
       ELSE /\ sq' = InOrder(Unfinished)
            /\ progress' = [i \in DOMAIN progress |->
                 [progress[i] EXCEPT !.requested =
                     IF i \in Unfinished THEN WriteRequest(i).len ELSE 0]]
            /\ pc' = "submit" /\ error' = FALSE
            /\ UNCHANGED result
    /\ UNCHANGED <<ring, writes, inflight, cq, pending, calls, faults>>
    /\ UNCHANGED disk

\* uring_submit_prepared: the kernel takes the first n requests.
Submit(n) ==
    /\ pc = "submit" /\ n <= Len(sq)
    /\ inflight' = inflight \cup {sq[i] : i \in 1 .. n}
    /\ sq' = SubSeq(sq, n + 1, Len(sq))
    /\ pending' = pending + n
    /\ pc' = IF n = Len(sq) THEN "receive" ELSE "submit"
    /\ UNCHANGED <<ring, writes, progress, cq, error, calls, faults, result>>
    /\ UNCHANGED disk

\* Mutant: the abort waits for every prepared request.
BugSubmitError ==
    /\ pc = "submit" /\ Fault
    /\ Abort
    /\ pending' = pending + Len(sq)
    /\ UNCHANGED <<ring, writes, progress, sq, inflight, cq, error, calls,
                   result>>
    /\ UNCHANGED disk

\* io_uring_submit fails, or takes nothing, perhaps after a part was taken.
SubmitError ==
    /\ pc = "submit" /\ Fault
    /\ Abort
    /\ UNCHANGED <<ring, writes, progress, error, calls, result>>
    /\ UNCHANGED queue /\ UNCHANGED disk

\* Mutant: a short write counts as the whole request.
BugProgressAfter(p, c) ==
    [completed |-> p.completed + IF c.why = "done" THEN p.requested ELSE 0,
     requested |-> 0]

\* What a completion adds to the progress of its block.
ProgressAfter(p, c) ==
    [completed |-> p.completed + IF c.why = "done" THEN c.res ELSE 0,
     requested |-> 0]

\* The completion says nothing usable: an index or a block nothing was
\* requested of, no progress, or an error other than EINTR.
Bad(c) ==
    \/ c.data \notin DOMAIN progress
    \/ progress[c.data].requested = 0
    \/ c.why = "error"
    \/ c.why = "done" /\ (c.res = 0 \/ c.res > progress[c.data].requested)

\* uring_receive_write_result and the accounting; after the last completion of
\* the round a failure is returned, else the next round begins.
Receive ==
    /\ pc = "receive" /\ cq # <<>>
    /\ LET c == Head(cq) IN
       /\ progress' = IF c.data \in DOMAIN progress
                      THEN [progress EXCEPT ![c.data] =
                              IF Bad(c) THEN [@ EXCEPT !.requested = 0]
                              ELSE ProgressAfter(@, c)]
                      ELSE progress
       /\ error' = (error \/ Bad(c))
    /\ cq' = Tail(cq)
    /\ pending' = pending - 1
    /\ IF pending' > 0 THEN UNCHANGED <<pc, result>>
       ELSE IF error' THEN ReturnWith("failed")
       ELSE pc' = "prepare" /\ UNCHANGED result
    /\ UNCHANGED <<ring, writes, sq, inflight, calls, faults>> /\ UNCHANGED disk

\* io_uring_wait_cqe fails: requests may still run.
WaitError ==
    /\ pc \in {"receive", "synced"} /\ Fault
    /\ Abort
    /\ UNCHANGED <<ring, writes, progress, error, calls, result>>
    /\ UNCHANGED queue /\ UNCHANGED disk

-----------------------------------------------------------------------------
(* uring_abort_requests.                                                    *)

\* io_uring_register_sync_cancel ends a request that still runs.
Cancel(r) ==
    /\ pc = "cancel"
    /\ r \in inflight
    /\ inflight' = inflight \ {r}
    /\ cq' = Append(cq, [data |-> r.data, res |-> 0, why |-> "error"])
    /\ UNCHANGED <<ring, pc, writes, progress, sq, pending, error, calls,
                   faults, result>>
    /\ UNCHANGED disk

\* Mutant: the completions are not waited for.
BugCancelled ==
    /\ pc = "cancel"
    /\ pc' = "close"
    /\ UNCHANGED <<ring, writes, progress, error, calls, faults, result>>
    /\ UNCHANGED queue /\ UNCHANGED disk

\* Every index has been cancelled, or was not found.
Cancelled ==
    /\ pc = "cancel" /\ inflight = {}
    /\ pc' = IF pending > 0 THEN "reap" ELSE "close"
    /\ UNCHANGED <<ring, writes, progress, error, calls, faults, result>>
    /\ UNCHANGED queue /\ UNCHANGED disk

\* Every pending completion is taken, whatever it says.
Reap ==
    /\ pc = "reap" /\ cq # <<>>
    /\ cq' = Tail(cq)
    /\ pending' = pending - 1
    /\ pc' = IF pending' > 0 THEN "reap" ELSE "close"
    /\ UNCHANGED <<ring, writes, progress, sq, inflight, error, calls, faults,
                   result>>
    /\ UNCHANGED disk

\* The ring goes, with what was prepared and never submitted.
Aborted ==
    /\ pc = "close"
    /\ CloseRing
    /\ ReturnWith("failed")
    /\ UNCHANGED <<writes, progress, inflight, pending, error, calls, faults>>
    /\ UNCHANGED disk

\* A cancellation or a wait fails in the middle: _Exit, since the requests
\* cannot be shown to have ended.
Exit ==
    /\ pc \in {"cancel", "reap"} /\ pending > 0 /\ Fault
    /\ ring' = "exited" /\ pc' = "exited"
    /\ UNCHANGED <<writes, progress, error, calls, result>>
    /\ UNCHANGED queue /\ UNCHANGED disk

-----------------------------------------------------------------------------
(* kvs_uring_io_sync.                                                       *)

Sync ==
    /\ Call
    /\ writes' = <<>> /\ progress' = <<>>
    /\ pc' = "sync" /\ result' = "none"
    /\ UNCHANGED <<ring, error, faults>> /\ UNCHANGED queue /\ UNCHANGED disk

SyncSubmit ==
    /\ pc = "sync"
    /\ inflight' = inflight \cup {[op |-> "fsync", data |-> 1, from |-> 0,
                                   len |-> 0]}
    /\ pending' = pending + 1
    /\ pc' = "synced"
    /\ UNCHANGED <<ring, writes, progress, sq, cq, error, calls, faults, result>>
    /\ UNCHANGED disk

SyncSubmitError ==
    /\ pc = "sync" /\ Fault
    /\ CloseRing
    /\ ReturnWith("failed")
    /\ UNCHANGED <<writes, progress, inflight, pending, error, calls>>
    /\ UNCHANGED disk

\* Mutant: an interrupted fsync is waited for again, not issued again.
BugSyncReceive ==
    /\ pc = "synced" /\ cq # <<>>
    /\ cq' = Tail(cq)
    /\ pending' = pending - 1
    /\ IF Head(cq).why = "EINTR" THEN UNCHANGED <<pc, result>>
       ELSE ReturnWith(IF Head(cq).why = "done" THEN "ok" ELSE "failed")
    /\ UNCHANGED <<ring, writes, progress, sq, inflight, error, calls, faults>>
    /\ UNCHANGED disk

SyncReceive ==
    /\ pc = "synced" /\ cq # <<>>
    /\ cq' = Tail(cq)
    /\ pending' = pending - 1
    /\ IF Head(cq).why = "EINTR" THEN pc' = "sync" /\ UNCHANGED result
       ELSE ReturnWith(IF Head(cq).why = "done" THEN "ok" ELSE "failed")
    /\ UNCHANGED <<ring, writes, progress, sq, inflight, error, calls, faults>>
    /\ UNCHANGED disk

-----------------------------------------------------------------------------
(* The kernel.                                                              *)

\* The first n bytes of a request reach the file, from the caller's buffer.
Written(r, n) ==
    [o \in Offset |->
        LET p == o - writes[r.data].off IN
        IF r.data \in DOMAIN writes /\ p \in r.from .. r.from + n - 1
        THEN ByteAt(calls, r.data, p) ELSE file[o]]

Complete(r, c) ==
    /\ inflight' = inflight \ {r}
    /\ cq' = Append(cq, c)
    /\ UNCHANGED <<ring, pc, writes, progress, sq, pending, error, calls, result>>

\* A write ends after n bytes, n = r.len or fewer; n may be 0.
KernelWrites(r, n) ==
    /\ r.op = "write" /\ n <= r.len
    /\ file' = Written(r, n)
    /\ IF n > 0 THEN UNCHANGED faults ELSE Fault
    /\ Complete(r, [data |-> r.data, res |-> n, why |-> "done"])
    /\ UNCHANGED durable

KernelSyncs(r) ==
    /\ r.op = "fsync"
    /\ durable' = file
    /\ Complete(r, [data |-> r.data, res |-> 0, why |-> "done"])
    /\ UNCHANGED <<faults, file>>

\* Interrupted, or failed; a failed write may have changed any part of its range.
KernelFails(r, why, n) ==
    /\ n = 0 \/ (r.op = "write" /\ why = "error" /\ n <= r.len)
    /\ Fault
    /\ file' = IF r.op = "write" THEN Written(r, n) ELSE file
    /\ Complete(r, [data |-> r.data, res |-> 0, why |-> why])
    /\ UNCHANGED durable

Kernel ==
    \E r \in inflight :
        \/ \E n \in 0 .. r.len : KernelWrites(r, n)
        \/ KernelSyncs(r)
        \/ \E why \in {"EINTR", "error"}, n \in 0 .. r.len : KernelFails(r, why, n)

Step ==
    \/ Prepare
    \/ \E n \in 1 .. QueueDepth : Submit(n)
    \/ SubmitError
    \/ Receive
    \/ WaitError
    \/ \E r \in inflight : Cancel(r)
    \/ Cancelled
    \/ Reap
    \/ Aborted
    \/ Exit
    \/ SyncSubmit
    \/ SyncSubmitError
    \/ SyncReceive

Next ==
    \/ Open
    \/ Close
    \/ \E b \in Batch : WriteBatch(b)
    \/ Sync
    \/ Step
    \/ Kernel

Spec == Init /\ [][Next]_vars

\* The thread runs, and the kernel ends every request it was given.
FairSpec == Spec /\ WF_vars(Step) /\ WF_vars(Kernel)

-----------------------------------------------------------------------------
(* Properties.                                                              *)

\* The variables have the shape of the ring's and the call's state; no more
\* requests are out than the queue has entries.
TypeOK ==
    /\ ring \in {"open", "closed", "exited"}
    /\ pc \in {"idle", "prepare", "submit", "receive", "cancel", "reap",
               "close", "sync", "synced", "exited"}
    /\ DOMAIN progress = DOMAIN writes
    /\ \A i \in DOMAIN progress :
           progress[i] \in [completed : Nat, requested : Nat]
    /\ sq \in Seq(Request)
    /\ inflight \subseteq Request
    /\ cq \in Seq(Cqe)
    /\ pending \in 0 .. QueueDepth
    /\ result \in {"none", "ok", "failed"}

\* No request, no completion and no count is left.
Quiet == inflight = {} /\ sq = <<>> /\ cq = <<>> /\ pending = 0

\* The count that decides how many completions the abort path waits for is the
\* number of requests that still run or wait in the completion queue: one too
\* many and it waits for ever, one too few and a request outlives the call.
PendingExact ==
    pending = Cardinality(inflight) + Len(cq)

\* What the progress record calls completed is in the file, so that a round
\* that resumes behind it never skips a byte, after short, interrupted and
\* out-of-order completions.
ProgressInFile ==
    pc # "idle" =>
        \A i \in DOMAIN writes : \A p \in 0 .. progress[i].completed - 1 :
            file[writes[i].off + p] = ByteAt(calls, i, p)

\* A call that has returned leaves nothing behind: no request the kernel could
\* still serve from a buffer the caller frees or refills, no prepared request a
\* later submission would send along, no completion a later call would take for
\* its own.  (uring_abort_requests; the comment of snapshot_writer_close relies
\* on it.)  For this the count of completions to wait for is exact at every
\* step, and what a round resumes behind is in the file.
NothingLeftBehind ==
    /\ TypeOK
    /\ pc = "idle" => Quiet
    /\ PendingExact
    /\ ProgressInFile

\* What the running call is to write: offset -> byte.
Job ==
    [o \in {x \in Offset : \E i \in DOMAIN writes :
                x \in writes[i].off .. writes[i].off + writes[i].len - 1} |->
        LET i == CHOOSE k \in DOMAIN writes :
                     o \in writes[k].off .. writes[k].off + writes[k].len - 1
        IN  ByteAt(calls, i, o - writes[i].off)]

Promise == INSTANCE FileWriter WITH
               job <- Job, syncing <- writes = <<>>, running <- pc # "idle"

\* The writer does what FileWriter promises to its callers: a call that reports
\* success has written the whole batch, or synchronised what was written before,
\* and no byte changes but by a call that runs.
Refines == Promise!Spec

\* Every call returns, or the process has ended: no wait for a completion that
\* does not come, no endless resubmission.
CallsReturn == pc \notin {"idle", "exited"} ~> pc \in {"idle", "exited"}
=============================================================================
