---------------------------- MODULE FileIOProof -----------------------------
(***************************************************************************)
(* The io_uring writer for every queue depth, every set of batches and any *)
(* number of faults: a call leaves nothing behind, and the writer          *)
(* implements FileWriter.                                                  *)
(*                                                                         *)
(* WriterInv ties every request and every completion to the progress of    *)
(* its own block.  Blocks do not overlap and no block has two requests, so *)
(* what the kernel does to one leaves the others alone.                    *)
(*                                                                         *)
(* The snapshot file, for any stored data and any sizes of the writer's    *)
(* buffer: a snapshot is written without a gap and loaded as it was saved, *)
(* and a damaged one is refused.  SnapInv says where in the file every     *)
(* record is, so that the passes of the load can be followed record by     *)
(* record.                                                                 *)
(***************************************************************************)
EXTENDS UringIO, FiniteSetTheorems, SequenceTheorems, WellFoundedInduction, TLAPS

-----------------------------------------------------------------------------
(* The inductive invariant.                                                 *)

TheSync == [op |-> "fsync", data |-> 1, from |-> 0, len |-> 0]

\* The variables, the ones TypeOK leaves out included.
Types ==
    /\ ring \in {"open", "closed", "exited"}
    /\ pc \in {"idle", "prepare", "submit", "receive", "cancel", "reap",
               "close", "sync", "synced", "exited"}
    /\ writes \in Seq([off : Nat, len : Nat])
    /\ progress \in [DOMAIN writes -> [completed : Nat, requested : Nat]]
    /\ sq \in Seq(Request)
    /\ inflight \in SUBSET Request
    /\ cq \in Seq(Cqe)
    /\ pending \in Nat
    /\ error \in BOOLEAN
    /\ calls \in Nat
    /\ faults \in Nat
    /\ result \in {"none", "ok", "failed"}

\* The batch under way was accepted, and no block is ahead of itself.
BatchInv ==
    pc # "idle" =>
        /\ Valid(writes)
        /\ \A i \in DOMAIN writes :
               progress[i].completed + progress[i].requested <= writes[i].len

\* How many requests are out in each phase of a call.
PhaseInv ==
    /\ IsFiniteSet(inflight)
    /\ PendingExact
    /\ pending + Len(sq) <= QueueDepth
    /\ pc \in {"idle", "prepare", "sync"} => Quiet
    /\ pc \in {"receive", "synced"} => sq = <<>>
    /\ pc = "synced" => pending = 1
    /\ pc \in {"reap", "close"} => inflight = {}
    /\ pc = "close" => pending = 0
    /\ pc \in {"prepare", "submit", "receive"} => writes # <<>>
    /\ pc \in {"sync", "synced"} => writes = <<>>

\* A request that has not ended is for what its block lacks next.
Asks(r) ==
    IF writes = <<>> THEN r = TheSync
    ELSE /\ r.op = "write"
         /\ r.data \in DOMAIN writes
         /\ r.from = progress[r.data].completed
         /\ r.len = progress[r.data].requested

\* A completion tells the truth about its block, or about the sync.
Tells(c) ==
    IF writes = <<>> THEN c.why = "done" => durable = file
    ELSE /\ c.data \in DOMAIN writes
         /\ c.why = "done" =>
              /\ c.res \in 0 .. progress[c.data].requested
              /\ \A p \in progress[c.data].completed ..
                          progress[c.data].completed + c.res - 1 :
                     file[writes[c.data].off + p] = ByteAt(calls, c.data, p)

\* No two requests or completions are of one block.
OnePerBlock ==
    /\ \A m, n \in DOMAIN sq : sq[m].data = sq[n].data => m = n
    /\ \A m, n \in DOMAIN cq : cq[m].data = cq[n].data => m = n
    /\ \A r, s \in inflight : r.data = s.data => r = s
    /\ \A m \in DOMAIN sq, r \in inflight : sq[m].data # r.data
    /\ \A m \in DOMAIN sq, n \in DOMAIN cq : sq[m].data # cq[n].data
    /\ \A r \in inflight, n \in DOMAIN cq : r.data # cq[n].data

QueueInv ==
    /\ \A n \in DOMAIN sq : Asks(sq[n])
    /\ \A r \in inflight : Asks(r)
    /\ \A n \in DOMAIN cq : Tells(cq[n])
    /\ OnePerBlock

WriterInv == Types /\ BatchInv /\ PhaseInv /\ QueueInv /\ ProgressInFile

-----------------------------------------------------------------------------
(* Sets of block numbers and sequences.                                     *)

\* A set that holds 0 and the successor of each of its numbers holds them all.
LEMMA NatSetInduction ==
    ASSUME NEW S, 0 \in S, \A n \in Nat : n \in S => n + 1 \in S
    PROVE  \A n \in Nat : n \in S
<1> DEFINE T == Nat \ S
           below == OpToRel(<, Nat)
<1> SUFFICES ASSUME T # {} PROVE FALSE
    OBVIOUS
<1>1. PICK x \in T : \A y \in T : ~ (<<y, x>> \in below)
    <2>1. T \subseteq Nat
        OBVIOUS
    <2>2. IsWellFoundedOn(below, Nat)
        BY NatLessThanWellFounded
    <2> HIDE DEF T, below
    <2> QED
        BY <2>1, <2>2, WFMin
<1>2. x # 0 /\ x - 1 \in Nat /\ x - 1 < x
    OBVIOUS
<1>3. <<x - 1, x>> \in below
    BY <1>2 DEF OpToRel
<1>4. x - 1 \notin T
    BY <1>1, <1>3
<1> QED
    BY <1>2, <1>4

\* The numbers of a set that are smaller than one of them.
Smaller(S, i) == {j \in S : j < i}

\* A finite set of numbers has a member of every rank.
LEMMA EveryRank ==
    ASSUME NEW m \in Nat, NEW S \in SUBSET (1 .. m), NEW n \in 1 .. Cardinality(S)
    PROVE  \E i \in S : Cardinality(Smaller(S, i)) = n - 1
<1> DEFINE Good == {k \in Nat : \A Q \in SUBSET (1 .. k) : \A a \in 1 .. Cardinality(Q) :
                        \E i \in Q : Cardinality(Smaller(Q, i)) = a - 1}
<1>1. 0 \in Good
    <2>1. ASSUME NEW Q \in SUBSET (1 .. 0) PROVE Cardinality(Q) = 0
        <3>1. Q = {}
            OBVIOUS
        <3> QED
            BY <3>1, FS_EmptySet
    <2> QED
        BY <2>1
<1>2. ASSUME NEW k \in Nat, k \in Good PROVE k + 1 \in Good
    <2> SUFFICES ASSUME NEW Q \in SUBSET (1 .. k + 1), NEW a \in 1 .. Cardinality(Q)
                 PROVE  \E i \in Q : Cardinality(Smaller(Q, i)) = a - 1
        OBVIOUS
    <2> DEFINE R == Q \ {k + 1}
    <2>1. R \in SUBSET (1 .. k)
        OBVIOUS
    <2>2. IsFiniteSet(R) /\ Cardinality(R) \in Nat
        <3>1. IsFiniteSet(1 .. k)
            BY FS_Interval
        <3> QED
            BY <2>1, <3>1, FS_Subset, FS_CardinalityType
    <2>3. \A b \in 1 .. Cardinality(R) : \E i \in R : Cardinality(Smaller(R, i)) = b - 1
        BY <1>2, <2>1
    <2>4. \A i \in R : Smaller(R, i) = Smaller(Q, i)
        BY <2>1 DEF Smaller
    <2>5. CASE k + 1 \notin Q
        <3>1. R = Q
            BY <2>5
        <3> QED
            BY <2>3, <3>1
    <2>6. CASE k + 1 \in Q
        <3>1. Q = R \cup {k + 1} /\ k + 1 \notin R
            BY <2>6
        <3>2. Cardinality(Q) = Cardinality(R) + 1
            <4> HIDE DEF R
            <4> QED
                BY <3>1, <2>2, FS_AddElement
        <3>3. Smaller(Q, k + 1) = R
            <4>1. \A j \in Q : j \in Int /\ (j < k + 1 <=> j # k + 1)
                OBVIOUS
            <4> QED
                BY <4>1 DEF Smaller
        <3>4. CASE a <= Cardinality(R)
            <4>1. PICK i \in R : Cardinality(Smaller(R, i)) = a - 1
                BY <2>3, <2>2, <3>4
            <4> QED
                BY <4>1, <2>4
        <3>5. CASE a = Cardinality(R) + 1
            <4>1. Cardinality(Smaller(Q, k + 1)) = Cardinality(R)
                BY <3>3
            <4> HIDE DEF R
            <4> QED
                BY <4>1, <3>5, <2>6, <2>2
        <3> QED
            BY <3>2, <3>4, <3>5, <2>2
    <2> QED
        BY <2>5, <2>6
<1> HIDE DEF Good
<1>3. \A k \in Nat : k \in Good
    BY <1>1, <1>2, NatSetInduction
<1> QED
    BY <1>3 DEF Good

\* An enumeration without repetition has as many elements as numbers.
LEMMA ImageSize ==
    ASSUME NEW n \in Nat, NEW f, DOMAIN f = 1 .. n, NEW A,
           A = {f[i] : i \in 1 .. n},
           \A i, j \in 1 .. n : f[i] = f[j] => i = j
    PROVE  IsFiniteSet(A) /\ Cardinality(A) = n
<1> DEFINE g == [i \in 1 .. n |-> f[i]]
<1>1. g \in Bijection(1 .. n, A)
    <2>1. g \in [1 .. n -> A]
        OBVIOUS
    <2>2. \A i, j \in 1 .. n : g[i] = g[j] => i = j
        OBVIOUS
    <2>3. \A a \in A : \E i \in 1 .. n : g[i] = a
        OBVIOUS
    <2> HIDE DEF g
    <2> QED
        BY <2>1, <2>2, <2>3 DEF Bijection, Injection, Surjection, IsInjective
<1>2. ExistsBijection(1 .. n, A)
    BY <1>1 DEF ExistsBijection
<1>3. IsFiniteSet(A)
    BY <1>2, FS_NatBijection
<1>4. Cardinality(A) = n
    BY <1>2, FS_CountingElements
<1> QED
    BY <1>3, <1>4

\* A member of a sequence.
LEMMA MemberType ==
    ASSUME NEW T, NEW s \in Seq(T), NEW i \in DOMAIN s
    PROVE  s[i] \in T
    OBVIOUS

\* The first n of a sequence and the others.
LEMMA SplitFacts ==
    ASSUME NEW T, NEW s \in Seq(T), NEW n \in 0 .. Len(s)
    PROVE  /\ SubSeq(s, n + 1, Len(s)) \in Seq(T)
           /\ Len(SubSeq(s, n + 1, Len(s))) = Len(s) - n
           /\ \A i \in 1 .. Len(s) - n : SubSeq(s, n + 1, Len(s))[i] = s[n + i]
<1>1. \A i \in n + 1 .. Len(s) : s[i] \in T
    OBVIOUS
<1> QED
    BY <1>1

\* What is behind the first element.
LEMMA TailFacts ==
    ASSUME NEW T, NEW s \in Seq(T), s # <<>>
    PROVE  /\ Tail(s) \in Seq(T)
           /\ Len(s) \in Nat /\ Len(s) >= 1
           /\ Len(Tail(s)) = Len(s) - 1
           /\ Head(s) = s[1] /\ Head(s) \in T
           /\ \A i \in DOMAIN Tail(s) : i + 1 \in DOMAIN s /\ Tail(s)[i] = s[i + 1]
    OBVIOUS

\* One more at the end.
LEMMA AppendFacts ==
    ASSUME NEW T, NEW s \in Seq(T), NEW x \in T
    PROVE  /\ Append(s, x) \in Seq(T)
           /\ Len(Append(s, x)) = Len(s) + 1
           /\ DOMAIN Append(s, x) = DOMAIN s \cup {Len(s) + 1}
           /\ \A i \in DOMAIN s : Append(s, x)[i] = s[i]
           /\ Append(s, x)[Len(s) + 1] = x
    OBVIOUS

\* The requests of a round: one for each block of S, in some order.
LEMMA RoundRequests ==
    ASSUME Types, NEW S \in SUBSET DOMAIN writes
    PROVE  /\ IsFiniteSet(S) /\ Cardinality(S) \in 0 .. Len(writes)
           /\ DOMAIN InOrder(S) = 1 .. Cardinality(S)
           /\ \A n \in 1 .. Cardinality(S) : \E i \in S : InOrder(S)[n] = WriteRequest(i)
           /\ \A m, n \in 1 .. Cardinality(S) :
                  InOrder(S)[m].data = InOrder(S)[n].data => m = n
<1> DEFINE c == Cardinality(S)
           at(n) == CHOOSE i \in S : Cardinality({j \in S : j < i}) = n - 1
<1>1. Len(writes) \in Nat /\ DOMAIN writes = 1 .. Len(writes)
    BY DEF Types
<1>2. IsFiniteSet(S) /\ c \in Nat /\ c <= Len(writes)
    <2>1. IsFiniteSet(1 .. Len(writes)) /\ Cardinality(1 .. Len(writes)) = Len(writes)
        BY <1>1, FS_Interval
    <2> QED
        BY <2>1, <1>1, FS_Subset, FS_CardinalityType
<1>3. ASSUME NEW n \in 1 .. c
      PROVE  at(n) \in S /\ Cardinality({j \in S : j < at(n)}) = n - 1
    <2>1. \E i \in S : Cardinality({j \in S : j < i}) = n - 1
        BY <1>1, EveryRank DEF Smaller
    <2> QED
        BY <2>1
<1>4. ASSUME NEW m \in 1 .. c, NEW n \in 1 .. c, at(m) = at(n) PROVE m = n
    <2> HIDE DEF at
    <2>1. m - 1 = n - 1
        BY <1>3, <1>4
    <2> QED
        BY <2>1
<1>5. /\ DOMAIN InOrder(S) = 1 .. c
      /\ \A n \in 1 .. c : InOrder(S)[n] = WriteRequest(at(n))
    BY DEF InOrder
<1>6. \A i \in S : WriteRequest(i).data = i
    BY DEF WriteRequest
<1> HIDE DEF at, c
<1>7. \A n \in 1 .. c : \E i \in S : InOrder(S)[n] = WriteRequest(i)
    BY <1>3, <1>5
<1>8. \A m, n \in 1 .. c : InOrder(S)[m].data = InOrder(S)[n].data => m = n
    BY <1>3, <1>4, <1>5, <1>6
<1> QED
    BY <1>1, <1>2, <1>5, <1>7, <1>8 DEF c

-----------------------------------------------------------------------------
(* Every step keeps the invariant.                                          *)

\* Nothing was ever requested.
LEMMA InitWriter == Init => WriterInv
<1> SUFFICES ASSUME Init PROVE WriterInv
    OBVIOUS
<1>1. IsFiniteSet({}) /\ Cardinality({}) = 0
    BY FS_EmptySet
<1>2. Types
    <2>1. writes = <<>> /\ DOMAIN writes = {} /\ progress = <<>>
        BY DEF Init
    <2>2. progress \in [DOMAIN writes -> [completed : Nat, requested : Nat]]
        BY <2>1
    <2>3. \A T : <<>> \in Seq(T)
        OBVIOUS
    <2> QED
        BY <2>2, <2>3 DEF Init, Types
<1>3. PhaseInv
    BY <1>1, UringAssumption DEF Init, PhaseInv, PendingExact, Quiet
<1> QED
    BY <1>2, <1>3 DEF Init, WriterInv, BatchInv, QueueInv, OnePerBlock, ProgressInFile

\* The queues and what they are about stay; the phase may change.
Stays == UNCHANGED <<writes, progress, sq, inflight, cq, pending, calls, file, durable>>

LEMMA StaysQueue ==
    ASSUME WriterInv, Stays
    PROVE  QueueInv' /\ (IsFiniteSet(inflight) /\ PendingExact /\ pending + Len(sq) <= QueueDepth)'
    BY DEF WriterInv, Stays, QueueInv, OnePerBlock, Asks, Tells, PhaseInv, PendingExact

\* kvs_uring_io_init and kvs_uring_io_close between calls.
LEMMA OpenCloseWriter ==
    ASSUME WriterInv, Open \/ Close
    PROVE  WriterInv'
<1>1. pc = "idle" /\ Quiet /\ pc' = pc
    BY DEF WriterInv, PhaseInv, Open, Close
<1>2. Stays
    BY <1>1 DEF Open, Close, CloseRing, Stays, Quiet, queue, disk
<1>3. Types'
    BY <1>2 DEF Open, Close, CloseRing, Types, WriterInv, Stays
<1>4. PhaseInv'
    BY <1>1, <1>2, StaysQueue DEF PhaseInv, WriterInv, Stays, Quiet
<1> QED
    BY <1>1, <1>2, <1>3, <1>4, StaysQueue DEF WriterInv, BatchInv, ProgressInFile

\* A call begins or is refused.
LEMMA CallWriter ==
    ASSUME WriterInv, Sync \/ \E b \in Batch : WriteBatch(b)
    PROVE  WriterInv'
<1>1. /\ pc = "idle" /\ Quiet /\ UNCHANGED <<ring, error, faults, sq, inflight, cq, pending, file, durable>>
      /\ calls' = calls + 1 /\ calls \in Nat
    BY DEF WriterInv, PhaseInv, Types, Sync, WriteBatch, Call, queue, disk
<1>2. QueueInv'
    BY <1>1 DEF QueueInv, OnePerBlock, Quiet
<1>3. CASE Sync
    <2>1. pc' = "sync" /\ writes' = <<>> /\ progress' = <<>> /\ result' = "none"
        BY <1>3 DEF Sync
    <2>2. Types'
        BY <1>1, <2>1 DEF WriterInv, Types
    <2>3. PhaseInv'
        BY <1>1, <2>1 DEF WriterInv, PhaseInv, PendingExact, Quiet
    <2>4. BatchInv' /\ ProgressInFile'
        BY <2>1, UringAssumption DEF BatchInv, ProgressInFile, Valid
    <2> QED
        BY <1>2, <2>2, <2>3, <2>4 DEF WriterInv
<1>4. ASSUME NEW b \in Batch, WriteBatch(b) PROVE WriterInv'
    <2>1. CASE b # <<>> /\ Valid(b)
        <3>1. /\ writes' = b
              /\ progress' = [i \in DOMAIN b |-> [completed |-> 0, requested |-> 0]]
              /\ pc' = "prepare" /\ result' = "none"
            BY <1>4, <2>1 DEF WriteBatch
        <3>2. b \in Seq([off : Nat, len : Nat])
            BY UringAssumption
        <3>3. Types'
            BY <1>1, <3>1, <3>2 DEF WriterInv, Types
        <3>4. PhaseInv'
            BY <1>1, <2>1, <3>1 DEF WriterInv, PhaseInv, PendingExact, Quiet
        <3>5. \A i \in DOMAIN b : b[i].len \in Nat
            <4>1. \A i \in DOMAIN b : b[i] \in [off : Nat, len : Nat]
                BY <3>2, MemberType
            <4> QED
                BY <4>1
        <3>6. BatchInv' /\ ProgressInFile'
            <4>1. Valid(writes)'
                BY <2>1, <3>1 DEF Valid, Overlap
            <4>2. \A i \in DOMAIN b : progress'[i].completed = 0 /\ progress'[i].requested = 0
                BY <3>1
            <4> QED
                BY <3>1, <3>5, <4>1, <4>2 DEF BatchInv, ProgressInFile
        <3> QED
            BY <1>2, <3>3, <3>4, <3>6 DEF WriterInv
    <2>2. CASE ~(b # <<>> /\ Valid(b))
        <3>1. pc' = "idle" /\ result' \in {"ok", "failed"} /\ UNCHANGED <<writes, progress>>
            BY <1>4, <2>2 DEF WriteBatch, ReturnWith
        <3>2. Types'
            BY <1>1, <3>1 DEF WriterInv, Types
        <3>3. PhaseInv'
            BY <1>1, <3>1 DEF WriterInv, PhaseInv, PendingExact, Quiet
        <3> QED
            BY <1>2, <3>1, <3>2, <3>3 DEF WriterInv, BatchInv, ProgressInFile
    <2> QED
        BY <2>1, <2>2
<1> QED
    BY <1>3, <1>4

\* An abort begins, goes on from cancelling, ends the process, or ends.
LEMMA AbortWriter ==
    ASSUME WriterInv, SubmitError \/ WaitError \/ Cancelled \/ Exit
    PROVE  WriterInv'
<1>1. /\ Stays /\ UNCHANGED <<error, result>> /\ pc # "idle"
      /\ pc' \in {"cancel", "reap", "close", "exited"}
      /\ pc' \in {"reap", "close"} => inflight = {}
      /\ pc' = "close" => ~(pending > 0)
      /\ ring' \in {ring, "exited"} /\ faults' \in {faults, faults + 1}
    BY DEF SubmitError, WaitError, Cancelled, Exit, Fault, Abort, Stays, queue, disk
<1>2. Types'
    BY <1>1 DEF Types, WriterInv, Stays
<1>3. PhaseInv'
    <2>1. (pc = "close" => pending = 0)'
        BY <1>1 DEF WriterInv, Types, Stays
    <2>2. (pc \in {"reap", "close"} => inflight = {})'
        BY <1>1 DEF Stays
    <2>3. pc' \notin {"idle", "prepare", "sync", "receive", "synced", "submit"}
        BY <1>1
    <2> QED
        BY <2>1, <2>2, <2>3, <1>1, StaysQueue DEF PhaseInv
<1>4. BatchInv' /\ ProgressInFile'
    BY <1>1 DEF WriterInv, BatchInv, ProgressInFile, Stays, Valid, Overlap
<1> QED
    BY <1>1, <1>2, <1>3, <1>4, StaysQueue DEF WriterInv

\* The abort returns, or a sync that could not be submitted.
LEMMA ReturnWriter ==
    ASSUME WriterInv, Aborted \/ SyncSubmitError
    PROVE  WriterInv'
<1>1. /\ inflight = {} /\ pending = 0 /\ cq = <<>>
    <2>1. inflight = {} /\ pending = 0
        BY DEF Aborted, SyncSubmitError, WriterInv, PhaseInv, Quiet
    <2>2. Len(cq) = 0
        BY <2>1, FS_EmptySet DEF WriterInv, PhaseInv, PendingExact, Types
    <2> QED
        BY <2>1, <2>2 DEF WriterInv, Types
<1>2. /\ pc' = "idle" /\ ring' = "closed" /\ result' = "failed" /\ sq' = <<>> /\ cq' = <<>>
      /\ faults' \in {faults, faults + 1}
      /\ UNCHANGED <<writes, progress, inflight, pending, error, calls, file, durable>>
    BY DEF Aborted, SyncSubmitError, CloseRing, ReturnWith, Fault, disk
<1>3. Types'
    BY <1>2 DEF Types, WriterInv
<1>4. PhaseInv'
    BY <1>1, <1>2, FS_EmptySet, UringAssumption DEF PhaseInv, PendingExact, Quiet
<1>5. QueueInv'
    BY <1>1, <1>2 DEF QueueInv, OnePerBlock
<1> QED
    BY <1>2, <1>3, <1>4, <1>5 DEF WriterInv, BatchInv, ProgressInFile

\* A round begins, or the batch is done.
LEMMA PrepareWriter ==
    ASSUME WriterInv, Prepare
    PROVE  WriterInv'
<1>1. /\ pc = "prepare" /\ Quiet /\ writes # <<>> /\ Types /\ Valid(writes)
      /\ UNCHANGED <<ring, writes, inflight, cq, pending, calls, faults, file, durable>>
    BY DEF Prepare, WriterInv, PhaseInv, BatchInv, disk
<1>2. CASE Unfinished = {}
    <2>1. pc' = "idle" /\ result' = "ok" /\ UNCHANGED <<sq, progress, error>>
        BY <1>2 DEF Prepare, ReturnWith
    <2>2. Types'
        BY <1>1, <2>1 DEF Types
    <2>3. PhaseInv'
        BY <1>1, <2>1 DEF WriterInv, PhaseInv, PendingExact, Quiet
    <2>4. QueueInv'
        BY <1>1, <2>1 DEF QueueInv, OnePerBlock, Quiet
    <2> QED
        BY <2>1, <2>2, <2>3, <2>4 DEF WriterInv, BatchInv, ProgressInFile
<1>3. CASE Unfinished # {}
    <2> DEFINE U == Unfinished
               n == Cardinality(U)
    <2>1. /\ sq' = InOrder(U)
          /\ progress' = [i \in DOMAIN progress |->
                 [progress[i] EXCEPT !.requested =
                     IF i \in U THEN WriteRequest(i).len ELSE 0]]
          /\ pc' = "submit" /\ error' = FALSE /\ result' = result
        BY <1>3 DEF Prepare
    <2>2. U \in SUBSET DOMAIN writes
        BY DEF Unfinished
    <2>3. Len(writes) \in Nat /\ DOMAIN writes = 1 .. Len(writes) /\ Len(writes) <= QueueDepth
        BY <1>1 DEF Types, Valid
    <2>4. ASSUME NEW i \in DOMAIN writes
          PROVE  /\ writes[i].len \in Nat /\ writes[i].off \in Nat
                 /\ progress[i] \in [completed : Nat, requested : Nat]
                 /\ progress[i].completed \in Nat
                 /\ progress[i].completed <= writes[i].len
        <3>1. writes[i] \in [off : Nat, len : Nat]
            BY <1>1, MemberType DEF Types
        <3>2. progress[i] \in [completed : Nat, requested : Nat]
            BY <1>1 DEF Types
        <3>3. progress[i].completed + progress[i].requested <= writes[i].len
            BY <1>1 DEF WriterInv, BatchInv
        <3> QED
            BY <3>1, <3>2, <3>3
    <2>5. ASSUME NEW i \in DOMAIN writes
          PROVE  /\ WriteRequest(i) \in Request
                 /\ WriteRequest(i).op = "write" /\ WriteRequest(i).data = i
                 /\ WriteRequest(i).from = progress[i].completed
                 /\ WriteRequest(i).len \in Nat
                 /\ progress[i].completed + WriteRequest(i).len <= writes[i].len
        <3>1. i \in 1 .. QueueDepth
            BY <2>3, UringAssumption
        <3>2. /\ Least(writes[i].len - progress[i].completed, MaxRequest) \in Nat
              /\ Least(writes[i].len - progress[i].completed, MaxRequest)
                     <= writes[i].len - progress[i].completed
            BY <2>4, UringAssumption DEF Least
        <3>3. /\ WriteRequest(i).op = "write" /\ WriteRequest(i).data = i
              /\ WriteRequest(i).from = progress[i].completed
              /\ WriteRequest(i).len = Least(writes[i].len - progress[i].completed, MaxRequest)
            BY DEF WriteRequest
        <3>4. WriteRequest(i) \in Request
            BY <2>4, <3>1, <3>2 DEF WriteRequest, Request
        <3> QED
            BY <2>4, <3>2, <3>3, <3>4
    <2>6. /\ n \in Nat /\ n <= Len(writes)
          /\ DOMAIN sq' = 1 .. n
          /\ \A k \in 1 .. n : \E i \in U : sq'[k] = WriteRequest(i)
          /\ \A k, m \in 1 .. n : sq'[k].data = sq'[m].data => k = m
        BY <1>1, <2>1, <2>2, <2>3, RoundRequests
    <2> HIDE DEF U, n
    <2>7. sq' \in Seq(Request) /\ Len(sq') = n
        <3>1. \A k \in 1 .. n : sq'[k] \in Request
            BY <2>2, <2>5, <2>6
        <3>2. sq' = [k \in 1 .. n |-> sq'[k]]
            BY <2>1, <2>6 DEF InOrder, n, U
        <3>3. [k \in 1 .. n |-> sq'[k]] \in Seq(Request)
            BY <3>1, <2>6
        <3> QED
            BY <3>2, <3>3, <2>6
    <2>8. DOMAIN progress = DOMAIN writes
        BY <1>1 DEF Types
    <2>9. ASSUME NEW i \in DOMAIN writes
          PROVE  /\ progress'[i] \in [completed : Nat, requested : Nat]
                 /\ progress'[i].completed = progress[i].completed
                 /\ progress'[i].requested = IF i \in U THEN WriteRequest(i).len ELSE 0
                 /\ progress'[i].completed + progress'[i].requested <= writes[i].len
        BY <2>1, <2>4, <2>5, <2>8
    <2>10. progress' \in [DOMAIN writes -> [completed : Nat, requested : Nat]]
        BY <2>1, <2>8, <2>9
    <2>11. Types'
        BY <1>1, <2>1, <2>7, <2>10 DEF Types
    <2>12. PhaseInv'
        <3>1. (pending + Len(sq) <= QueueDepth)'
            BY <1>1, <2>3, <2>6, <2>7, UringAssumption DEF Quiet
        <3>2. (IsFiniteSet(inflight) /\ PendingExact)'
            BY <1>1 DEF WriterInv, PhaseInv, PendingExact
        <3> QED
            BY <1>1, <2>1, <3>1, <3>2 DEF PhaseInv
    <2>13. BatchInv' /\ ProgressInFile'
        <3>1. Valid(writes)'
            BY <1>1 DEF Valid, Overlap
        <3> QED
            BY <1>1, <2>9, <3>1 DEF WriterInv, BatchInv, ProgressInFile
    <2>14. ASSUME NEW k \in DOMAIN sq' PROVE Asks(sq[k])'
        <3>1. PICK i \in U : sq'[k] = WriteRequest(i)
            BY <2>6
        <3> QED
            BY <1>1, <2>2, <2>5, <2>9, <3>1 DEF Asks
    <2>15. QueueInv'
        BY <1>1, <2>6, <2>14 DEF QueueInv, OnePerBlock, Quiet
    <2> QED
        BY <2>11, <2>12, <2>13, <2>15 DEF WriterInv
<1> QED
    BY <1>2, <1>3

\* The types of a block, its progress and a request for it.
LEMMA BlockTypes ==
    ASSUME WriterInv, pc # "idle", NEW i \in DOMAIN writes
    PROVE  /\ i \in 1 .. QueueDepth
           /\ writes[i].off \in Nat /\ writes[i].len \in Nat
           /\ writes[i].off + writes[i].len <= FileLimit
           /\ progress[i] \in [completed : Nat, requested : Nat]
           /\ progress[i].completed \in Nat /\ progress[i].requested \in Nat
           /\ progress[i].completed + progress[i].requested <= writes[i].len
<1>1. writes[i] \in [off : Nat, len : Nat]
    BY MemberType DEF WriterInv, Types
<1>2. progress[i] \in [completed : Nat, requested : Nat]
    BY DEF WriterInv, Types
<1>3. i \in 1 .. QueueDepth
    <2>1. Len(writes) \in Nat /\ DOMAIN writes = 1 .. Len(writes)
        BY DEF WriterInv, Types
    <2>2. Len(writes) <= QueueDepth
        BY DEF WriterInv, BatchInv, Valid
    <2> QED
        BY <2>1, <2>2, UringAssumption
<1> QED
    BY <1>1, <1>2, <1>3 DEF WriterInv, BatchInv, Valid

\* Two places of two blocks, or of one, are two offsets of the file.
LEMMA PlacesApart ==
    ASSUME WriterInv, pc # "idle", NEW i \in DOMAIN writes, NEW j \in DOMAIN writes,
           NEW p \in 0 .. writes[i].len - 1, NEW q \in 0 .. writes[j].len - 1,
           writes[i].off + p = writes[j].off + q
    PROVE  i = j /\ p = q
<1>1. /\ writes[i].off \in Nat /\ writes[i].len \in Nat
      /\ writes[j].off \in Nat /\ writes[j].len \in Nat
    BY BlockTypes
<1>2. i # j => ~Overlap(writes[i], writes[j])
    BY DEF WriterInv, BatchInv, Valid
<1> QED
    BY <1>1, <1>2 DEF Overlap

\* A request ends: it leaves the kernel and its completion c waits in the queue.
\* What the kernel wrote lies inside the request.
LEMMA EndedWriter ==
    ASSUME WriterInv, pc # "idle",
           NEW r \in inflight, NEW c \in Cqe, c.data = r.data,
           inflight' = inflight \ {r}, cq' = Append(cq, c),
           UNCHANGED <<ring, pc, writes, progress, sq, pending, error, calls, result>>,
           faults' \in {faults, faults + 1},
           \A i \in DOMAIN writes : \A p \in 0 .. writes[i].len - 1 :
               \/ file'[writes[i].off + p] = file[writes[i].off + p]
               \/ /\ i = r.data /\ p \in r.from .. r.from + r.len - 1
                  /\ file'[writes[i].off + p] = ByteAt(calls, i, p),
           writes = <<>> => file' = file /\ durable' \in {durable, file},
           Tells(c)'
    PROVE  WriterInv'
<1>1. Asks(r) /\ r \in Request /\ r.from \in Nat /\ r.len \in Nat
    <2>1. r \in Request
        BY DEF WriterInv, Types
    <2> QED
        BY <2>1 DEF WriterInv, QueueInv, Request
<1>2. /\ cq \in Seq(Cqe) /\ Len(cq) \in Nat
      /\ cq' \in Seq(Cqe) /\ Len(cq') = Len(cq) + 1
      /\ DOMAIN cq' = DOMAIN cq \cup {Len(cq) + 1}
      /\ \A n \in DOMAIN cq : cq'[n] = cq[n]
      /\ cq'[Len(cq) + 1] = c
    BY AppendFacts DEF WriterInv, Types
<1>3. Types'
    BY <1>2 DEF WriterInv, Types
<1>4. BatchInv'
    BY DEF WriterInv, BatchInv, Valid, Overlap
<1>5. PhaseInv'
    <2>1. /\ IsFiniteSet(inflight') /\ Cardinality(inflight') = Cardinality(inflight) - 1
          /\ Cardinality(inflight) \in Nat
        BY FS_RemoveElement, FS_CardinalityType DEF WriterInv, PhaseInv
    <2>2. PendingExact'
        BY <1>2, <2>1 DEF WriterInv, PhaseInv, PendingExact
    <2>3. pc \notin {"idle", "prepare", "sync", "reap", "close"}
        BY DEF WriterInv, PhaseInv, Quiet
    <2> QED
        BY <2>1, <2>2, <2>3 DEF WriterInv, PhaseInv
<1>6. ASSUME NEW i \in DOMAIN writes, NEW p \in 0 .. progress[i].completed - 1
      PROVE  file'[writes[i].off + p] = file[writes[i].off + p]
    <2>1. p \in 0 .. writes[i].len - 1
        BY BlockTypes
    <2>2. ~(i = r.data /\ p \in r.from .. r.from + r.len - 1)
        BY <1>1, BlockTypes DEF Asks
    <2> QED
        BY <2>1, <2>2
<1>7. ProgressInFile'
    BY <1>6 DEF WriterInv, ProgressInFile
<1>8. ASSUME NEW n \in DOMAIN cq PROVE Tells(cq[n])'
    <2>1. Tells(cq[n]) /\ cq[n].data # r.data
        BY DEF WriterInv, QueueInv, OnePerBlock
    <2>2. cq[n] \in Cqe
        BY <1>2, MemberType
    <2>3. CASE writes = <<>>
        BY <1>2, <2>1, <2>3 DEF Tells
    <2>4. CASE writes # <<>>
        <3> DEFINE d == cq[n].data
        <3>1. d \in DOMAIN writes
            BY <2>1, <2>4 DEF Tells
        <3>2. ASSUME cq[n].why = "done",
                     NEW p \in progress[d].completed .. progress[d].completed + cq[n].res - 1
              PROVE  file'[writes[d].off + p] = file[writes[d].off + p]
            <4>1. cq[n].res \in 0 .. progress[d].requested
                BY <2>1, <2>4, <3>2 DEF Tells
            <4>2. PICK a, q, l \in Nat : /\ a = progress[d].completed /\ q = progress[d].requested
                                         /\ l = writes[d].len /\ a + q <= l
                BY <3>1, BlockTypes
            <4>3. PICK x \in 0 .. q : x = cq[n].res
                BY <4>1, <4>2
            <4>4. p \in a .. a + x - 1
                BY <4>2, <4>3
            <4>5. p \in 0 .. l - 1
                <5>1. x \in Nat /\ x <= q /\ a + q <= l
                    BY <4>2, <4>3
                <5>2. p \in Int /\ a <= p /\ p <= a + x - 1
                    BY <4>4, <5>1
                <5> QED
                    BY <5>1, <5>2
            <4>6. p \in 0 .. writes[d].len - 1
                BY <4>2, <4>5
            <4> QED
                BY <2>1, <3>1, <4>6
        <3>3. cq'[n] = cq[n]
            BY <1>2
        <3> QED
            BY <2>1, <2>4, <3>1, <3>2, <3>3 DEF Tells
    <2> QED
        BY <2>3, <2>4
<1>9. QueueInv'
    <2>1. \A n \in DOMAIN sq' : Asks(sq[n])'
        BY DEF WriterInv, QueueInv, Asks
    <2>2. \A s \in inflight' : Asks(s)'
        BY DEF WriterInv, QueueInv, Asks
    <2>3. \A n \in DOMAIN cq' : Tells(cq[n])'
        <3>1. ASSUME NEW n, n = Len(cq) + 1 PROVE Tells(cq[n])'
            <4>1. cq'[n] = c
                BY <1>2, <3>1
            <4> QED
                BY <4>1 DEF Tells
        <3> QED
            BY <1>2, <1>8, <3>1
    <2>4. OnePerBlock'
        BY <1>2 DEF WriterInv, QueueInv, OnePerBlock
    <2> QED
        BY <2>1, <2>2, <2>3, <2>4 DEF QueueInv
<1> QED
    BY <1>3, <1>4, <1>5, <1>7, <1>9 DEF WriterInv

\* uring_abort_requests cancels a request.
LEMMA CancelWriter ==
    ASSUME WriterInv, NEW r \in inflight, Cancel(r)
    PROVE  WriterInv'
<1> DEFINE c == [data |-> r.data, res |-> 0, why |-> "error"]
<1>1. r \in Request
    BY DEF WriterInv, Types
<1>2. c \in Cqe /\ c.data = r.data /\ c.why = "error"
    BY <1>1 DEF Request, Cqe
<1>3. /\ pc # "idle" /\ inflight' = inflight \ {r} /\ cq' = Append(cq, c)
      /\ UNCHANGED <<ring, pc, writes, progress, sq, pending, error, calls, result>>
      /\ UNCHANGED <<faults, file, durable>>
    BY DEF Cancel, disk
<1> HIDE DEF c
<1>4. Tells(c)'
    <2>1. writes # <<>> => r.data \in DOMAIN writes
        BY DEF WriterInv, QueueInv, Asks
    <2> QED
        BY <1>2, <1>3, <2>1 DEF Tells
<1> QED
    BY <1>2, <1>3, <1>4, EndedWriter

\* What the kernel writes for a request, and where.
LEMMA WrittenFacts ==
    ASSUME WriterInv, pc # "idle", NEW r \in inflight, r.op = "write", NEW n \in 0 .. r.len
    PROVE  /\ r.data \in DOMAIN writes
           /\ r.from = progress[r.data].completed /\ r.len = progress[r.data].requested
           /\ \A i \in DOMAIN writes : \A p \in 0 .. writes[i].len - 1 :
                 Written(r, n)[writes[i].off + p] =
                     IF i = r.data /\ p \in r.from .. r.from + n - 1
                     THEN ByteAt(calls, i, p) ELSE file[writes[i].off + p]
<1>1. /\ r.data \in DOMAIN writes
      /\ r.from = progress[r.data].completed /\ r.len = progress[r.data].requested
    BY DEF WriterInv, QueueInv, Asks, TheSync
<1> DEFINE d == r.data
<1>2. /\ writes[d].off \in Nat /\ writes[d].len \in Nat /\ r.from \in Nat /\ r.len \in Nat
      /\ r.from + r.len <= writes[d].len
    BY <1>1, BlockTypes
<1>3. ASSUME NEW i \in DOMAIN writes, NEW p \in 0 .. writes[i].len - 1
      PROVE  Written(r, n)[writes[i].off + p] =
                 IF i = d /\ p \in r.from .. r.from + n - 1
                 THEN ByteAt(calls, i, p) ELSE file[writes[i].off + p]
    <2> DEFINE o == writes[i].off + p
               q == o - writes[d].off
    <2>1. writes[i].off \in Nat /\ writes[i].len \in Nat /\ writes[i].off + writes[i].len <= FileLimit
        BY BlockTypes
    <2>2. o \in Offset
        BY <2>1, UringAssumption DEF Offset
    <2>3. Written(r, n)[o] = IF q \in r.from .. r.from + n - 1 THEN ByteAt(calls, d, q) ELSE file[o]
        BY <1>1, <2>2 DEF Written
    <2>4. q \in r.from .. r.from + n - 1 => q \in 0 .. writes[d].len - 1 /\ writes[d].off + q = o
        BY <1>2, <2>1
    <2>5. q \in r.from .. r.from + n - 1 => i = d /\ p = q
        BY <1>1, <2>4, PlacesApart
    <2>6. i = d => q = p
        BY <1>2, <2>1
    <2> HIDE DEF o, q
    <2>7. Written(r, n)[o] = IF i = d /\ p \in r.from .. r.from + n - 1
                 THEN ByteAt(calls, i, p) ELSE file[o]
        BY <2>3, <2>5, <2>6
    <2> QED
        BY <2>7 DEF o
<1> QED
    BY <1>1, <1>3

\* The kernel ends a request, in whatever way.
LEMMA KernelWriter ==
    ASSUME WriterInv, Kernel
    PROVE  WriterInv'
<1>0. PICK r \in inflight :
        \/ \E n \in 0 .. r.len : KernelWrites(r, n)
        \/ KernelSyncs(r)
        \/ \E why \in {"EINTR", "error"}, n \in 0 .. r.len : KernelFails(r, why, n)
    BY DEF Kernel
<1>1. r \in Request /\ r.data \in 1 .. QueueDepth /\ r.len \in Nat /\ Asks(r)
    <2>1. r \in Request
        BY DEF WriterInv, Types
    <2> QED
        BY <2>1 DEF Request, WriterInv, QueueInv
<1>2. pc # "idle"
    BY DEF WriterInv, PhaseInv, Quiet
<1>3. ASSUME NEW n \in 0 .. r.len, KernelWrites(r, n) PROVE WriterInv'
    <2> DEFINE c == [data |-> r.data, res |-> n, why |-> "done"]
    <2>1. c \in Cqe /\ c.data = r.data /\ c.why = "done" /\ c.res = n
        BY <1>1 DEF Cqe
    <2>2. /\ r.op = "write" /\ inflight' = inflight \ {r} /\ cq' = Append(cq, c)
          /\ UNCHANGED <<ring, pc, writes, progress, sq, pending, error, calls, result>>
          /\ UNCHANGED durable /\ faults' \in {faults, faults + 1}
          /\ file' = Written(r, n)
        BY <1>3 DEF KernelWrites, Complete, Fault
    <2>3. writes # <<>>
        BY <1>1, <2>2 DEF Asks, TheSync
    <2> HIDE DEF c
    <2>4. Tells(c)'
        <3>1. r.data \in DOMAIN writes /\ n \in 0 .. progress[r.data].requested
            BY <1>2, <2>2, WrittenFacts
        <3>2. ASSUME NEW p \in progress[r.data].completed .. progress[r.data].completed + n - 1
              PROVE  file'[writes[r.data].off + p] = ByteAt(calls, r.data, p)
            <4>1. p \in 0 .. writes[r.data].len - 1
                BY <1>2, <3>1, BlockTypes
            <4> QED
                BY <1>2, <2>2, <3>1, <4>1, WrittenFacts
        <3> QED
            BY <2>1, <2>2, <2>3, <3>1, <3>2 DEF Tells
    <2>5. \A i \in DOMAIN writes : \A p \in 0 .. writes[i].len - 1 :
               \/ file'[writes[i].off + p] = file[writes[i].off + p]
               \/ /\ i = r.data /\ p \in r.from .. r.from + r.len - 1
                  /\ file'[writes[i].off + p] = ByteAt(calls, i, p)
        <3>1. r.from .. r.from + n - 1 \subseteq r.from .. r.from + r.len - 1
            BY <1>1 DEF Request
        <3> QED
            BY <1>2, <2>2, <3>1, WrittenFacts
    <2> QED
        BY <1>2, <2>1, <2>2, <2>3, <2>4, <2>5, EndedWriter
<1>4. CASE KernelSyncs(r)
    <2> DEFINE c == [data |-> r.data, res |-> 0, why |-> "done"]
    <2>1. c \in Cqe /\ c.data = r.data /\ c.why = "done" /\ c.res = 0
        BY <1>1 DEF Cqe
    <2>2. /\ r.op = "fsync" /\ inflight' = inflight \ {r} /\ cq' = Append(cq, c)
          /\ UNCHANGED <<ring, pc, writes, progress, sq, pending, error, calls, result>>
          /\ UNCHANGED <<faults, file>> /\ durable' = file
        BY <1>4 DEF KernelSyncs, Complete
    <2>3. writes = <<>>
        BY <1>1, <2>2 DEF Asks
    <2> HIDE DEF c
    <2>4. Tells(c)'
        BY <2>1, <2>2, <2>3 DEF Tells
    <2> QED
        BY <1>2, <2>1, <2>2, <2>3, <2>4, EndedWriter
<1>5. ASSUME NEW why \in {"EINTR", "error"}, NEW n \in 0 .. r.len, KernelFails(r, why, n)
      PROVE  WriterInv'
    <2> DEFINE c == [data |-> r.data, res |-> 0, why |-> why]
    <2>1. c \in Cqe /\ c.data = r.data /\ c.why # "done"
        BY <1>1 DEF Cqe
    <2>2. /\ inflight' = inflight \ {r} /\ cq' = Append(cq, c)
          /\ UNCHANGED <<ring, pc, writes, progress, sq, pending, error, calls, result>>
          /\ UNCHANGED durable /\ faults' = faults + 1
          /\ file' = IF r.op = "write" THEN Written(r, n) ELSE file
        BY <1>5 DEF KernelFails, Complete, Fault
    <2>3. writes = <<>> => r.op = "fsync"
        BY <1>1 DEF Asks, TheSync
    <2> HIDE DEF c
    <2>4. Tells(c)'
        BY <1>1, <2>1, <2>2 DEF Tells, Asks
    <2>5. \A i \in DOMAIN writes : \A p \in 0 .. writes[i].len - 1 :
               \/ file'[writes[i].off + p] = file[writes[i].off + p]
               \/ /\ i = r.data /\ p \in r.from .. r.from + r.len - 1
                  /\ file'[writes[i].off + p] = ByteAt(calls, i, p)
        <3>1. r.from .. r.from + n - 1 \subseteq r.from .. r.from + r.len - 1
            BY <1>1 DEF Request
        <3>2. CASE r.op = "write"
            BY <1>2, <2>2, <3>1, <3>2, WrittenFacts
        <3>3. CASE r.op # "write"
            BY <2>2, <3>3
        <3> QED
            BY <3>2, <3>3
    <2>6. writes = <<>> => file' = file /\ durable' \in {durable, file}
        BY <2>2, <2>3
    <2> QED
        BY <1>2, <2>1, <2>2, <2>4, <2>5, <2>6, EndedWriter
<1> QED
    BY <1>0, <1>3, <1>4, <1>5

\* The kernel takes the first n of the prepared requests.
LEMMA SubmitWriter ==
    ASSUME WriterInv, NEW n \in 1 .. QueueDepth, Submit(n)
    PROVE  WriterInv'
<1> DEFINE A == {sq[i] : i \in 1 .. n}
           L == Len(sq)
<1>1. /\ pc = "submit" /\ n <= L
      /\ inflight' = inflight \cup A
      /\ sq' = SubSeq(sq, n + 1, L)
      /\ pending' = pending + n
      /\ pc' = IF n = L THEN "receive" ELSE "submit"
      /\ UNCHANGED <<ring, writes, progress, cq, error, calls, faults, result, file, durable>>
    BY DEF Submit, disk
<1>2. /\ sq \in Seq(Request) /\ L \in Nat /\ DOMAIN sq = 1 .. L /\ n \in 0 .. L
      /\ pending \in Nat /\ cq \in Seq(Cqe) /\ Len(cq) \in Nat /\ n \in Nat
    BY <1>1, UringAssumption DEF WriterInv, Types
<1>3. /\ sq' \in Seq(Request) /\ Len(sq') = L - n /\ DOMAIN sq' = 1 .. L - n
      /\ \A i \in 1 .. L - n : sq'[i] = sq[n + i] /\ n + i \in DOMAIN sq
    <2>1. /\ sq' \in Seq(Request) /\ Len(sq') = L - n
          /\ \A i \in 1 .. L - n : sq'[i] = sq[n + i]
        <3> HIDE DEF L
        <3>1. /\ SubSeq(sq, n + 1, Len(sq)) \in Seq(Request)
              /\ Len(SubSeq(sq, n + 1, Len(sq))) = Len(sq) - n
              /\ \A i \in 1 .. Len(sq) - n : SubSeq(sq, n + 1, Len(sq))[i] = sq[n + i]
            <4>1. n \in 0 .. Len(sq)
                BY <1>2 DEF L
            <4> QED
                BY <1>2, <4>1, SplitFacts, Zenon
        <3> QED
            BY <1>1, <3>1 DEF L
    <2>2. DOMAIN sq' = 1 .. Len(sq')
        BY <2>1
    <2> QED
        BY <1>2, <2>1, <2>2
<1>4. A \subseteq Request /\ \A r \in A : \E i \in 1 .. n : r = sq[i] /\ i \in DOMAIN sq
    <2>1. \A i \in 1 .. n : i \in DOMAIN sq /\ sq[i] \in Request
        BY <1>2, MemberType
    <2> QED
        BY <2>1
<1>5. IsFiniteSet(A) /\ Cardinality(A) = n
    <2> DEFINE f == [i \in 1 .. n |-> sq[i]]
    <2>1. \A i, j \in 1 .. n : f[i] = f[j] => i = j
        BY <1>2 DEF WriterInv, QueueInv, OnePerBlock
    <2>2. DOMAIN f = 1 .. n /\ A = {f[i] : i \in 1 .. n} /\ n \in Nat
        OBVIOUS
    <2> HIDE DEF f, A
    <2> QED
        BY <2>1, <2>2, ImageSize
<1>6. \A r \in A : r \notin inflight
    BY <1>4 DEF WriterInv, QueueInv, OnePerBlock
<1> HIDE DEF A, L
<1>7. /\ IsFiniteSet(inflight') /\ Cardinality(inflight') = Cardinality(inflight) + n
      /\ Cardinality(inflight) \in Nat
    <2>1. IsFiniteSet(inflight) /\ Cardinality(inflight) \in Nat
        BY FS_CardinalityType DEF WriterInv, PhaseInv
    <2>2. /\ IsFiniteSet(inflight \cup A)
          /\ Cardinality(inflight \cup A) =
                 Cardinality(inflight) + Cardinality(A) - Cardinality(inflight \cap A)
        BY <1>5, <2>1, FS_Union
    <2>3. inflight \cap A = {} /\ Cardinality({}) = 0
        BY <1>6, FS_EmptySet
    <2> QED
        <3>1. Cardinality(inflight \cap A) = 0
            BY <2>3
        <3> QED
            BY <1>1, <1>2, <1>5, <2>1, <2>2, <3>1
<1>8. Types'
    BY <1>1, <1>2, <1>3, <1>4 DEF WriterInv, Types
<1>9. BatchInv' /\ ProgressInFile'
    BY <1>1 DEF WriterInv, BatchInv, ProgressInFile, Valid, Overlap
<1>10. PhaseInv'
    <2>1. PendingExact'
        BY <1>1, <1>2, <1>7 DEF WriterInv, PhaseInv, PendingExact
    <2>2. (pending + Len(sq) <= QueueDepth)'
        <3>1. pending + L <= QueueDepth
            BY DEF WriterInv, PhaseInv, L
        <3> QED
            BY <1>1, <1>2, <1>3, <3>1
    <2>3. n = L => sq' = <<>>
        BY <1>2, <1>3
    <2>4. writes' # <<>>
        BY <1>1 DEF WriterInv, PhaseInv
    <2> QED
        BY <1>1, <1>7, <2>1, <2>2, <2>3, <2>4 DEF PhaseInv
<1>11. QueueInv'
    <2>1. \A r \in inflight' : Asks(r)'
        <3>1. \A r \in inflight' : Asks(r)
            BY <1>1, <1>4 DEF WriterInv, QueueInv
        <3> QED
            BY <1>1, <3>1 DEF Asks
    <2>2. \A i \in DOMAIN sq' : Asks(sq[i])'
        <3>1. \A i \in DOMAIN sq' : Asks(sq'[i])
            BY <1>3 DEF WriterInv, QueueInv
        <3> QED
            BY <1>1, <3>1 DEF Asks
    <2>3. \A i \in DOMAIN cq' : Tells(cq[i])'
        BY <1>1 DEF WriterInv, QueueInv, Tells
    <2>4. OnePerBlock'
        <3>1. \A i, j \in DOMAIN sq' : sq'[i].data = sq'[j].data => i = j
            <4>1. \A i, j \in 1 .. L - n : n + i = n + j => i = j
                BY <1>2
            <4> QED
                BY <1>3, <4>1 DEF WriterInv, QueueInv, OnePerBlock
        <3>2. \A i \in DOMAIN sq', j \in 1 .. n : sq'[i].data # sq[j].data
            <4>1. \A i \in 1 .. L - n, j \in 1 .. n : n + i # j /\ j \in DOMAIN sq
                BY <1>2
            <4> QED
                BY <1>3, <4>1 DEF WriterInv, QueueInv, OnePerBlock
        <3>3. \A r, s \in inflight' : r.data = s.data => r = s
            BY <1>1, <1>4 DEF WriterInv, QueueInv, OnePerBlock
        <3>4. \A i \in DOMAIN sq', r \in inflight' : sq'[i].data # r.data
            <4>1. ASSUME NEW i \in DOMAIN sq', NEW r \in A PROVE sq'[i].data # r.data
                BY <1>4, <3>2
            <4>2. ASSUME NEW i \in DOMAIN sq', NEW r \in inflight PROVE sq'[i].data # r.data
                BY <1>3 DEF WriterInv, QueueInv, OnePerBlock
            <4> QED
                BY <1>1, <4>1, <4>2
        <3>5. \A i \in DOMAIN sq', k \in DOMAIN cq' : sq'[i].data # cq'[k].data
            BY <1>1, <1>3 DEF WriterInv, QueueInv, OnePerBlock
        <3>6. \A r \in inflight', k \in DOMAIN cq' : r.data # cq'[k].data
            BY <1>1, <1>4 DEF WriterInv, QueueInv, OnePerBlock
        <3> QED
            BY <1>1, <3>1, <3>3, <3>4, <3>5, <3>6 DEF WriterInv, QueueInv, OnePerBlock
    <2> QED
        BY <2>1, <2>2, <2>3, <2>4 DEF QueueInv
<1> QED
    BY <1>8, <1>9, <1>10, <1>11 DEF WriterInv

\* The one request of a sync goes to the kernel.
LEMMA SyncSubmitWriter ==
    ASSUME WriterInv, SyncSubmit
    PROVE  WriterInv'
<1>1. /\ pc = "sync" /\ Quiet /\ writes = <<>>
      /\ inflight' = {TheSync} /\ pending' = 1 /\ pc' = "synced"
      /\ UNCHANGED <<ring, writes, progress, sq, cq, error, calls, faults, result, file, durable>>
    BY DEF WriterInv, PhaseInv, SyncSubmit, Quiet, disk, TheSync
<1>2. TheSync \in Request
    BY UringAssumption DEF TheSync, Request
<1>3. Types'
    BY <1>1, <1>2 DEF WriterInv, Types
<1>4. BatchInv' /\ ProgressInFile'
    BY <1>1 DEF WriterInv, BatchInv, ProgressInFile, Valid, Overlap
<1>5. PhaseInv'
    <2>1. IsFiniteSet(inflight') /\ Cardinality(inflight') = 1
        BY <1>1, FS_Singleton
    <2>2. sq' = <<>> /\ cq' = <<>> /\ Len(sq') = 0 /\ Len(cq') = 0
        BY <1>1 DEF Quiet
    <2> QED
        BY <1>1, <2>1, <2>2, UringAssumption DEF PhaseInv, PendingExact
<1>6. QueueInv'
    <2>1. sq' = <<>> /\ cq' = <<>>
        BY <1>1 DEF Quiet
    <2>2. Asks(TheSync)'
        BY <1>1 DEF Asks, TheSync
    <2> QED
        BY <1>1, <2>1, <2>2 DEF QueueInv, OnePerBlock
<1> QED
    BY <1>3, <1>4, <1>5, <1>6 DEF WriterInv

\* A completion is taken off the queue.
LEMMA Taken ==
    ASSUME WriterInv, cq # <<>>, cq' = Tail(cq), pending' = pending - 1,
           UNCHANGED <<inflight, sq>>
    PROVE  /\ cq' \in Seq(Cqe) /\ pending' \in Nat
           /\ IsFiniteSet(inflight') /\ PendingExact'
           /\ (pending + Len(sq) <= QueueDepth)'
           /\ OnePerBlock'
           /\ \A n \in DOMAIN cq' : n + 1 \in DOMAIN cq /\ cq'[n] = cq[n + 1]
                                    /\ cq'[n].data # cq[1].data
           /\ \A n \in DOMAIN sq : sq[n].data # cq[1].data
           /\ \A r \in inflight : r.data # cq[1].data
           /\ 1 \in DOMAIN cq /\ cq[1] = Head(cq) /\ cq[1] \in Cqe
           /\ pending' = 0 => inflight' = {} /\ cq' = <<>>
<1>1. /\ cq \in Seq(Cqe) /\ cq' \in Seq(Cqe) /\ Len(cq) \in Nat /\ Len(cq) >= 1
      /\ Len(cq') = Len(cq) - 1
      /\ Head(cq) = cq[1] /\ Head(cq) \in Cqe
      /\ \A i \in DOMAIN cq' : i + 1 \in DOMAIN cq /\ cq'[i] = cq[i + 1]
    BY TailFacts DEF WriterInv, Types
<1>2. 1 \in DOMAIN cq /\ DOMAIN cq = 1 .. Len(cq) /\ DOMAIN cq' = 1 .. Len(cq')
    BY <1>1
<1>3. /\ IsFiniteSet(inflight) /\ Cardinality(inflight) \in Nat
      /\ pending = Cardinality(inflight) + Len(cq)
      /\ pending + Len(sq) <= QueueDepth /\ Len(sq) \in Nat
    BY FS_CardinalityType DEF WriterInv, PhaseInv, PendingExact, Types
<1>4. pending' \in Nat /\ PendingExact' /\ (pending + Len(sq) <= QueueDepth)'
    <2>1. pending' \in Nat /\ pending' = Cardinality(inflight) + Len(cq')
        BY <1>1, <1>3
    <2> QED
        <3>1. pending' + Len(sq) <= QueueDepth
            <4>1. QueueDepth \in Nat /\ pending \in Nat /\ pending' = pending - 1
                BY UringAssumption DEF WriterInv, Types
            <4>2. pending + Len(sq) <= QueueDepth /\ Len(sq) \in Nat
                BY <1>3
            <4> QED
                BY <4>1, <4>2
        <3>2. inflight' = inflight /\ sq' = sq
            OBVIOUS
        <3> QED
            BY <2>1, <3>1, <3>2 DEF PendingExact
<1>5. ASSUME NEW n \in DOMAIN cq' PROVE cq'[n].data # cq[1].data
    <2>1. n + 1 # 1 /\ n + 1 \in DOMAIN cq /\ cq'[n] = cq[n + 1]
        BY <1>1, <1>2
    <2> QED
        BY <1>2, <2>1 DEF WriterInv, QueueInv, OnePerBlock
<1>6. OnePerBlock'
    <2>1. \A m, n \in DOMAIN cq' : m + 1 = n + 1 => m = n
        BY <1>2
    <2>2. \A m, n \in DOMAIN cq' : cq'[m].data = cq'[n].data => m = n
        BY <1>1, <2>1 DEF WriterInv, QueueInv, OnePerBlock
    <2> QED
        BY <1>1, <2>2 DEF WriterInv, QueueInv, OnePerBlock
<1>7. ASSUME pending' = 0 PROVE inflight' = {} /\ cq' = <<>>
    <2>1. Cardinality(inflight) = 0 /\ Len(cq') = 0
        BY <1>1, <1>3, <1>7
    <2> QED
        BY <1>1, <1>3, <2>1, FS_EmptySet
<1>8. (\A n \in DOMAIN sq : sq[n].data # cq[1].data) /\ \A r \in inflight : r.data # cq[1].data
    BY <1>2 DEF WriterInv, QueueInv, OnePerBlock
<1> QED
    BY <1>1, <1>2, <1>3, <1>4, <1>5, <1>6, <1>7, <1>8

\* The abort takes a completion, or the sync its own.
LEMMA ReapWriter ==
    ASSUME WriterInv, Reap \/ SyncReceive
    PROVE  WriterInv'
<1>1. /\ cq # <<>> /\ cq' = Tail(cq) /\ pending' = pending - 1
      /\ UNCHANGED <<ring, writes, progress, sq, inflight, error, calls, faults, file, durable>>
      /\ result' \in {result, "ok", "failed"}
      /\ pc' \in {"reap", "close", "sync", "idle"}
      /\ pc' \in {"reap", "close"} => pc = "reap"
      /\ pc' = "close" => ~(pending' > 0)
      /\ pc' \in {"sync", "idle"} => pc = "synced"
    BY DEF Reap, SyncReceive, ReturnWith, disk
<1>2. Types'
    BY <1>1, Taken DEF WriterInv, Types
<1>3. BatchInv' /\ ProgressInFile'
    BY <1>1 DEF WriterInv, BatchInv, ProgressInFile, Valid, Overlap
<1>4. PhaseInv'
    <2>1. CASE pc = "reap"
        <3>1. inflight' = {} /\ pc' \in {"reap", "close"}
            BY <1>1, <2>1 DEF WriterInv, PhaseInv
        <3>2. pending' \in Nat
            BY <1>1, Taken
        <3>3. pc' = "close" => pending' = 0
            <4>1. pc' = "close" => ~(pending' > 0)
                BY <1>1
            <4> QED
                BY <3>2, <4>1
        <3> QED
            BY <1>1, <3>1, <3>3, Taken DEF PhaseInv
    <2>2. CASE pc = "synced"
        <3>1. pending' = 0 /\ sq = <<>> /\ writes = <<>>
            BY <1>1, <2>2 DEF WriterInv, PhaseInv
        <3> QED
            BY <1>1, <2>2, <3>1, Taken DEF PhaseInv, Quiet
    <2> QED
        BY <1>1, <2>1, <2>2
<1>5. QueueInv'
    <2>1. (\A n \in DOMAIN sq : Asks(sq[n]))' /\ (\A r \in inflight : Asks(r))'
        BY <1>1 DEF WriterInv, QueueInv, Asks
    <2>2. ASSUME NEW n \in DOMAIN cq' PROVE Tells(cq[n])'
        <3>1. n + 1 \in DOMAIN cq /\ cq'[n] = cq[n + 1]
            BY <1>1, Taken
        <3>2. Tells(cq'[n])
            BY <3>1 DEF WriterInv, QueueInv
        <3> QED
            BY <1>1, <3>2 DEF Tells
    <2> QED
        BY <1>1, <2>1, <2>2, Taken DEF QueueInv
<1> QED
    BY <1>2, <1>3, <1>4, <1>5 DEF WriterInv

\* A completion of the round is accounted to its block.
LEMMA ReceiveWriter ==
    ASSUME WriterInv, Receive
    PROVE  WriterInv'
<1> DEFINE c == cq[1]
           d == c.data
           gain == IF ~Bad(c) /\ c.why = "done" THEN c.res ELSE 0
<1>1. /\ pc = "receive" /\ cq # <<>> /\ cq' = Tail(cq) /\ pending' = pending - 1
      /\ UNCHANGED <<ring, writes, sq, inflight, calls, faults, file, durable>>
      /\ IF pending' > 0 THEN UNCHANGED <<pc, result>>
         ELSE IF error' THEN pc' = "idle" /\ result' = "failed"
         ELSE pc' = "prepare" /\ UNCHANGED result
    BY DEF Receive, ReturnWith, disk
<1>2. sq = <<>> /\ writes # <<>>
    BY <1>1 DEF WriterInv, PhaseInv
<1>3. c = Head(cq) /\ c \in Cqe /\ 1 \in DOMAIN cq /\ Tells(c)
    BY <1>1, Taken DEF WriterInv, QueueInv
<1>4. d \in DOMAIN writes /\ DOMAIN progress = DOMAIN writes
    BY <1>2, <1>3 DEF Tells, WriterInv, Types
<1>5. /\ progress' = [progress EXCEPT ![d] =
                          IF Bad(c) THEN [progress[d] EXCEPT !.requested = 0]
                          ELSE ProgressAfter(progress[d], c)]
      /\ error' = (error \/ Bad(c))
    BY <1>3, <1>4 DEF Receive
<1>6. /\ progress[d] \in [completed : Nat, requested : Nat]
      /\ progress[d].completed \in Nat /\ progress[d].requested \in Nat
      /\ progress[d].completed + progress[d].requested <= writes[d].len
      /\ writes[d].len \in Nat
    BY <1>1, <1>4, BlockTypes
<1>7. gain \in 0 .. progress[d].requested
    BY <1>2, <1>3, <1>6 DEF Tells
<1>8. /\ progress'[d] = [completed |-> progress[d].completed + gain, requested |-> 0]
      /\ \A i \in DOMAIN writes : i # d => progress'[i] = progress[i]
      /\ DOMAIN progress' = DOMAIN writes
    <2>1. progress'[d] = IF Bad(c) THEN [progress[d] EXCEPT !.requested = 0]
                         ELSE ProgressAfter(progress[d], c)
        BY <1>4, <1>5
    <2>2. [progress[d] EXCEPT !.requested = 0] =
              [completed |-> progress[d].completed, requested |-> 0]
        BY <1>6
    <2>3. progress[d].completed + 0 = progress[d].completed
        BY <1>6
    <2> QED
        BY <1>4, <1>5, <2>1, <2>2, <2>3 DEF ProgressAfter
<1> HIDE DEF gain, d
<1>9. ASSUME NEW i \in DOMAIN writes
      PROVE  /\ progress'[i] \in [completed : Nat, requested : Nat]
             /\ progress'[i].completed + progress'[i].requested <= writes[i].len
    <2>1. CASE i = d
        <3>1. progress[d].completed + gain \in Nat /\ progress[d].completed + gain <= writes[d].len
            BY <1>6, <1>7
        <3>2. progress'[d].completed = progress[d].completed + gain /\ progress'[d].requested = 0
            BY <1>8
        <3> QED
            BY <1>8, <2>1, <3>1, <3>2
    <2>2. CASE i # d
        BY <1>1, <1>8, <2>2, BlockTypes
    <2> QED
        BY <2>1, <2>2
<1>10. Types'
    <2>1. progress' \in [DOMAIN writes -> [completed : Nat, requested : Nat]]
        <3>1. progress' = [i \in DOMAIN writes |-> progress'[i]]
            BY <1>4, <1>5
        <3> QED
            BY <1>9, <3>1
    <2>2. error' \in BOOLEAN
        BY <1>5
    <2>3. cq' \in Seq(Cqe) /\ pending' \in Nat
        BY <1>1, Taken
    <2>4. /\ pc' \in {"receive", "idle", "prepare"} /\ result' \in {result, "failed"}
        BY <1>1
    <2> QED
        BY <1>1, <2>1, <2>2, <2>3, <2>4 DEF WriterInv, Types
<1>11. BatchInv'
    <2>1. Valid(writes)'
        BY <1>1 DEF WriterInv, BatchInv, Valid, Overlap
    <2> QED
        BY <1>1, <1>9, <2>1 DEF BatchInv
<1>12. PhaseInv'
    <2>1. pc' \in {"receive", "idle", "prepare"} /\ (pc' # "receive" => ~(pending' > 0))
        BY <1>1
    <2>2. pending' \in Nat
        BY <1>1, Taken
    <2>3. pc' # "receive" => pending' = 0
        BY <2>1, <2>2
    <2>4. pc' # "receive" => Quiet'
        BY <1>1, <1>2, <2>3, Taken DEF Quiet
    <2> QED
        BY <1>1, <1>2, <2>1, <2>4, Taken DEF PhaseInv
<1>13. ProgressInFile'
    <2>1. ASSUME NEW i \in DOMAIN writes, NEW p \in 0 .. progress'[i].completed - 1
          PROVE  file[writes[i].off + p] = ByteAt(calls, i, p)
        <3>1. CASE p \in 0 .. progress[i].completed - 1
            BY <1>1, <3>1 DEF WriterInv, ProgressInFile
        <3>2. CASE p \notin 0 .. progress[i].completed - 1
            <4>1. i = d
                BY <1>8, <3>2
            <4>2. p \in progress[d].completed .. progress[d].completed + gain - 1
                <5>1. progress'[d].completed = progress[d].completed + gain
                    BY <1>8
                <5> QED
                    BY <1>6, <1>7, <3>2, <4>1, <5>1
            <4>3. gain # 0
                BY <1>6, <4>2
            <4>4. c.why = "done" /\ gain = c.res
                BY <4>3 DEF gain
            <4> QED
                BY <1>2, <1>3, <4>1, <4>2, <4>4 DEF Tells, d
        <3> QED
            BY <3>1, <3>2
    <2> QED
        BY <1>1, <2>1 DEF ProgressInFile
<1>14. QueueInv'
    <2>1. \A n \in DOMAIN sq' : Asks(sq[n])'
        BY <1>1, <1>2
    <2>2. ASSUME NEW r \in inflight PROVE Asks(r)'
        <3>1. Asks(r) /\ r.data # d
            BY <1>1, Taken DEF WriterInv, QueueInv, d
        <3> QED
            BY <1>1, <1>2, <1>8, <3>1 DEF Asks
    <2>3. ASSUME NEW n \in DOMAIN cq' PROVE Tells(cq[n])'
        <3>1. n + 1 \in DOMAIN cq /\ cq'[n] = cq[n + 1] /\ cq'[n].data # d
            BY <1>1, Taken DEF d
        <3>2. Tells(cq'[n])
            BY <3>1 DEF WriterInv, QueueInv
        <3>3. cq'[n].data \in DOMAIN writes /\ progress'[cq'[n].data] = progress[cq'[n].data]
            BY <1>2, <1>8, <3>1, <3>2 DEF Tells
        <3> QED
            BY <1>1, <1>2, <3>2, <3>3 DEF Tells
    <2> QED
        BY <1>1, <2>1, <2>2, <2>3, Taken DEF QueueInv
<1> QED
    BY <1>10, <1>11, <1>12, <1>13, <1>14 DEF WriterInv

\* Every step keeps the invariant.
LEMMA NextWriter ==
    ASSUME WriterInv, [Next]_vars
    PROVE  WriterInv'
<1>1. CASE UNCHANGED vars
    <2>1. Stays /\ UNCHANGED <<ring, pc, error, faults, result>>
        BY <1>1 DEF vars, Stays
    <2>2. Types'
        BY <2>1 DEF WriterInv, Types, Stays
    <2>3. BatchInv' /\ ProgressInFile'
        BY <2>1 DEF WriterInv, BatchInv, Valid, Overlap, ProgressInFile, Stays
    <2>4. PhaseInv'
        BY <2>1, StaysQueue DEF WriterInv, PhaseInv, Quiet, Stays
    <2> QED
        BY <2>1, <2>2, <2>3, <2>4, StaysQueue DEF WriterInv
<1>2. CASE Next
    BY <1>2, OpenCloseWriter, CallWriter, AbortWriter, ReturnWriter, PrepareWriter, CancelWriter,
       KernelWriter, SubmitWriter, SyncSubmitWriter, ReapWriter, ReceiveWriter DEF Next, Step
<1> QED
    BY <1>1, <1>2

-----------------------------------------------------------------------------
(* What a caller relies on.                                                 *)

\* The invariant holds of every behaviour of the writer.
THEOREM WriterInvariant == Spec => []WriterInv
    BY InitWriter, NextWriter, PTL DEF Spec

\* A call that has returned leaves no request, no completion and no count behind,
\* the number of completions the abort path waits for is exact at every step, and
\* what a round resumes behind is in the file: for every queue depth, every set of
\* batches and every sequence of short, failed, interrupted, out-of-order and
\* cancelled completions (kvs_uring_io_write_batch, uring_abort_requests).
THEOREM WriterLeavesNothingBehind == Spec => []NothingLeftBehind
<1>1. ASSUME WriterInv PROVE NothingLeftBehind
    <2>1. pending \in 0 .. QueueDepth
        <3>1. pending \in Nat /\ Len(sq) \in Nat /\ QueueDepth \in Nat
              /\ pending + Len(sq) <= QueueDepth
            BY <1>1, UringAssumption DEF WriterInv, Types, PhaseInv
        <3> QED
            BY <3>1
    <2>2. TypeOK
        BY <1>1, <2>1 DEF WriterInv, Types, TypeOK
    <2> QED
        BY <1>1, <2>2 DEF WriterInv, PhaseInv, NothingLeftBehind
<1> QED
    BY <1>1, WriterInvariant, PTL

-----------------------------------------------------------------------------
(* The writer implements FileWriter.                                        *)

\* The byte the call is to put at a place of one of its blocks.
LEMMA JobFacts ==
    ASSUME WriterInv, pc # "idle"
    PROVE  /\ \A i \in DOMAIN writes : \A p \in 0 .. writes[i].len - 1 :
                 /\ writes[i].off + p \in DOMAIN Job
                 /\ Job[writes[i].off + p] = ByteAt(calls, i, p)
           /\ \A o \in DOMAIN Job : \E i \in DOMAIN writes : \E p \in 0 .. writes[i].len - 1 :
                 o = writes[i].off + p
<1> DEFINE In(o, k) == o \in writes[k].off .. writes[k].off + writes[k].len - 1
           D == {x \in Offset : \E i \in DOMAIN writes : In(x, i)}
           Chosen(o) == CHOOSE k \in DOMAIN writes : In(o, k)
<1>1. /\ DOMAIN Job = D
      /\ \A o \in D : Job[o] = ByteAt(calls, Chosen(o), o - writes[Chosen(o)].off)
    BY DEF Job
<1>2. \A i \in DOMAIN writes : /\ writes[i].off \in Nat /\ writes[i].len \in Nat
                               /\ writes[i].off + writes[i].len <= FileLimit
    BY BlockTypes
<1>3. ASSUME NEW i \in DOMAIN writes, NEW p \in 0 .. writes[i].len - 1
      PROVE  /\ writes[i].off + p \in DOMAIN Job
             /\ Job[writes[i].off + p] = ByteAt(calls, i, p)
    <2> DEFINE o == writes[i].off + p
               k == Chosen(o)
               q == o - writes[k].off
    <2>1. o \in Offset /\ In(o, i)
        <3>1. /\ writes[i].off \in Nat /\ writes[i].len \in Nat /\ FileLimit \in Nat
              /\ writes[i].off + writes[i].len <= FileLimit /\ p \in 0 .. writes[i].len - 1
            BY <1>2, UringAssumption
        <3> QED
            BY <3>1 DEF Offset
    <2>2. o \in D
        BY <2>1
    <2>3. k \in DOMAIN writes /\ In(o, k)
        <3>1. \E j \in DOMAIN writes : In(o, j)
            BY <2>1
        <3> QED
            BY <3>1
    <2> HIDE DEF k
    <2>4. q \in 0 .. writes[k].len - 1 /\ writes[k].off + q = o
        BY <1>2, <2>3, <2>1 DEF Offset
    <2>5. k = i /\ q = p
        BY <2>3, <2>4, PlacesApart
    <2>6. Job[o] = ByteAt(calls, k, q)
        BY <1>1, <2>2 DEF k
    <2> QED
        BY <1>1, <2>2, <2>5, <2>6
<1>4. ASSUME NEW o \in DOMAIN Job
      PROVE  \E i \in DOMAIN writes : \E p \in 0 .. writes[i].len - 1 : o = writes[i].off + p
    <2>1. PICK i \in DOMAIN writes : In(o, i)
        BY <1>1
    <2>2. o - writes[i].off \in 0 .. writes[i].len - 1 /\ o = writes[i].off + (o - writes[i].off)
        BY <1>2, <2>1
    <2> QED
        BY <2>2
<1> QED
    BY <1>3, <1>4

\* The job of a call does not change while it runs.
LEMMA JobStays ==
    ASSUME UNCHANGED <<writes, calls>>
    PROVE  Job' = Job
    BY DEF Job

\* A step the promise does not see.
LEMMA Unseen ==
    ASSUME UNCHANGED <<writes, calls, file, durable, result>>, pc # "idle" <=> pc' # "idle"
    PROVE  UNCHANGED Promise!vars
    BY JobStays DEF Promise!vars

\* What the kernel writes is the job's.
LEMMA PutStep ==
    ASSUME WriterInv, NEW r \in inflight, r.op = "write", NEW n \in 0 .. r.len,
           file' = Written(r, n),
           UNCHANGED <<pc, writes, calls, result, durable>>
    PROVE  Promise!Put
<1>1. pc # "idle"
    BY DEF WriterInv, PhaseInv, Quiet
<1>2. /\ r.data \in DOMAIN writes
      /\ r.from = progress[r.data].completed /\ r.len = progress[r.data].requested
    BY <1>1, WrittenFacts
<1> DEFINE d == r.data
<1>3. /\ writes[d].off \in Nat /\ writes[d].len \in Nat /\ r.from \in Nat /\ r.len \in Nat
      /\ r.from + r.len <= writes[d].len
    BY <1>1, <1>2, BlockTypes
<1>4. ASSUME NEW o \in Offset, file'[o] # file[o]
      PROVE  o \in DOMAIN Job /\ file'[o] = Job[o]
    <2> DEFINE p == o - writes[d].off
    <2>1. file'[o] = IF p \in r.from .. r.from + n - 1 THEN ByteAt(calls, d, p) ELSE file[o]
        BY <1>2 DEF Written
    <2>2. p \in r.from .. r.from + n - 1
        BY <1>4, <2>1
    <2>3. p \in 0 .. writes[d].len - 1 /\ writes[d].off + p = o
        <3>1. FileLimit \in Nat /\ o \in 0 .. FileLimit - 1 /\ n \in 0 .. r.len
            BY UringAssumption DEF Offset
        <3> HIDE DEF d
        <3> QED
            BY <1>3, <2>2, <3>1
    <2> HIDE DEF p
    <2> QED
        BY <1>1, <1>2, <2>1, <2>2, <2>3, JobFacts
<1> QED
    BY <1>1, <1>4, JobStays DEF Promise!Put

\* The kernel: bytes of the job, the sync, or nothing the promise sees.
LEMMA KernelPromise ==
    ASSUME WriterInv, Kernel
    PROVE  Promise!Next \/ UNCHANGED Promise!vars
<1>0. PICK r \in inflight :
        \/ \E n \in 0 .. r.len : KernelWrites(r, n)
        \/ KernelSyncs(r)
        \/ \E why \in {"EINTR", "error"}, n \in 0 .. r.len : KernelFails(r, why, n)
    BY DEF Kernel
<1>1. pc # "idle"
    BY DEF WriterInv, PhaseInv, Quiet
<1>2. ASSUME NEW n \in 0 .. r.len, KernelWrites(r, n) PROVE Promise!Next
    <2>1. /\ r.op = "write" /\ file' = Written(r, n)
          /\ UNCHANGED <<pc, writes, calls, result, durable>>
        BY <1>2 DEF KernelWrites, Complete
    <2> QED
        BY <2>1, PutStep DEF Promise!Next
<1>3. CASE KernelSyncs(r)
    <2>1. durable' = file /\ UNCHANGED <<pc, writes, calls, result, file>>
        BY <1>3 DEF KernelSyncs, Complete
    <2> QED
        BY <1>1, <2>1, JobStays DEF Promise!Next, Promise!Flush
<1>4. ASSUME NEW why \in {"EINTR", "error"}, NEW n \in 0 .. r.len, KernelFails(r, why, n)
      PROVE  Promise!Next \/ UNCHANGED Promise!vars
    <2>1. /\ file' = IF r.op = "write" THEN Written(r, n) ELSE file
          /\ UNCHANGED <<pc, writes, calls, result, durable>>
        BY <1>4 DEF KernelFails, Complete
    <2>2. CASE r.op = "write"
        BY <2>1, <2>2, PutStep DEF Promise!Next
    <2>3. CASE r.op # "write"
        BY <2>1, <2>3, Unseen
    <2> QED
        BY <2>2, <2>3
<1> QED
    BY <1>0, <1>2, <1>3, <1>4

\* A call begins, or is answered at once.
LEMMA CallPromise ==
    ASSUME WriterInv, Sync \/ \E b \in Batch : WriteBatch(b)
    PROVE  Promise!Next
<1>1. pc = "idle" /\ UNCHANGED <<file, durable>>
    BY DEF Sync, WriteBatch, Call, disk
<1>2. DOMAIN Job' \subseteq Offset
    BY DEF Job
<1>3. \/ pc' # "idle" /\ result' = "none"
      \/ pc' = "idle" /\ result' \in {"ok", "failed"}
    BY DEF Sync, WriteBatch, ReturnWith
<1> QED
    BY <1>1, <1>2, <1>3 DEF Promise!Next, Promise!Begin, Promise!Answer

\* A call returns; success means that the job is done.
LEMMA ReturnPromise ==
    ASSUME WriterInv, pc # "idle", pc' = "idle", result' \in {"ok", "failed"},
           UNCHANGED <<writes, calls, file, durable>>,
           result' = "ok" =>
               IF writes = <<>> THEN durable = file
               ELSE \A i \in DOMAIN writes : progress[i].completed = writes[i].len
    PROVE  Promise!Next
<1>1. ASSUME result' = "ok", writes # <<>>, NEW o \in DOMAIN Job PROVE file[o] = Job[o]
    <2>1. PICK i \in DOMAIN writes : \E p \in 0 .. writes[i].len - 1 : o = writes[i].off + p
        BY JobFacts
    <2>2. PICK p \in 0 .. writes[i].len - 1 : o = writes[i].off + p
        BY <2>1
    <2>3. p \in 0 .. progress[i].completed - 1
        BY <1>1
    <2> QED
        BY <2>2, <2>3, JobFacts DEF WriterInv, ProgressInFile
<1> QED
    BY <1>1, JobStays DEF Promise!Next, Promise!Return

\* The thread: a call returns, or nothing the promise sees.
LEMMA StepPromise ==
    ASSUME WriterInv, Step
    PROVE  Promise!Next \/ UNCHANGED Promise!vars
<1>1. CASE Prepare
    <2>1. CASE Unfinished = {}
        <3>1. /\ pc # "idle" /\ pc' = "idle" /\ result' = "ok" /\ writes # <<>>
              /\ UNCHANGED <<writes, calls, file, durable>>
            BY <1>1, <2>1 DEF Prepare, ReturnWith, disk, WriterInv, PhaseInv
        <3>2. \A i \in DOMAIN writes : progress[i].completed = writes[i].len
            BY <2>1 DEF Unfinished
        <3> QED
            BY <3>1, <3>2, ReturnPromise
    <2>2. CASE Unfinished # {}
        BY <1>1, <2>2, Unseen DEF Prepare, disk
    <2> QED
        BY <2>1, <2>2
<1>2. CASE Receive
    <2>1. /\ pc = "receive" /\ UNCHANGED <<writes, calls, file, durable>>
          /\ \/ pc' = "idle" /\ result' = "failed"
             \/ pc' # "idle" /\ UNCHANGED result
        BY <1>2 DEF Receive, ReturnWith, disk
    <2> QED
        BY <2>1, Unseen, ReturnPromise
<1>3. CASE Aborted \/ SyncSubmitError
    <2>1. /\ pc # "idle" /\ pc' = "idle" /\ result' = "failed"
          /\ UNCHANGED <<writes, calls, file, durable>>
        BY <1>3 DEF Aborted, SyncSubmitError, ReturnWith, disk
    <2> QED
        BY <2>1, ReturnPromise
<1>4. CASE SyncReceive
    <2>1. /\ pc = "synced" /\ cq # <<>> /\ cq' = Tail(cq) /\ pending' = pending - 1
          /\ UNCHANGED <<writes, inflight, sq, calls, file, durable>>
          /\ \/ pc' = "sync" /\ UNCHANGED result
             \/ pc' = "idle" /\ result' = IF Head(cq).why = "done" THEN "ok" ELSE "failed"
        BY <1>4 DEF SyncReceive, ReturnWith, disk
    <2>2. Tells(Head(cq)) /\ writes = <<>>
        BY <2>1, Taken DEF WriterInv, QueueInv, PhaseInv
    <2>3. Head(cq).why = "done" => durable = file
        BY <2>2 DEF Tells
    <2> QED
        BY <2>1, <2>2, <2>3, Unseen, ReturnPromise
<1>5. CASE \E n \in 1 .. QueueDepth : Submit(n)
    BY <1>5, Unseen DEF Submit, disk
<1>6. CASE \E r \in inflight : Cancel(r)
    BY <1>6, Unseen DEF Cancel, disk
<1>7. CASE SubmitError \/ WaitError \/ Cancelled \/ Exit \/ Reap \/ SyncSubmit
    <2>1. pc # "idle" /\ pc' # "idle" /\ UNCHANGED <<writes, calls, file, durable, result>>
        BY <1>7 DEF SubmitError, WaitError, Cancelled, Exit, Reap, SyncSubmit, Abort, disk
    <2> QED
        BY <2>1, Unseen
<1> QED
    BY <1>1, <1>2, <1>3, <1>4, <1>5, <1>6, <1>7 DEF Step

\* The writer implements FileWriter, for every queue depth, set of batches and number
\* of faults: a call that reports success has written its whole batch, or made every
\* byte durable, and no byte of the file changes but by a call that runs, to the
\* value the batch of that call gives it (kvs_uring_io_write_batch, kvs_uring_io_sync).
THEOREM WriterRefines == Spec => Refines
<1>1. Init => Promise!Init
    BY DEF Init, Promise!Init
<1>2. ASSUME WriterInv, [Next]_vars PROVE [Promise!Next]_(Promise!vars)
    <2>1. CASE UNCHANGED vars
        BY <2>1, Unseen DEF vars
    <2>2. CASE Open \/ Close
        BY <2>2, Unseen DEF Open, Close, disk
    <2>3. CASE Next /\ ~(Open \/ Close)
        <3>1. \/ Sync \/ \E b \in Batch : WriteBatch(b)
              \/ Step
              \/ Kernel
            BY <2>3 DEF Next
        <3> QED
            BY <1>2, <3>1, CallPromise, StepPromise, KernelPromise
    <2> QED
        BY <1>2, <2>1, <2>2, <2>3
<1> QED
    BY <1>1, <1>2, WriterInvariant, PTL DEF Spec, Refines, Promise!Spec

-----------------------------------------------------------------------------
(* The snapshot file.                                                       *)

CONSTANTS Engines, Key, Value, Absent, Checkpoint, NoOffset, BufferSize, BlockSize,
          SumCell

VARIABLES phase, image, failed, db, point, pieces, buffer, tmp, cursor, left, saved,
          damaged

F == INSTANCE SnapshotFile WITH pc <- phase, file <- image, faults <- failed

-----------------------------------------------------------------------------
(* Flattening.                                                              *)

\* f is what flattens the first n elements of ss, one after the other.
Onward(f, ss, i) == IF i = 1 THEN ss[i] ELSE f[i - 1] \o ss[i]

Upto(ss, n, f) == f = [i \in 1 .. n |-> Onward(f, ss, i)]

\* What an element of such a function is.
LEMMA UptoAt ==
    ASSUME NEW ss, NEW n \in Nat, NEW f, Upto(ss, n, f), NEW i \in 1 .. n
    PROVE  f[i] = Onward(f, ss, i)
<1>1. PICK h : h = [j \in 1 .. n |-> Onward(f, ss, j)]
    OBVIOUS
<1>2. h[i] = Onward(f, ss, i)
    BY <1>1
<1>3. f = h
    BY <1>1 DEF Upto
<1> QED
    BY <1>2, <1>3

\* There is one for every length.
LEMMA UptoExists ==
    ASSUME NEW ss PROVE \A n \in Nat : \E f : Upto(ss, n, f)
<1> DEFINE S == {n \in Nat : \E f : Upto(ss, n, f)}
<1>1. 0 \in S
    <2> DEFINE f == [i \in 1 .. 0 |-> ss[i]]
    <2>1. 1 .. 0 = {}
        OBVIOUS
    <2>2. f = [i \in 1 .. 0 |-> Onward(f, ss, i)]
        BY <2>1
    <2> HIDE DEF f
    <2>3. Upto(ss, 0, f)
        BY <2>2 DEF Upto
    <2> QED
        BY <2>3
<1>2. ASSUME NEW n \in Nat, n \in S PROVE n + 1 \in S
    <2>1. PICK f : Upto(ss, n, f)
        BY <1>2
    <2> DEFINE x == IF n + 1 = 1 THEN ss[n + 1] ELSE f[n] \o ss[n + 1]
               h == [i \in 1 .. n + 1 |-> IF i = n + 1 THEN x ELSE f[i]]
    <2>2. h[n + 1] = x
        OBVIOUS
    <2>3. \A i \in 1 .. n : h[i] = f[i]
        OBVIOUS
    <2>4. DOMAIN h = 1 .. n + 1 /\ h = [i \in 1 .. n + 1 |-> h[i]]
        OBVIOUS
    <2> HIDE DEF x, h
    <2>5. ASSUME NEW i \in 1 .. n + 1
          PROVE  h[i] = Onward(h, ss, i)
        <3>1. CASE i = n + 1
            <4>1. CASE n = 0
                BY <2>2, <3>1, <4>1 DEF x, Onward
            <4>2. CASE n # 0
                <5>1. i - 1 = n /\ n \in 1 .. n /\ i # 1 /\ n + 1 # 1
                    BY <3>1, <4>2
                <5>2. h[i - 1] = f[n]
                    BY <5>1, <2>3
                <5> QED
                    BY <5>1, <5>2, <2>2, <3>1 DEF x, Onward
            <4> QED
                BY <4>1, <4>2
        <3>2. CASE i # n + 1
            <4>1. i \in 1 .. n /\ (i # 1 => i - 1 \in 1 .. n)
                BY <3>2
            <4>2. f[i] = Onward(f, ss, i)
                BY <2>1, <4>1, UptoAt
            <4>3. h[i] = f[i] /\ (i # 1 => h[i - 1] = f[i - 1])
                BY <4>1, <2>3
            <4> QED
                BY <4>2, <4>3 DEF Onward
        <3> QED
            BY <3>1, <3>2
    <2>6. Upto(ss, n + 1, h)
        BY <2>4, <2>5 DEF Upto
    <2> QED
        BY <2>6
<1> HIDE DEF S
<1>3. \A n \in Nat : n \in S
    BY <1>1, <1>2, NatSetInduction
<1> QED
    BY <1>3 DEF S

\* Two sequences agree as far as n.
Agree(ss, tt, n) == \A i \in 1 .. n : ss[i] = tt[i]

\* Flattening agrees where the lists do.
LEMMA UptoAgree ==
    ASSUME NEW ss, NEW tt, NEW m \in Nat, NEW n \in Nat, m <= n, Agree(ss, tt, m),
           NEW f, NEW g, Upto(ss, m, f), Upto(tt, n, g)
    PROVE  Agree(f, g, m)
<1> USE DEF Agree
<1> DEFINE S == {k \in Nat : k + 1 \in 1 .. m => f[k + 1] = g[k + 1]}
<1>1. 0 \in S
    <2> SUFFICES ASSUME 1 \in 1 .. m PROVE f[1] = g[1]
        OBVIOUS
    <2>1. 1 \in 1 .. n
        OBVIOUS
    <2>2. f[1] = Onward(f, ss, 1) /\ g[1] = Onward(g, tt, 1)
        BY <2>1, UptoAt
    <2> QED
        BY <2>2 DEF Onward
<1>2. ASSUME NEW k \in Nat, k \in S PROVE k + 1 \in S
    <2> SUFFICES ASSUME (k + 1) + 1 \in 1 .. m PROVE f[(k + 1) + 1] = g[(k + 1) + 1]
        OBVIOUS
    <2>1. /\ k + 1 \in 1 .. m /\ (k + 1) + 1 \in 1 .. n /\ (k + 1) + 1 # 1
          /\ ((k + 1) + 1) - 1 = k + 1
        OBVIOUS
    <2>2. f[k + 1] = g[k + 1]
        BY <1>2, <2>1
    <2>3. PICK i : i = (k + 1) + 1
        OBVIOUS
    <2>4. i \in 1 .. m /\ i \in 1 .. n /\ i # 1 /\ i - 1 = k + 1
        BY <2>1, <2>3
    <2>5. f[i] = Onward(f, ss, i)
        BY <2>4, UptoAt
    <2>6. g[i] = Onward(g, tt, i)
        BY <2>4, UptoAt
    <2>7. f[i] = g[i]
        BY <2>2, <2>4, <2>5, <2>6 DEF Onward
    <2> QED
        BY <2>3, <2>7
<1>3. \A k \in Nat : k \in S
    <2> HIDE DEF S
    <2> QED
        BY <1>1, <1>2, NatSetInduction
<1>4. ASSUME NEW i \in 1 .. m PROVE f[i] = g[i]
    <2>1. i - 1 \in Nat /\ (i - 1) + 1 = i
        OBVIOUS
    <2>2. i - 1 \in S
        BY <2>1, <1>3
    <2> QED
        BY <2>1, <2>2
<1> QED
    BY <1>4

\* FlattenSeq is the last of them.
LEMMA FlatIs ==
    ASSUME NEW T, NEW ss \in Seq(T), ss # <<>>
    PROVE  \E f : Upto(ss, Len(ss), f) /\ F!FlattenSeq(ss) = f[Len(ss)]
<1>1. Len(ss) \in Nat /\ Len(ss) # 0
    BY EmptySeq
<1>2. \E f : Upto(ss, Len(ss), f)
    BY <1>1, UptoExists
<1> DEFINE g == CHOOSE f : f = [i \in 1 .. Len(ss) |->
                                  IF i = 1 THEN ss[i] ELSE f[i - 1] \o ss[i]]
<1>3. Upto(ss, Len(ss), g)
    BY <1>2 DEF Upto, Onward
<1>4. F!FlattenSeq(ss) = g[Len(ss)]
    BY <1>1 DEF F!FlattenSeq
<1> HIDE DEF g
<1> QED
    BY <1>3, <1>4
\* Appending to the short ones.
LEMMA AppendTuple ==
    ASSUME NEW S, NEW a \in S, NEW b \in S, NEW c \in S
    PROVE  Append(<<a>>, b) = <<a, b>> /\ Append(<<a, b>>, c) = <<a, b, c>>
<1>1. ASSUME NEW s \in Seq(S), NEW t \in Seq(S), NEW x \in S, Len(t) = Len(s) + 1,
             \A i \in 1 .. Len(s) : t[i] = s[i], t[Len(s) + 1] = x
      PROVE  Append(s, x) = t
    <2>1. PICK y : y = Append(s, x)
        OBVIOUS
    <2>2. /\ y \in Seq(S) /\ Len(y) = Len(s) + 1
          /\ \A i \in 1 .. Len(s) : y[i] = s[i]
          /\ y[Len(s) + 1] = x /\ Len(s) \in Nat
        BY <2>1, AppendProperties, LenProperties
    <2>3. \A i \in 1 .. Len(y) : y[i] = t[i]
        BY <2>2, <1>1
    <2>4. y = t
        BY <1>1, <2>2, <2>3, SeqEqual
    <2> QED
        BY <2>1, <2>4
<1>2. PICK one, two, three : one = <<a>> /\ two = <<a, b>> /\ three = <<a, b, c>>
    OBVIOUS
<1>3. one \in Seq(S) /\ Len(one) = 1 /\ one[1] = a
    BY <1>2
<1>4. two \in Seq(S) /\ Len(two) = 2 /\ two[1] = a /\ two[2] = b
    BY <1>2
<1>5. three \in Seq(S) /\ Len(three) = 3 /\ three[1] = a /\ three[2] = b /\ three[3] = c
    BY <1>2
<1>6. Append(one, b) = two
    <2>1. /\ Len(two) = Len(one) + 1 /\ two[Len(one) + 1] = b
          /\ \A i \in 1 .. Len(one) : two[i] = one[i]
        BY <1>3, <1>4
    <2> QED
        BY <1>1, <1>3, <1>4, <2>1
<1>7. Append(two, c) = three
    <2>1. /\ Len(three) = Len(two) + 1 /\ three[Len(two) + 1] = c
          /\ \A i \in 1 .. Len(two) : three[i] = two[i]
        BY <1>4, <1>5
    <2> QED
        BY <1>1, <1>4, <1>5, <2>1
<1> QED
    BY <1>2, <1>6, <1>7


\* A sequence with one more element is concatenated by concatenating that element.
LEMMA ConcatAppend ==
    ASSUME NEW S, NEW a \in Seq(S), NEW b \in Seq(S), NEW y \in S
    PROVE  a \o Append(b, y) = Append(a \o b, y)
<1>1. PICK one : one = <<y>>
    OBVIOUS
<1>2. one \in Seq(S)
    BY <1>1
<1>3. Append(b, y) = b \o one
    BY <1>1, AppendIsConcat
<1>4. (a \o b) \o one = a \o (b \o one)
    BY <1>2, ConcatAssociative
<1>5. PICK ab : ab = a \o b
    OBVIOUS
<1>6. ab \in Seq(S)
    BY <1>5, ConcatProperties
<1>7. Append(ab, y) = ab \o one
    BY <1>1, <1>6, AppendIsConcat
<1> QED
    BY <1>3, <1>4, <1>5, <1>7

\* Flattening gives a sequence of the same elements.
LEMMA FlatTyped ==
    ASSUME NEW S, NEW ss \in Seq(Seq(S)) PROVE F!FlattenSeq(ss) \in Seq(S)
<1>1. CASE ss = <<>>
    <2>1. Len(ss) = 0
        BY <1>1
    <2>2. F!FlattenSeq(ss) = ss
        BY <2>1 DEF F!FlattenSeq
    <2> QED
        BY <2>2, <1>1
<1>2. CASE ss # <<>>
    <2>1. PICK f : Upto(ss, Len(ss), f) /\ F!FlattenSeq(ss) = f[Len(ss)]
        BY <1>2, FlatIs
    <2>2. Len(ss) \in Nat /\ Len(ss) # 0 /\ \A i \in 1 .. Len(ss) : ss[i] \in Seq(S)
        BY <1>2, EmptySeq, LenProperties, ElementOfSeq
    <2> DEFINE N == {k \in Nat : k + 1 \in 1 .. Len(ss) => f[k + 1] \in Seq(S)}
    <2>3. 0 \in N
        <3>1. 1 \in 1 .. Len(ss)
            BY <2>2
        <3>2. f[1] = Onward(f, ss, 1)
            BY <2>1, <2>2, <3>1, UptoAt
        <3> QED
            BY <3>1, <3>2, <2>2 DEF Onward
    <2>4. ASSUME NEW k \in Nat, k \in N PROVE k + 1 \in N
        <3> SUFFICES ASSUME (k + 1) + 1 \in 1 .. Len(ss) PROVE f[(k + 1) + 1] \in Seq(S)
            OBVIOUS
        <3>1. k + 1 \in 1 .. Len(ss) /\ f[k + 1] \in Seq(S)
            BY <2>2, <2>4
        <3>2. PICK i : i = (k + 1) + 1
            OBVIOUS
        <3>3. i \in 1 .. Len(ss) /\ i # 1 /\ i - 1 = k + 1
            BY <3>2
        <3>4. f[i] = Onward(f, ss, i)
            BY <2>1, <2>2, <3>3, UptoAt
        <3>5. ss[i] \in Seq(S)
            BY <3>3, <2>2
        <3>6. f[k + 1] \o ss[i] \in Seq(S)
            BY <3>1, <3>5, ConcatProperties
        <3>7. f[i] = f[k + 1] \o ss[i]
            BY <3>3, <3>4 DEF Onward
        <3> QED
            BY <3>2, <3>6, <3>7
    <2>5. \A k \in Nat : k \in N
        <3> HIDE DEF N
        <3> QED
            BY <2>3, <2>4, NatSetInduction
    <2>6. Len(ss) - 1 \in Nat /\ (Len(ss) - 1) + 1 = Len(ss) /\ Len(ss) \in 1 .. Len(ss)
        BY <2>2
    <2>7. Len(ss) - 1 \in N
        BY <2>5, <2>6
    <2> QED
        BY <2>1, <2>6, <2>7
<1> QED
    BY <1>1, <1>2

\* One more sequence is appended.
LEMMA FlatAppend ==
    ASSUME NEW S, NEW ss \in Seq(Seq(S)), NEW x \in Seq(S)
    PROVE  F!FlattenSeq(Append(ss, x)) = F!FlattenSeq(ss) \o x
<1>1. PICK tt : tt = Append(ss, x)
    OBVIOUS
<1>2. /\ tt \in Seq(Seq(S)) /\ tt # <<>> /\ Len(tt) = Len(ss) + 1 /\ Len(ss) \in Nat
      /\ \A i \in 1 .. Len(ss) : tt[i] = ss[i]
      /\ tt[Len(ss) + 1] = x
    BY <1>1, AppendProperties, LenProperties
<1>3. PICK g : Upto(tt, Len(tt), g) /\ F!FlattenSeq(tt) = g[Len(tt)]
    BY <1>2, FlatIs
<1>4. Len(tt) \in Nat /\ Len(tt) \in 1 .. Len(tt)
    BY <1>2
<1>5. g[Len(tt)] = Onward(g, tt, Len(tt))
    BY <1>3, <1>4, UptoAt
<1>6. CASE ss = <<>>
    <2>1. Len(ss) = 0
        BY <1>6
    <2>2. F!FlattenSeq(ss) = <<>>
        BY <2>1, <1>6 DEF F!FlattenSeq
    <2>3. Len(tt) = 1 /\ tt[Len(tt)] = x
        BY <2>1, <1>2
    <2>4. <<>> \o x = x
        BY ConcatEmptySeq
    <2> QED
        BY <1>1, <1>3, <1>5, <2>2, <2>3, <2>4 DEF Onward
<1>7. CASE ss # <<>>
    <2>1. PICK f : Upto(ss, Len(ss), f) /\ F!FlattenSeq(ss) = f[Len(ss)]
        BY <1>7, FlatIs
    <2>2. Len(ss) \in 1 .. Len(ss) /\ Len(ss) <= Len(tt) /\ Len(tt) # 1
          /\ Len(tt) - 1 = Len(ss)
        BY <1>2, <1>7, EmptySeq
    <2>3. \A i \in 1 .. Len(ss) : ss[i] = tt[i]
        BY <1>2
    <2>4. \A i \in 1 .. Len(ss) : f[i] = g[i]
        <3>1. PICK m \in Nat, n \in Nat : m = Len(ss) /\ n = Len(tt)
            BY <1>2, <1>4
        <3>2. /\ m <= n /\ Upto(ss, m, f) /\ Upto(tt, n, g)
              /\ Agree(ss, tt, m)
            BY <2>1, <2>2, <2>3, <1>3, <3>1 DEF Agree
        <3>3. Agree(f, g, m)
            BY <3>2, UptoAgree
        <3> QED
            BY <3>1, <3>3 DEF Agree
    <2>5. g[Len(tt)] = g[Len(ss)] \o x
        BY <1>2, <1>5, <2>2 DEF Onward
    <2>6. g[Len(ss)] = f[Len(ss)]
        BY <2>2, <2>4
    <2> QED
        BY <1>1, <1>3, <2>1, <2>5, <2>6
<1> QED
    BY <1>6, <1>7

\* Nothing, and one sequence.
LEMMA FlatSmall ==
    /\ F!FlattenSeq(<<>>) = <<>>
    /\ \A S : \A x \in Seq(S) : F!FlattenSeq(<<x>>) = x
<1>1. F!FlattenSeq(<<>>) = <<>>
    BY DEF F!FlattenSeq
<1>2. ASSUME NEW S, NEW x \in Seq(S) PROVE F!FlattenSeq(<<x>>) = x
    <2>1. <<>> \in Seq(Seq(S)) /\ Append(<<>>, x) = <<x>>
        OBVIOUS
    <2>2. F!FlattenSeq(Append(<<>>, x)) = F!FlattenSeq(<<>>) \o x
        BY <2>1, FlatAppend
    <2>3. <<>> \o x = x
        BY ConcatEmptySeq
    <2> QED
        BY <2>1, <2>2, <2>3, <1>1
<1> QED
    BY <1>1, <1>2

\* The first n elements.
Front(s, n) == SubSeq(s, 1, n)

\* What they are.
LEMMA FrontIs ==
    ASSUME NEW S, NEW s \in Seq(S), NEW n \in 0 .. Len(s)
    PROVE  /\ Front(s, n) \in Seq(S) /\ Len(Front(s, n)) = n
           /\ \A i \in 1 .. n : Front(s, n)[i] = s[i]
           /\ n < Len(s) => Front(s, n + 1) = Append(Front(s, n), s[n + 1])
           /\ Front(s, 0) = <<>> /\ Front(s, Len(s)) = s
<1>1. Len(s) \in Nat /\ \A i \in 1 .. Len(s) : s[i] \in S
    BY LenProperties, ElementOfSeq
<1>2. \A m \in 0 .. Len(s) : /\ Front(s, m) \in Seq(S) /\ Len(Front(s, m)) = m
                             /\ \A i \in 1 .. m : Front(s, m)[i] = s[i]
    <2> SUFFICES ASSUME NEW m \in 0 .. Len(s)
                 PROVE  /\ Front(s, m) \in Seq(S) /\ Len(Front(s, m)) = m
                        /\ \A i \in 1 .. m : Front(s, m)[i] = s[i]
        OBVIOUS
    <2>1. 1 \in Int /\ m \in Int /\ \A i \in 1 .. m : s[i] \in S
        BY <1>1
    <2>2. /\ Front(s, m) \in Seq(S)
          /\ Len(Front(s, m)) = IF 1 <= m THEN m - 1 + 1 ELSE 0
          /\ \A i \in 1 .. m - 1 + 1 : Front(s, m)[i] = s[1 + i - 1]
        BY <2>1, SubSeqProperties DEF Front
    <2>3. Len(Front(s, m)) = m
        BY <2>2, <1>1
    <2>4. ASSUME NEW i \in 1 .. m PROVE Front(s, m)[i] = s[i]
        <3>1. i \in 1 .. m - 1 + 1 /\ 1 + i - 1 = i
            BY <1>1
        <3> QED
            BY <3>1, <2>2
    <2> QED
        BY <2>2, <2>3, <2>4
<1>3. ASSUME n < Len(s) PROVE Front(s, n + 1) = Append(Front(s, n), s[n + 1])
    <2>1. 1 \in 1 .. Len(s) /\ n + 1 \in 1 .. Len(s) /\ (n + 1) - 1 = n
        BY <1>1, <1>3
    <2>2. SubSeq(s, 1, n + 1) = SubSeq(s, 1, (n + 1) - 1) \o <<s[n + 1]>>
        BY <2>1, SubSeqRecursiveSecond
    <2>3. s[n + 1] \in S /\ Front(s, n) \in Seq(S)
        BY <2>1, <1>1, <1>2
    <2>4. Append(Front(s, n), s[n + 1]) = Front(s, n) \o <<s[n + 1]>>
        BY <2>3, AppendIsConcat
    <2>5. Front(s, n + 1) = SubSeq(s, 1, n + 1) /\ Front(s, n) = SubSeq(s, 1, (n + 1) - 1)
        BY <2>1 DEF Front
    <2> QED
        BY <2>2, <2>4, <2>5
<1>4. Front(s, 0) = <<>>
    BY SubSeqEmpty DEF Front
<1>5. Front(s, Len(s)) = s
    BY SubSeqFull DEF Front
<1> QED
    BY <1>2, <1>3, <1>4, <1>5

\* Two lists of sequences, one behind the other.
LEMMA FlatConcat ==
    ASSUME NEW S, NEW ss \in Seq(Seq(S)), NEW tt \in Seq(Seq(S))
    PROVE  F!FlattenSeq(ss \o tt) = F!FlattenSeq(ss) \o F!FlattenSeq(tt)
<1> DEFINE N == {n \in Nat : n <= Len(tt) =>
                    F!FlattenSeq(ss \o Front(tt, n)) =
                        F!FlattenSeq(ss) \o F!FlattenSeq(Front(tt, n))}
<1>1. Len(tt) \in Nat /\ \A i \in 1 .. Len(tt) : tt[i] \in Seq(S)
    BY LenProperties, ElementOfSeq
<1>2. F!FlattenSeq(ss) \in Seq(S)
    BY FlatTyped
<1>3. 0 \in N
    <2>1. 0 \in 0 .. Len(tt)
        BY <1>1
    <2>2. Front(tt, 0) = <<>>
        BY <2>1, FrontIs
    <2>3. ss \o <<>> = ss /\ F!FlattenSeq(ss) \o <<>> = F!FlattenSeq(ss)
        BY <1>2, ConcatEmptySeq
    <2> QED
        BY <2>2, <2>3, FlatSmall
<1>4. ASSUME NEW n \in Nat, n \in N PROVE n + 1 \in N
    <2> SUFFICES ASSUME n + 1 <= Len(tt)
                 PROVE  F!FlattenSeq(ss \o Front(tt, n + 1)) =
                            F!FlattenSeq(ss) \o F!FlattenSeq(Front(tt, n + 1))
        OBVIOUS
    <2>1. n \in 0 .. Len(tt) /\ n < Len(tt) /\ n + 1 \in 1 .. Len(tt)
        BY <1>1
    <2>2. PICK u : u = Front(tt, n)
        OBVIOUS
    <2>3. u \in Seq(Seq(S)) /\ Front(tt, n + 1) = Append(u, tt[n + 1])
        BY <2>1, <2>2, FrontIs
    <2>4. PICK x : x = tt[n + 1]
        OBVIOUS
    <2>5. x \in Seq(S)
        BY <2>1, <2>4, <1>1
    <2>6. ss \o Append(u, x) = Append(ss \o u, x)
        <3>1. PICK S2 : S2 = Seq(S)
            OBVIOUS
        <3>2. ss \in Seq(S2) /\ u \in Seq(S2) /\ x \in S2
            BY <3>1, <2>3, <2>5
        <3> QED
            BY ONLY <3>2, ConcatAppend
    <2>7. ss \o u \in Seq(Seq(S))
        BY <2>3, ConcatProperties
    <2>8. F!FlattenSeq(Append(ss \o u, x)) = F!FlattenSeq(ss \o u) \o x
        BY <2>5, <2>7, FlatAppend
    <2>9. F!FlattenSeq(ss \o u) = F!FlattenSeq(ss) \o F!FlattenSeq(u)
        BY <1>4, <2>1, <2>2
    <2>10. F!FlattenSeq(Append(u, x)) = F!FlattenSeq(u) \o x
        BY <2>3, <2>5, FlatAppend
    <2>11. F!FlattenSeq(u) \in Seq(S)
        BY <2>3, FlatTyped
    <2>12. (F!FlattenSeq(ss) \o F!FlattenSeq(u)) \o x
               = F!FlattenSeq(ss) \o (F!FlattenSeq(u) \o x)
        BY <1>2, <2>5, <2>11, ConcatAssociative
    <2> QED
        BY <2>3, <2>4, <2>6, <2>8, <2>9, <2>10, <2>12
<1>5. \A n \in Nat : n \in N
    <2> HIDE DEF N
    <2> QED
        BY <1>3, <1>4, NatSetInduction
<1>6. Len(tt) \in N /\ Len(tt) \in 0 .. Len(tt)
    BY <1>1, <1>5
<1>7. Front(tt, Len(tt)) = tt
    BY <1>6, FrontIs
<1> QED
    BY <1>6, <1>7

-----------------------------------------------------------------------------
(* Cells.                                                                   *)

Cells == Seq(Nat)
Lists == Seq(Cells)

Cat(a, b) == a \o b
Flat(ss) == F!FlattenSeq(ss)

\* The cells x are in f, behind the first at cells of it.
Holds(f, at, x) == at + Len(x) <= Len(f) /\ \A i \in 1 .. Len(x) : f[at + i] = x[i]

\* A run of cells is a function on its places.
LEMMA CellsAre ==
    ASSUME NEW a \in Cells
    PROVE  /\ Len(a) \in Nat /\ DOMAIN a = 1 .. Len(a)
           /\ \A i \in 1 .. Len(a) : a[i] \in Nat
           /\ a = [i \in 1 .. Len(a) |-> a[i]]
<1>1. Len(a) \in Nat /\ a \in [1 .. Len(a) -> Nat] /\ DOMAIN a = 1 .. Len(a)
    BY LenProperties DEF Cells
<1> QED
    BY <1>1

\* What a concatenation consists of,
LEMMA CatIs ==
    ASSUME NEW a \in Cells, NEW b \in Cells
    PROVE  /\ Cat(a, b) \in Cells /\ Len(Cat(a, b)) = Len(a) + Len(b)
           /\ \A i \in 1 .. Len(a) : Cat(a, b)[i] = a[i]
           /\ \A i \in 1 .. Len(b) : Cat(a, b)[Len(a) + i] = b[i]
<1>1. /\ a \o b \in Cells /\ Len(a \o b) = Len(a) + Len(b)
      /\ \A i \in 1 .. Len(a) + Len(b) :
             (a \o b)[i] = IF i <= Len(a) THEN a[i] ELSE b[i - Len(a)]
    BY ConcatProperties DEF Cells
<1>2. Len(a) \in Nat /\ Len(b) \in Nat
    BY CellsAre
<1>3. PICK c : c = a \o b
    OBVIOUS
<1>4. \A i \in 1 .. Len(a) + Len(b) : c[i] = IF i <= Len(a) THEN a[i] ELSE b[i - Len(a)]
    BY <1>1, <1>3
<1>5. ASSUME NEW i \in 1 .. Len(a) PROVE c[i] = a[i]
    <2>1. i \in 1 .. Len(a) + Len(b) /\ i <= Len(a)
        BY <1>2
    <2> QED
        BY <2>1, <1>4
<1>6. ASSUME NEW i \in 1 .. Len(b) PROVE c[Len(a) + i] = b[i]
    <2>1. /\ Len(a) + i \in 1 .. Len(a) + Len(b) /\ ~(Len(a) + i <= Len(a))
          /\ (Len(a) + i) - Len(a) = i
        BY <1>2
    <2> QED
        BY <2>1, <1>4
<1>7. Cat(a, b) = c
    BY <1>3 DEF Cat
<1> QED
    BY <1>1, <1>3, <1>5, <1>6, <1>7

\* how it associates,
LEMMA CatAssoc ==
    ASSUME NEW a \in Cells, NEW b \in Cells, NEW c \in Cells
    PROVE  Cat(Cat(a, b), c) = Cat(a, Cat(b, c))
<1>1. (a \o b) \o c = a \o (b \o c)
    BY ConcatAssociative DEF Cells
<1> QED
    BY <1>1 DEF Cat

\* and what nothing does to it.
LEMMA CatEmpty ==
    ASSUME NEW a \in Cells
    PROVE  Cat(a, <<>>) = a /\ Cat(<<>>, a) = a /\ <<>> \in Cells
<1>1. a \o <<>> = a /\ <<>> \o a = a
    BY ConcatEmptySeq DEF Cells
<1>2. <<>> \in Cells
    BY DEF Cells
<1> QED
    BY <1>1, <1>2 DEF Cat

\* What a list of pieces is flattened to.
LEMMA FlatOf ==
    /\ Flat(<<>>) = <<>>
    /\ \A x \in Cells : Flat(<<x>>) = x
    /\ \A ss \in Lists : Flat(ss) \in Cells
    /\ \A ss, tt \in Lists : Flat(ss \o tt) = Cat(Flat(ss), Flat(tt))
<1>1. Flat(<<>>) = <<>>
    BY FlatSmall DEF Flat
<1>2. ASSUME NEW x \in Cells PROVE Flat(<<x>>) = x
    BY FlatSmall DEF Flat, Cells
<1>3. ASSUME NEW ss \in Lists PROVE Flat(ss) \in Cells
    BY FlatTyped DEF Flat, Cells, Lists
<1>4. ASSUME NEW ss \in Lists, NEW tt \in Lists
      PROVE  Flat(ss \o tt) = Cat(Flat(ss), Flat(tt))
    <2>1. F!FlattenSeq(ss \o tt) = F!FlattenSeq(ss) \o F!FlattenSeq(tt)
        BY FlatConcat DEF Cells, Lists
    <2> QED
        BY <2>1 DEF Flat, Cat
<1> QED
    BY <1>1, <1>2, <1>3, <1>4

\* A file holds itself.
LEMMA HoldsSelf ==
    ASSUME NEW f \in Cells PROVE Holds(f, 0, f)
BY CellsAre DEF Holds

\* Where a concatenation is, its parts are.
LEMMA HoldsParts ==
    ASSUME NEW f \in Cells, NEW at \in Nat, NEW a \in Cells, NEW b \in Cells,
           Holds(f, at, Cat(a, b))
    PROVE  Holds(f, at, a) /\ Holds(f, at + Len(a), b)
<1>1. PICK c : c = Cat(a, b)
    OBVIOUS
<1>2. /\ Len(c) = Len(a) + Len(b)
      /\ \A i \in 1 .. Len(a) : c[i] = a[i]
      /\ \A i \in 1 .. Len(b) : c[Len(a) + i] = b[i]
    BY <1>1, CatIs
<1>3. /\ at + Len(c) <= Len(f) /\ \A i \in 1 .. Len(c) : f[at + i] = c[i]
    BY <1>1 DEF Holds
<1>4. Len(a) \in Nat /\ Len(b) \in Nat /\ Len(f) \in Nat
    BY CellsAre
<1>5. ASSUME NEW i \in 1 .. Len(a) PROVE f[at + i] = a[i]
    <2>1. i \in 1 .. Len(c)
        BY <1>2, <1>4
    <2> QED
        BY <2>1, <1>2, <1>3
<1>6. ASSUME NEW i \in 1 .. Len(b) PROVE f[(at + Len(a)) + i] = b[i]
    <2>1. Len(a) + i \in 1 .. Len(c) /\ at + (Len(a) + i) = (at + Len(a)) + i
        BY <1>2, <1>4
    <2> QED
        BY <2>1, <1>2, <1>3
<1>7. at + Len(a) <= Len(f) /\ (at + Len(a)) + Len(b) <= Len(f)
    BY <1>2, <1>3, <1>4
<1> QED
    BY <1>5, <1>6, <1>7 DEF Holds

\* What is held is cut out.
LEMMA HoldsCut ==
    ASSUME NEW f \in Cells, NEW at \in Nat, NEW x \in Cells, Holds(f, at, x)
    PROVE  SubSeq(f, at + 1, at + Len(x)) = x
<1>1. /\ at + Len(x) <= Len(f) /\ \A i \in 1 .. Len(x) : f[at + i] = x[i]
    BY DEF Holds
<1>2. Len(x) \in Nat /\ Len(f) \in Nat /\ \A i \in 1 .. Len(f) : f[i] \in Nat
    BY CellsAre
<1>3. PICK lo \in Nat, hi \in Nat : lo = at + 1 /\ hi = at + Len(x)
    BY <1>2
<1>4. \A i \in lo .. hi : f[i] \in Nat
    BY <1>1, <1>2, <1>3
<1>5. PICK s : s = SubSeq(f, lo, hi)
    OBVIOUS
<1>6. /\ s \in Seq(Nat) /\ Len(s) = IF lo <= hi THEN hi - lo + 1 ELSE 0
      /\ \A i \in 1 .. hi - lo + 1 : s[i] = f[lo + i - 1]
    BY <1>4, <1>5, SubSeqProperties
<1>7. Len(s) = Len(x)
    BY <1>2, <1>3, <1>6
<1>8. ASSUME NEW i \in 1 .. Len(s) PROVE s[i] = x[i]
    <2>1. i \in 1 .. hi - lo + 1 /\ lo + i - 1 = at + i /\ i \in 1 .. Len(x)
        BY <1>2, <1>3, <1>7
    <2> QED
        BY <2>1, <1>1, <1>6
<1>9. s = x
    BY <1>6, <1>7, <1>8, SeqEqual DEF Cells
<1> QED
    BY <1>3, <1>5, <1>9

-----------------------------------------------------------------------------
(* The writer.                                                              *)

\* Every place is in a block.
LEMMA BlockOf ==
    ASSUME NEW B \in Nat \ {0}
    PROVE  \A j \in Nat : \E q \in 0 .. j : q * B <= j /\ j < q * B + B
<1> DEFINE S == {j \in Nat : \E q \in 0 .. j : q * B <= j /\ j < q * B + B}
<1>1. 0 \in S
    <2>1. 0 \in 0 .. 0 /\ 0 * B <= 0 /\ 0 < 0 * B + B
        OBVIOUS
    <2> QED
        BY <2>1
<1>2. ASSUME NEW j \in Nat, j \in S PROVE j + 1 \in S
    <2>1. PICK q \in 0 .. j : q * B <= j /\ j < q * B + B
        BY <1>2
    <2>2. (q + 1) * B = q * B + B /\ q * B \in Int
        OBVIOUS
    <2>3. PICK x \in Int : x = q * B
        BY <2>2
    <2>4. CASE j + 1 < q * B + B
        <3>1. q \in 0 .. j + 1 /\ q * B <= j + 1
            BY <2>1, <2>3
        <3> QED
            BY <3>1, <2>4
    <2>5. CASE ~(j + 1 < q * B + B)
        <3>1. q + 1 \in 0 .. j + 1
            OBVIOUS
        <3>2. (q + 1) * B <= j + 1 /\ j + 1 < (q + 1) * B + B
            BY <2>1, <2>2, <2>3, <2>5
        <3>3. PICK p : p = q + 1
            OBVIOUS
        <3>4. p \in 0 .. j + 1 /\ p * B <= j + 1 /\ j + 1 < p * B + B
            BY <3>1, <3>2, <3>3
        <3>5. \E i \in 0 .. j + 1 : i * B <= j + 1 /\ j + 1 < i * B + B
            BY <3>4
        <3> QED
            BY <3>5
    <2> QED
        BY <2>4, <2>5
<1>3. \A j \in Nat : j \in S
    <2> HIDE DEF S
    <2> QED
        BY <1>1, <1>2, NatSetInduction
<1> QED
    BY <1>3

\* The requests of a batch are of whole numbers, and cover the buffer.
LEMMA RequestsCover ==
    ASSUME BlockSize \in Nat \ {0}, NEW n \in Nat
    PROVE  /\ \A r \in F!Requests(n) : r.from \in Nat
           /\ \A j \in 1 .. n : \E r \in F!Requests(n) : j \in r.from + 1 .. r.from + r.len
<1>1. ASSUME NEW r \in F!Requests(n) PROVE r.from \in Nat
    BY DEF F!Requests
<1>2. ASSUME NEW j \in 1 .. n
      PROVE  \E r \in F!Requests(n) : j \in r.from + 1 .. r.from + r.len
    <2>1. j - 1 \in Nat
        OBVIOUS
    <2>2. PICK q \in 0 .. j - 1 : q * BlockSize <= j - 1 /\ j - 1 < q * BlockSize + BlockSize
        BY <2>1, BlockOf
    <2>3. PICK g : g = q * BlockSize
        OBVIOUS
    <2>4. q \in 0 .. n /\ g \in 0 .. n - 1
        <3>1. q * BlockSize \in Nat
            OBVIOUS
        <3> QED
            BY <2>2, <2>3, <3>1
    <2>5. PICK r : r = [from |-> g, len |-> F!Lesser(BlockSize, n - g)]
        OBVIOUS
    <2>6. g \in {i * BlockSize : i \in 0 .. n} \cap 0 .. n - 1
        BY <2>3, <2>4
    <2>7. r \in F!Requests(n)
        BY <2>5, <2>6 DEF F!Requests
    <2>8. r.from = g /\ r.len = F!Lesser(BlockSize, n - g)
        BY <2>5
    <2>9. r.len \in Int /\ j <= g + r.len /\ g + 1 <= j
        BY <2>2, <2>3, <2>4, <2>8 DEF F!Lesser
    <2>10. j \in r.from + 1 .. r.from + r.len
        BY <2>4, <2>8, <2>9
    <2> QED
        BY <2>7, <2>10
<1> QED
    BY <1>1, <1>2

\* A batch of requests puts the buffer behind what is written.
LEMMA FlushedIs ==
    ASSUME BlockSize \in Nat \ {0}, NEW t \in Cells, NEW b \in Cells
    PROVE  F!Flushed(t, b) = Cat(t, b)
<1>1. Len(t) \in Nat /\ Len(b) \in Nat
    BY CellsAre
<1> DEFINE R(i) == CHOOSE r \in F!Requests(Len(b)) :
                        i - Len(t) \in r.from + 1 .. r.from + r.len
           V(i) == IF i <= Len(t) THEN t[i] ELSE b[R(i).from + (i - Len(t) - R(i).from)]
<1>2. F!Flushed(t, b) = [i \in 1 .. Len(t) + Len(b) |-> V(i)]
    BY DEF F!Flushed
<1>3. PICK c \in Cells : /\ c = Cat(t, b) /\ Len(c) = Len(t) + Len(b)
                         /\ \A i \in 1 .. Len(t) : c[i] = t[i]
                         /\ \A i \in 1 .. Len(b) : c[Len(t) + i] = b[i]
    BY CatIs
<1>4. c = [i \in 1 .. Len(t) + Len(b) |-> c[i]]
    BY <1>3, CellsAre
<1>5. ASSUME NEW i \in 1 .. Len(t) + Len(b) PROVE V(i) = c[i]
    <2>1. CASE i <= Len(t)
        BY <2>1, <1>1, <1>3
    <2>2. CASE ~(i <= Len(t))
        <3>1. i - Len(t) \in 1 .. Len(b) /\ Len(t) + (i - Len(t)) = i
            BY <2>2, <1>1
        <3>2. R(i) \in F!Requests(Len(b))
            BY <1>1, <3>1, RequestsCover
        <3>3. R(i).from \in Nat
            BY <1>1, <3>2, RequestsCover
        <3>4. PICK x \in Nat : x = R(i).from
            BY <3>3
        <3> HIDE DEF R
        <3>5. x + (i - Len(t) - x) = i - Len(t)
            BY <3>4, <3>1
        <3>6. V(i) = b[i - Len(t)]
            BY <2>2, <3>4, <3>5
        <3>7. c[i] = b[i - Len(t)]
            BY <3>1, <1>3
        <3> QED
            BY <3>6, <3>7
    <2> QED
        BY <2>1, <2>2
<1> HIDE DEF V
<1>6. [i \in 1 .. Len(t) + Len(b) |-> V(i)] = [i \in 1 .. Len(t) + Len(b) |-> c[i]]
    BY <1>5
<1> QED
    BY <1>2, <1>3, <1>4, <1>6

\* What a turn of the loop moves from the first piece into the buffer.
LEMMA PieceSplit ==
    ASSUME NEW piece \in Cells, NEW n \in 0 .. Len(piece)
    PROVE  /\ SubSeq(piece, 1, n) \in Cells /\ Len(SubSeq(piece, 1, n)) = n
           /\ SubSeq(piece, n + 1, Len(piece)) \in Cells
           /\ Cat(SubSeq(piece, 1, n), SubSeq(piece, n + 1, Len(piece))) = piece
<1>1. Len(piece) \in Nat /\ \A i \in 1 .. Len(piece) : piece[i] \in Nat
    BY CellsAre
<1>2. /\ 1 \in 1 .. Len(piece) + 1 /\ n \in 1 - 1 .. Len(piece)
      /\ Len(piece) \in n .. Len(piece)
    BY <1>1
<1>3. SubSeq(piece, 1, n) \o SubSeq(piece, n + 1, Len(piece)) = SubSeq(piece, 1, Len(piece))
    BY <1>2, ConcatAdjacentSubSeq DEF Cells
<1>4. SubSeq(piece, 1, Len(piece)) = piece
    BY SubSeqFull DEF Cells
<1>5. SubSeq(piece, 1, n) \in Cells /\ Len(SubSeq(piece, 1, n)) = n
    BY FrontIs DEF Front, Cells
<1>6. SubSeq(piece, n + 1, Len(piece)) \in Cells
    <2>1. \A i \in n + 1 .. Len(piece) : piece[i] \in Nat
        BY <1>1
    <2>2. n + 1 \in Int /\ Len(piece) \in Int
        BY <1>1
    <2> QED
        BY <2>1, <2>2, SubSeqProperties DEF Cells
<1> QED
    BY <1>3, <1>4, <1>5, <1>6 DEF Cat

-----------------------------------------------------------------------------
(* Records.                                                                 *)

Db == [F!Engine -> [Key -> Value \cup {Absent}]]

\* The cells of a record, and of the first n records of s.
Rec(d, ek) == Flat(F!RecordPieces(d, ek))
Run(d, s, n) == Flat(F!FlattenSeq([i \in 1 .. n |-> F!RecordPieces(d, s[i])]))

\* A key and a value that are stored.
LEMMA StoredIs ==
    ASSUME F!SnapshotFileAssumption, NEW d \in Db, NEW ek \in F!Stored(d)
    PROVE  /\ ek = <<ek[1], ek[2]>> /\ ek[1] \in F!Engine /\ ek[1] \in Nat /\ ek[2] \in Key
           /\ d[ek[1]][ek[2]] \in Value
           /\ ek[2] \in Seq(Nat \ {0}) /\ d[ek[1]][ek[2]] \in Seq(Nat \ {0})
           /\ ek[2] \in Cells /\ d[ek[1]][ek[2]] \in Cells
<1>1. ek \in F!Engine \X Key /\ d[ek[1]][ek[2]] # Absent
    BY DEF F!Stored
<1>2. ek = <<ek[1], ek[2]>> /\ ek[1] \in F!Engine /\ ek[2] \in Key
    BY <1>1
<1>3. d[ek[1]] \in [Key -> Value \cup {Absent}]
    BY <1>2 DEF Db
<1>4. d[ek[1]][ek[2]] \in Value
    BY <1>1, <1>2, <1>3
<1>5. Key \cup Value \subseteq Seq(Nat \ {0}) /\ Engines \in Nat
    BY DEF F!SnapshotFileAssumption
<1>6. ek[1] \in Nat
    BY <1>2, <1>5 DEF F!Engine
<1>7. ek[2] \in Seq(Nat \ {0}) /\ d[ek[1]][ek[2]] \in Seq(Nat \ {0})
    BY <1>2, <1>4, <1>5
<1>8. Nat \ {0} \subseteq Nat
    OBVIOUS
<1>9. ek[2] \in Cells /\ d[ek[1]][ek[2]] \in Cells
    <2>1. ASSUME NEW x \in Seq(Nat \ {0}) PROVE x \in Cells
        BY <1>8, SeqMonotonic DEF Cells
    <2> QED
        BY <1>7, <2>1
<1> QED
    BY <1>2, <1>4, <1>6, <1>7, <1>9

\* The key, the value and the header of a record.
KeyOf(ek) == ek[2]
ValOf(d, ek) == d[ek[1]][ek[2]]
HeadOf(d, ek) == <<ek[1], Len(KeyOf(ek)), Len(ValOf(d, ek))>>

\* What these and the record consist of.
LEMMA RecIs ==
    ASSUME F!SnapshotFileAssumption, NEW d \in Db, NEW ek \in F!Stored(d)
    PROVE  /\ F!RecordPieces(d, ek) \in Lists
           /\ HeadOf(d, ek) \in Cells /\ Len(HeadOf(d, ek)) = 3
           /\ HeadOf(d, ek)[1] = ek[1]
           /\ HeadOf(d, ek)[2] = Len(KeyOf(ek)) /\ HeadOf(d, ek)[3] = Len(ValOf(d, ek))
           /\ KeyOf(ek) \in Cells /\ ValOf(d, ek) \in Cells
           /\ Rec(d, ek) = Cat(HeadOf(d, ek), Cat(KeyOf(ek), ValOf(d, ek)))
           /\ Rec(d, ek) \in Cells
           /\ Len(Rec(d, ek)) = 3 + (Len(KeyOf(ek)) + Len(ValOf(d, ek)))
<1>1. PICK e, k, v : e = ek[1] /\ k = KeyOf(ek) /\ v = ValOf(d, ek)
    OBVIOUS
<1>2. e \in Nat /\ k \in Cells /\ v \in Cells
    BY <1>1, StoredIs DEF KeyOf, ValOf
<1>3. Len(k) \in Nat /\ Len(v) \in Nat
    BY <1>2, CellsAre
<1>4. PICK h : h = <<e, Len(k), Len(v)>>
    OBVIOUS
<1>5. h \in Cells /\ Len(h) = 3 /\ h[1] = e /\ h[2] = Len(k) /\ h[3] = Len(v)
    BY <1>2, <1>3, <1>4 DEF Cells
<1>6. F!RecordPieces(d, ek) = <<h, k, v>>
    BY <1>1, <1>4 DEF F!RecordPieces, KeyOf, ValOf
<1>7. <<h, k, v>> \in Lists /\ <<h>> \in Lists /\ <<h, k>> \in Lists
    BY <1>2, <1>5 DEF Lists
<1>8. Append(<<h>>, k) = <<h, k>> /\ Append(<<h, k>>, v) = <<h, k, v>>
    BY <1>2, <1>5, AppendTuple
<1>9. ASSUME NEW ss \in Lists, NEW x \in Cells PROVE Flat(Append(ss, x)) = Cat(Flat(ss), x)
    <2>1. F!FlattenSeq(Append(ss, x)) = F!FlattenSeq(ss) \o x
        BY FlatAppend DEF Lists, Cells
    <2> QED
        BY <2>1 DEF Flat, Cat
<1>10. Flat(<<h, k>>) = Cat(h, k)
    BY <1>2, <1>5, <1>7, <1>8, <1>9, FlatOf
<1>11. Flat(<<h, k, v>>) = Cat(Cat(h, k), v)
    BY <1>2, <1>7, <1>8, <1>9, <1>10
<1>12. Cat(Cat(h, k), v) = Cat(h, Cat(k, v))
    BY <1>2, <1>5, CatAssoc
<1>13. PICK kv \in Cells : kv = Cat(k, v) /\ Len(kv) = Len(k) + Len(v)
    BY <1>2, CatIs
<1>14. Cat(h, kv) \in Cells /\ Len(Cat(h, kv)) = 3 + (Len(k) + Len(v))
    <2>1. Cat(h, kv) \in Cells /\ Len(Cat(h, kv)) = Len(h) + Len(kv)
        BY <1>5, CatIs
    <2> QED
        BY <2>1, <1>5, <1>13
<1>15. Rec(d, ek) = Cat(h, kv)
    BY <1>6, <1>11, <1>12, <1>13 DEF Rec
<1>16. HeadOf(d, ek) = h
    BY <1>1, <1>4 DEF HeadOf
<1> QED
    BY <1>1, <1>2, <1>5, <1>6, <1>7, <1>13, <1>14, <1>15, <1>16

\* An enumeration of some stored keys.
Listing(d, s) == s \in Seq(F!Stored(d))

\* The pieces of the first n records.
PiecesOf(d, s, n) == [i \in 1 .. n |-> F!RecordPieces(d, s[i])]

\* They grow record by record.
LEMMA RunIs ==
    ASSUME F!SnapshotFileAssumption, NEW d \in Db, NEW s, Listing(d, s)
    PROVE  /\ Run(d, s, 0) = <<>>
           /\ \A n \in 0 .. Len(s) : /\ Run(d, s, n) \in Cells
                                     /\ PiecesOf(d, s, n) \in Seq(Lists)
                                     /\ F!FlattenSeq(PiecesOf(d, s, n)) \in Lists
           /\ \A n \in 0 .. Len(s) - 1 :
                  Run(d, s, n + 1) = Cat(Run(d, s, n), Rec(d, s[n + 1]))
<1>1. Len(s) \in Nat /\ \A i \in 1 .. Len(s) : s[i] \in F!Stored(d)
    BY LenProperties, ElementOfSeq DEF Listing
<1>2. \A i \in 1 .. Len(s) : F!RecordPieces(d, s[i]) \in Lists
    BY <1>1, RecIs
<1>3. ASSUME NEW n \in 0 .. Len(s)
      PROVE  PiecesOf(d, s, n) \in Seq(Lists) /\ Len(PiecesOf(d, s, n)) = n
    <2>1. n \in Nat /\ \A i \in 1 .. n : F!RecordPieces(d, s[i]) \in Lists
        BY <1>1, <1>2
    <2> QED
        BY <2>1 DEF PiecesOf
<1>4. ASSUME NEW n \in 0 .. Len(s) PROVE F!FlattenSeq(PiecesOf(d, s, n)) \in Lists
    BY <1>3, FlatTyped DEF Lists
<1>5. ASSUME NEW n \in 0 .. Len(s) PROVE Run(d, s, n) = Flat(F!FlattenSeq(PiecesOf(d, s, n)))
    BY DEF Run, PiecesOf
<1>6. ASSUME NEW n \in 0 .. Len(s) PROVE Run(d, s, n) \in Cells
    BY <1>4, <1>5, FlatOf
<1>7. Run(d, s, 0) = <<>>
    <2>1. 0 \in 0 .. Len(s) /\ 1 .. 0 = {}
        BY <1>1
    <2>2. PiecesOf(d, s, 0) = <<>>
        BY <1>3, <2>1, EmptySeq
    <2> QED
        BY <1>5, <2>1, <2>2, FlatSmall, FlatOf
<1>8. ASSUME NEW n \in 0 .. Len(s) - 1
      PROVE  Run(d, s, n + 1) = Cat(Run(d, s, n), Rec(d, s[n + 1]))
    <2>1. n \in 0 .. Len(s) /\ n + 1 \in 0 .. Len(s) /\ n + 1 \in 1 .. Len(s) /\ n \in Nat
        BY <1>1
    <2>2. PICK x : x = F!RecordPieces(d, s[n + 1])
        OBVIOUS
    <2>3. x \in Lists
        BY <2>1, <2>2, <1>2
    <2>4. PICK u : u = PiecesOf(d, s, n)
        OBVIOUS
    <2>5. u \in Seq(Lists) /\ Len(u) = n /\ \A i \in 1 .. n : u[i] = F!RecordPieces(d, s[i])
        <3>1. \A i \in 1 .. n : u[i] = F!RecordPieces(d, s[i])
            BY <2>4 DEF PiecesOf
        <3> QED
            BY <2>1, <2>4, <1>3, <3>1
    <2>6. PICK w : w = PiecesOf(d, s, n + 1)
        OBVIOUS
    <2>7. w \in Seq(Lists) /\ Len(w) = n + 1
          /\ \A i \in 1 .. n + 1 : w[i] = F!RecordPieces(d, s[i])
        <3>1. \A i \in 1 .. n + 1 : w[i] = F!RecordPieces(d, s[i])
            BY <2>6 DEF PiecesOf
        <3> QED
            BY <2>1, <2>6, <1>3, <3>1
    <2>8. w = Append(u, x)
        <3>1. PICK y : y = Append(u, x)
            OBVIOUS
        <3>2. /\ y \in Seq(Lists) /\ Len(y) = Len(u) + 1
              /\ \A i \in 1 .. Len(u) : y[i] = u[i] /\ y[Len(u) + 1] = x
            BY <3>1, <2>3, <2>5, AppendProperties
        <3>3. y[Len(u) + 1] = x
            BY <3>1, <2>3, <2>5, AppendProperties
        <3>4. \A i \in 1 .. Len(w) : w[i] = y[i]
            BY <2>1, <2>2, <2>5, <2>7, <3>2, <3>3
        <3>5. w = y
            BY <2>5, <2>7, <3>2, <3>4, SeqEqual
        <3> QED
            BY <3>1, <3>5
    <2>9. F!FlattenSeq(w) = F!FlattenSeq(u) \o x
        BY <2>3, <2>5, <2>8, FlatAppend DEF Lists
    <2>10. F!FlattenSeq(u) \in Lists
        BY <2>1, <2>4, <1>4
    <2>11. PICK fu \in Lists : fu = F!FlattenSeq(u)
        BY <2>10
    <2>12. Flat(fu \o x) = Cat(Flat(fu), Flat(x))
        BY <2>3, FlatOf
    <2>13. /\ Run(d, s, n + 1) = Flat(F!FlattenSeq(w))
           /\ Run(d, s, n) = Flat(F!FlattenSeq(u))
        BY <1>5, <2>1, <2>4, <2>6
    <2>14. Rec(d, s[n + 1]) = Flat(x)
        BY <2>2 DEF Rec
    <2> QED
        BY <2>9, <2>11, <2>12, <2>13, <2>14
<1> QED
    BY <1>3, <1>4, <1>6, <1>7, <1>8

\* The records of a listing are as long as its cells, and at least three each.
LEMMA RunLength ==
    ASSUME F!SnapshotFileAssumption, NEW d \in Db, NEW s, Listing(d, s)
    PROVE  \A n \in 0 .. Len(s) : Len(Run(d, s, n)) \in Nat /\ Len(Run(d, s, n)) >= 3 * n
<1> DEFINE N == {n \in Nat : n <= Len(s) =>
                                Len(Run(d, s, n)) \in Nat /\ Len(Run(d, s, n)) >= 3 * n}
<1>1. Len(s) \in Nat /\ \A i \in 1 .. Len(s) : s[i] \in F!Stored(d)
    BY LenProperties, ElementOfSeq DEF Listing
<1>2. 0 \in N
    <2>1. Len(Run(d, s, 0)) = 0
        BY RunIs
    <2> QED
        BY <2>1
<1>3. ASSUME NEW n \in Nat, n \in N PROVE n + 1 \in N
    <2> SUFFICES ASSUME n + 1 <= Len(s)
                 PROVE  Len(Run(d, s, n + 1)) \in Nat /\ Len(Run(d, s, n + 1)) >= 3 * (n + 1)
        OBVIOUS
    <2>1. n \in 0 .. Len(s) - 1 /\ n \in 0 .. Len(s) /\ n + 1 \in 1 .. Len(s)
        BY <1>1
    <2>2. Len(Run(d, s, n)) \in Nat /\ Len(Run(d, s, n)) >= 3 * n
        BY <1>3, <2>1
    <2>3. PICK r, ek : r = Rec(d, ek) /\ ek = s[n + 1]
        OBVIOUS
    <2>4. PICK k \in Cells, v \in Cells : r \in Cells /\ Len(r) = 3 + (Len(k) + Len(v))
        BY <1>1, <2>1, <2>3, RecIs
    <2>5. Len(r) \in Nat /\ Len(r) >= 3
        <3>1. Len(k) \in Nat /\ Len(v) \in Nat
            BY CellsAre
        <3> QED
            BY <2>4, <3>1
    <2>6. Run(d, s, n) \in Cells
        BY <2>1, RunIs
    <2>7. Run(d, s, n + 1) = Cat(Run(d, s, n), r)
        BY <2>1, <2>3, RunIs
    <2>8. Len(Run(d, s, n + 1)) = Len(Run(d, s, n)) + Len(r)
        <3>1. PICK a \in Cells : a = Run(d, s, n)
            BY <2>6
        <3>2. Len(Cat(a, r)) = Len(a) + Len(r)
            BY <2>4, CatIs
        <3> QED
            BY <2>7, <3>1, <3>2
    <2> QED
        BY <2>2, <2>5, <2>8
<1>4. \A n \in Nat : n \in N
    <2> HIDE DEF N
    <2> QED
        BY <1>2, <1>3, NatSetInduction
<1> QED
    BY <1>1, <1>4

-----------------------------------------------------------------------------
(* The passes over a file.                                                  *)

\* What is read where a record is.
Read(d, ek, next) == [ok |-> TRUE, engine |-> ek[1], next |-> next,
                      key |-> KeyOf(ek), val |-> ValOf(d, ek)]

\* Where a record is, it is read.
LEMMA ParseIs ==
    ASSUME F!SnapshotFileAssumption, NEW d \in Db, NEW ek \in F!Stored(d),
           NEW f \in Cells, NEW at \in Nat, Holds(f, at, Rec(d, ek))
    PROVE  F!ParseRecord(f, at) = Read(d, ek, at + Len(Rec(d, ek)))
<1>1. PICK h, k, v : h = HeadOf(d, ek) /\ k = KeyOf(ek) /\ v = ValOf(d, ek)
    OBVIOUS
<1>2. /\ h \in Cells /\ Len(h) = 3 /\ h[1] = ek[1] /\ h[2] = Len(k) /\ h[3] = Len(v)
      /\ k \in Cells /\ v \in Cells
      /\ Rec(d, ek) = Cat(h, Cat(k, v)) /\ Len(Rec(d, ek)) = 3 + (Len(k) + Len(v))
    BY <1>1, RecIs
<1>3. PICK kv \in Cells : kv = Cat(k, v)
    BY <1>2, CatIs
<1>4. Holds(f, at, h) /\ Holds(f, at + Len(h), kv)
    <2>1. Holds(f, at, Cat(h, kv))
        BY <1>2, <1>3
    <2> QED
        BY <2>1, <1>2, HoldsParts
<1>5. Holds(f, at + 3, kv) /\ at + 3 \in Nat
    BY <1>2, <1>4
<1>6. Holds(f, at + 3, k) /\ Holds(f, (at + 3) + Len(k), v)
    BY <1>2, <1>3, <1>5, HoldsParts
<1>7. PICK a \in Nat, b \in Nat : a = Len(k) /\ b = Len(v)
    BY <1>2, CellsAre
<1>8. f[at + 1] = ek[1] /\ f[at + 2] = a /\ f[at + 3] = b
    BY <1>2, <1>4, <1>7 DEF Holds
<1>9. PICK mid \in Nat, end \in Nat : mid = (at + 3) + a /\ end = mid + b
    OBVIOUS
<1>10. at + 3 <= Len(f) /\ end <= Len(f) /\ Len(f) \in Nat
    <2>1. (at + 3) + Len(k) <= Len(f) /\ ((at + 3) + Len(k)) + Len(v) <= Len(f)
        BY <1>6 DEF Holds
    <2>2. Len(f) \in Nat
        BY CellsAre
    <2> QED
        BY <2>1, <2>2, <1>7, <1>9
<1>11. SubSeq(f, at + 4, mid) = k
    <2>1. SubSeq(f, (at + 3) + 1, (at + 3) + Len(k)) = k
        BY <1>2, <1>5, <1>6, HoldsCut
    <2> QED
        BY <2>1, <1>7, <1>9
<1>12. SubSeq(f, mid + 1, end) = v
    <2>1. Holds(f, mid, v)
        BY <1>6, <1>7, <1>9
    <2>2. SubSeq(f, mid + 1, mid + Len(v)) = v
        BY <2>1, <1>2, HoldsCut
    <2> QED
        BY <2>2, <1>7, <1>9
<1>13. ASSUME NEW i \in at + 4 .. end PROVE f[i] # 0
    <2>1. k \in Seq(Nat \ {0}) /\ v \in Seq(Nat \ {0})
        BY <1>1, StoredIs DEF KeyOf, ValOf
    <2>2. CASE i <= mid
        <3>1. i - (at + 3) \in 1 .. a /\ (at + 3) + (i - (at + 3)) = i
            BY <2>2, <1>9
        <3>2. f[i] = k[i - (at + 3)]
            BY <3>1, <1>6, <1>7 DEF Holds
        <3>3. k[i - (at + 3)] \in Nat \ {0}
            BY <3>1, <2>1, <1>7, ElementOfSeq
        <3> QED
            BY <3>2, <3>3
    <2>3. CASE ~(i <= mid)
        <3>1. i - mid \in 1 .. b /\ mid + (i - mid) = i
            BY <2>3, <1>9
        <3>2. f[i] = v[i - mid]
            <4>1. Holds(f, mid, v)
                BY <1>6, <1>7, <1>9
            <4> QED
                BY <3>1, <4>1, <1>7 DEF Holds
        <3>3. v[i - mid] \in Nat \ {0}
            BY <3>1, <2>1, <1>7, ElementOfSeq
        <3> QED
            BY <3>2, <3>3
    <2> QED
        BY <2>2, <2>3
<1>14. ek[1] \in F!Engine
    BY StoredIs
<1>15. F!ParseRecord(f, at) = [ok |-> TRUE, engine |-> f[at + 1], next |-> end,
                               key |-> SubSeq(f, at + 4, mid), val |-> SubSeq(f, mid + 1, end)]
    <2>1. ~(at + 3 > Len(f) \/ f[at + 1] \notin F!Engine)
        BY <1>8, <1>10, <1>14
    <2>2. at + 3 + f[at + 2] = mid /\ mid + f[at + 3] = end
        BY <1>8, <1>9
    <2>3. ~(end > Len(f) \/ \E i \in at + 4 .. end : f[i] = F!Nul)
        BY <1>10, <1>13 DEF F!Nul
    <2> QED
        BY <2>1, <2>2, <2>3 DEF F!ParseRecord
<1>16. at + Len(Rec(d, ek)) = end
    BY <1>2, <1>7, <1>9
<1> QED
    BY <1>1, <1>8, <1>11, <1>12, <1>15, <1>16 DEF Read

\* The end of the first n records, which begin behind at cells.
End(at, d, s, n) == at + Len(Run(d, s, n))

\* The records are in the file, one behind the other.
LEMMA RunHolds ==
    ASSUME F!SnapshotFileAssumption, NEW d \in Db, NEW s, Listing(d, s),
           NEW f \in Cells, NEW at \in Nat, Holds(f, at, Run(d, s, Len(s)))
    PROVE  \A n \in 0 .. Len(s) : Holds(f, at, Run(d, s, n))
<1> DEFINE N == {m \in Nat : m <= Len(s) => Holds(f, at, Run(d, s, Len(s) - m))}
<1>1. Len(s) \in Nat /\ \A i \in 1 .. Len(s) : s[i] \in F!Stored(d)
    BY LenProperties, ElementOfSeq DEF Listing
<1>2. 0 \in N
    <2>1. Len(s) - 0 = Len(s)
        BY <1>1
    <2> QED
        BY <2>1
<1>3. ASSUME NEW m \in Nat, m \in N PROVE m + 1 \in N
    <2> SUFFICES ASSUME m + 1 <= Len(s) PROVE Holds(f, at, Run(d, s, Len(s) - (m + 1)))
        OBVIOUS
    <2>0. PICK n : n = Len(s) - (m + 1)
        OBVIOUS
    <2>1. n \in 0 .. Len(s) - 1 /\ n = Len(s) - (m + 1) /\ n + 1 = Len(s) - m
        BY <1>1, <2>0
    <2>2. n \in 0 .. Len(s) /\ n + 1 \in 1 .. Len(s)
        BY <1>1, <2>1
    <2>3. Holds(f, at, Run(d, s, n + 1))
        BY <1>1, <1>3, <2>1
    <2>4. Run(d, s, n) \in Cells /\ Rec(d, s[n + 1]) \in Cells
        BY <1>1, <2>2, RunIs, RecIs
    <2>5. Run(d, s, n + 1) = Cat(Run(d, s, n), Rec(d, s[n + 1]))
        BY <2>1, RunIs
    <2>6. Holds(f, at, Run(d, s, n))
        BY <2>3, <2>4, <2>5, HoldsParts
    <2> QED
        BY <2>1, <2>6
<1>4. \A m \in Nat : m \in N
    <2> HIDE DEF N
    <2> QED
        BY <1>2, <1>3, NatSetInduction
<1>5. ASSUME NEW n \in 0 .. Len(s) PROVE Holds(f, at, Run(d, s, n))
    <2>1. Len(s) - n \in Nat /\ Len(s) - n <= Len(s) /\ Len(s) - (Len(s) - n) = n
        BY <1>1
    <2>2. Len(s) - n \in N
        BY <2>1, <1>4
    <2> QED
        BY <2>1, <2>2
<1> QED
    BY <1>5

\* Each of them is read where the one in front of it ends.
LEMMA ParseNext ==
    ASSUME F!SnapshotFileAssumption, NEW d \in Db, NEW s, Listing(d, s),
           NEW f \in Cells, NEW at \in Nat, Holds(f, at, Run(d, s, Len(s))),
           NEW n \in 0 .. Len(s) - 1
    PROVE  /\ F!ParseRecord(f, End(at, d, s, n)) = Read(d, s[n + 1], End(at, d, s, n + 1))
           /\ End(at, d, s, n) \in Nat /\ End(at, d, s, n + 1) \in Nat
           /\ End(at, d, s, n + 1) <= Len(f)
<1>1. Len(s) \in Nat /\ \A i \in 1 .. Len(s) : s[i] \in F!Stored(d)
    BY LenProperties, ElementOfSeq DEF Listing
<1>2. n + 1 \in 1 .. Len(s) /\ n + 1 \in 0 .. Len(s) /\ n \in 0 .. Len(s)
    BY <1>1
<1>3. PICK ek, a, b : ek = s[n + 1] /\ a = Run(d, s, n) /\ b = Rec(d, ek)
    OBVIOUS
<1>4. ek \in F!Stored(d)
    BY <1>1, <1>2, <1>3
<1>5. a \in Cells /\ b \in Cells /\ Run(d, s, n + 1) = Cat(a, b)
    BY <1>2, <1>3, <1>4, RunIs, RecIs
<1>6. Holds(f, at, Cat(a, b))
    BY <1>2, <1>5, RunHolds
<1>7. Holds(f, at + Len(a), b)
    BY <1>5, <1>6, HoldsParts
<1>8. Len(a) \in Nat /\ Len(b) \in Nat /\ Len(Cat(a, b)) = Len(a) + Len(b)
    BY <1>5, CellsAre, CatIs
<1>9. at + Len(a) \in Nat
    BY <1>8
<1>10. F!ParseRecord(f, at + Len(a)) = Read(d, ek, (at + Len(a)) + Len(b))
    BY <1>3, <1>4, <1>7, <1>9, ParseIs
<1>11. End(at, d, s, n) = at + Len(a) /\ End(at, d, s, n + 1) = (at + Len(a)) + Len(b)
    BY <1>3, <1>5, <1>8 DEF End
<1>12. at + Len(Cat(a, b)) <= Len(f)
    BY <1>6 DEF Holds
<1>13. (at + Len(a)) + Len(b) <= Len(f)
    BY <1>8, <1>12
<1> QED
    BY <1>3, <1>8, <1>9, <1>10, <1>11, <1>13

\* One step of the first pass, and the passes of n steps.
Hop(f, x) ==
    IF x < 0 THEN -1
    ELSE LET r == F!ParseRecord(f, x) IN IF r.ok THEN r.next ELSE -1

Hops(f, at, n, g) == g = [i \in 0 .. n |-> IF i = 0 THEN at ELSE Hop(f, g[i - 1])]

\* What its steps are.
LEMMA HopsAt ==
    ASSUME NEW f, NEW at, NEW n \in Nat, NEW g, Hops(f, at, n, g)
    PROVE  g[0] = at /\ \A i \in 1 .. n : g[i] = Hop(f, g[i - 1])
<1>1. PICK h : h = [i \in 0 .. n |-> IF i = 0 THEN at ELSE Hop(f, g[i - 1])]
    OBVIOUS
<1>2. h[0] = at /\ \A i \in 1 .. n : h[i] = Hop(f, g[i - 1])
    BY <1>1
<1>3. g = h
    BY <1>1 DEF Hops
<1> QED
    BY <1>2, <1>3

\* A step ends at a number.
LEMMA HopTyped ==
    ASSUME NEW f \in Cells, NEW x \in Int PROVE Hop(f, x) \in Int
<1>1. CASE x < 0
    BY <1>1 DEF Hop
<1>2. CASE ~(x < 0)
    <2>1. Len(f) \in Nat /\ \A i \in 1 .. Len(f) : f[i] \in Nat
        BY CellsAre
    <2>2. PICK r : r = F!ParseRecord(f, x)
        OBVIOUS
    <2>3. CASE x + 3 > Len(f) \/ f[x + 1] \notin F!Engine
        <3>1. r = [ok |-> FALSE]
            BY <2>2, <2>3 DEF F!ParseRecord, F!Bad
        <3>2. ~r.ok
            BY <3>1
        <3> QED
            BY <1>2, <2>2, <3>2 DEF Hop
    <2>4. CASE ~(x + 3 > Len(f) \/ f[x + 1] \notin F!Engine)
        <3>1. f[x + 2] \in Nat /\ f[x + 3] \in Nat
            BY <1>2, <2>1, <2>4
        <3>2. PICK mid, end : mid = x + 3 + f[x + 2] /\ end = mid + f[x + 3]
            OBVIOUS
        <3>3. mid \in Int /\ end \in Int
            BY <3>1, <3>2
        <3>4. CASE end > Len(f) \/ \E i \in x + 4 .. end : f[i] = F!Nul
            <4>1. r = [ok |-> FALSE]
                BY <2>2, <2>4, <3>2, <3>4 DEF F!ParseRecord, F!Bad
            <4>2. ~r.ok
                BY <4>1
            <4> QED
                BY <1>2, <2>2, <4>2 DEF Hop
        <3>5. CASE ~(end > Len(f) \/ \E i \in x + 4 .. end : f[i] = F!Nul)
            <4>1. r = [ok |-> TRUE, engine |-> f[x + 1], next |-> end,
                       key |-> SubSeq(f, x + 4, mid), val |-> SubSeq(f, mid + 1, end)]
                BY <2>2, <2>4, <3>2, <3>5 DEF F!ParseRecord
            <4>2. r.ok /\ r.next = end
                BY <4>1
            <4> QED
                BY <1>2, <2>2, <3>3, <4>2 DEF Hop
        <3> QED
            BY <3>4, <3>5
    <2> QED
        BY <2>3, <2>4
<1> QED
    BY <1>1, <1>2

\* There are passes of every length.
LEMMA HopsExist ==
    ASSUME NEW f, NEW at PROVE \A n \in Nat : \E g : Hops(f, at, n, g)
<1> DEFINE S == {n \in Nat : \E g : Hops(f, at, n, g)}
<1>1. 0 \in S
    <2>1. PICK g : g = [i \in 0 .. 0 |-> at]
        OBVIOUS
    <2>2. \A i \in 0 .. 0 : i = 0
        OBVIOUS
    <2>3. [i \in 0 .. 0 |-> at] = [i \in 0 .. 0 |-> IF i = 0 THEN at ELSE Hop(f, g[i - 1])]
        BY <2>2
    <2>4. Hops(f, at, 0, g)
        BY <2>1, <2>3 DEF Hops
    <2> QED
        BY <2>4
<1>2. ASSUME NEW n \in Nat, n \in S PROVE n + 1 \in S
    <2>1. PICK g : Hops(f, at, n, g)
        BY <1>2
    <2>2. PICK h : h = [i \in 0 .. n + 1 |-> IF i = n + 1 THEN Hop(f, g[n]) ELSE g[i]]
        OBVIOUS
    <2>3. /\ h[n + 1] = Hop(f, g[n]) /\ \A i \in 0 .. n : h[i] = g[i]
          /\ h = [i \in 0 .. n + 1 |-> h[i]]
        BY <2>2
    <2>4. g[0] = at /\ \A i \in 1 .. n : g[i] = Hop(f, g[i - 1])
        BY <2>1, HopsAt
    <2>5. ASSUME NEW i \in 0 .. n + 1
          PROVE  h[i] = IF i = 0 THEN at ELSE Hop(f, h[i - 1])
        <3>1. CASE i = 0
            BY <3>1, <2>3, <2>4
        <3>2. CASE i = n + 1
            <4>1. i # 0 /\ i - 1 = n /\ n \in 0 .. n
                BY <3>2
            <4>2. h[i - 1] = g[n]
                BY <4>1, <2>3
            <4> QED
                BY <3>2, <4>1, <4>2, <2>3
        <3>3. CASE i # 0 /\ i # n + 1
            <4>1. i \in 1 .. n /\ i \in 0 .. n /\ i - 1 \in 0 .. n
                BY <3>3
            <4>2. h[i] = g[i] /\ h[i - 1] = g[i - 1] /\ g[i] = Hop(f, g[i - 1])
                BY <4>1, <2>3, <2>4
            <4> QED
                BY <3>3, <4>2
        <3> QED
            BY <3>1, <3>2, <3>3
    <2>6. Hops(f, at, n + 1, h)
        BY <2>3, <2>5 DEF Hops
    <2> QED
        BY <2>6
<1>3. \A n \in Nat : n \in S
    <2> HIDE DEF S
    <2> QED
        BY <1>1, <1>2, NatSetInduction
<1> QED
    BY <1>3

\* Skip is the end of such a pass.
LEMMA SkipOf ==
    ASSUME NEW f, NEW at, NEW n \in Nat
    PROVE  \E g : Hops(f, at, n, g) /\ F!Skip(f, at, n) = g[n]
<1>1. \E g : Hops(f, at, n, g)
    BY HopsExist
<1> DEFINE g == CHOOSE end : end = [i \in 0 .. n |->
                    IF i = 0 THEN at
                    ELSE IF end[i - 1] < 0 THEN -1
                    ELSE LET r == F!ParseRecord(f, end[i - 1])
                         IN  IF r.ok THEN r.next ELSE -1]
<1>2. Hops(f, at, n, g)
    BY <1>1 DEF Hops, Hop
<1>3. F!Skip(f, at, n) = g[n]
    BY DEF F!Skip
<1> HIDE DEF g
<1> QED
    BY <1>2, <1>3

\* It ends at a number.
LEMMA SkipTyped ==
    ASSUME NEW f \in Cells, NEW at \in Int, NEW n \in Nat
    PROVE  F!Skip(f, at, n) \in Int
<1>1. PICK g : Hops(f, at, n, g) /\ F!Skip(f, at, n) = g[n]
    BY SkipOf
<1>2. g[0] = at /\ \A i \in 1 .. n : g[i] = Hop(f, g[i - 1])
    BY <1>1, HopsAt
<1> DEFINE S == {i \in Nat : i <= n => g[i] \in Int}
<1>3. 0 \in S
    BY <1>2
<1>4. ASSUME NEW i \in Nat, i \in S PROVE i + 1 \in S
    <2> SUFFICES ASSUME i + 1 <= n PROVE g[i + 1] \in Int
        OBVIOUS
    <2>1. i + 1 \in 1 .. n /\ (i + 1) - 1 = i /\ g[i] \in Int
        BY <1>4
    <2>2. g[i + 1] = Hop(f, g[i])
        BY <2>1, <1>2
    <2> QED
        BY <2>1, <2>2, HopTyped
<1>5. \A i \in Nat : i \in S
    <2> HIDE DEF S
    <2> QED
        BY <1>3, <1>4, NatSetInduction
<1>6. n \in S
    BY <1>5
<1> QED
    BY <1>1, <1>6

\* Behind n records, m more are skipped.
LEMMA SkipIs ==
    ASSUME F!SnapshotFileAssumption, NEW d \in Db, NEW s, Listing(d, s),
           NEW f \in Cells, NEW at \in Nat, Holds(f, at, Run(d, s, Len(s))),
           NEW n \in Nat, NEW m \in Nat, n + m <= Len(s)
    PROVE  F!Skip(f, End(at, d, s, n), m) = End(at, d, s, n + m)
<1>0. PICK z : z = End(at, d, s, n)
    OBVIOUS
<1>1. PICK g : Hops(f, z, m, g) /\ F!Skip(f, z, m) = g[m]
    BY SkipOf
<1>2. g[0] = z /\ \A i \in 1 .. m : g[i] = Hop(f, g[i - 1])
    BY <1>1, HopsAt
<1> DEFINE S == {i \in Nat : i <= m => g[i] = End(at, d, s, n + i)}
<1>3. 0 \in S
    BY <1>0, <1>2
<1>4. ASSUME NEW i \in Nat, i \in S PROVE i + 1 \in S
    <2> SUFFICES ASSUME i + 1 <= m PROVE g[i + 1] = End(at, d, s, n + (i + 1))
        OBVIOUS
    <2>1. i + 1 \in 1 .. m /\ (i + 1) - 1 = i /\ g[i] = End(at, d, s, n + i)
        BY <1>4
    <2>2. g[i + 1] = Hop(f, g[i])
        BY <2>1, <1>2
    <2>3. PICK j : j = n + i
        OBVIOUS
    <2>4. Len(s) \in Nat
        BY LenProperties DEF Listing
    <2>5. j \in 0 .. Len(s) - 1 /\ j + 1 = n + (i + 1)
        BY <2>3, <2>4
    <2>6. PICK x, y, r : /\ x = End(at, d, s, j) /\ y = End(at, d, s, j + 1)
                         /\ r = F!ParseRecord(f, x)
        OBVIOUS
    <2>7. x \in Nat /\ y \in Nat /\ r = Read(d, s[j + 1], y)
        BY <2>5, <2>6, ParseNext
    <2>8. r.ok /\ r.next = y
        BY <2>7 DEF Read
    <2>9. ~(x < 0)
        BY <2>7
    <2>10. Hop(f, x) = y
        BY <2>6, <2>8, <2>9 DEF Hop
    <2> QED
        BY <2>1, <2>2, <2>3, <2>5, <2>6, <2>10
<1>5. \A i \in Nat : i \in S
    <2> HIDE DEF S
    <2> QED
        BY <1>3, <1>4, NatSetInduction
<1>6. m \in S
    BY <1>5
<1> QED
    BY <1>0, <1>1, <1>6

-----------------------------------------------------------------------------
(* Orders of the records, and what is loaded of them.                       *)

\* Every record comes exactly once.
LEMMA OrderIs ==
    ASSUME F!SnapshotFileAssumption, NEW d \in Db, NEW s \in F!Orders(d)
    PROVE  /\ Listing(d, s) /\ Len(s) \in Nat
           /\ \A i, j \in 1 .. Len(s) : i # j => s[i] # s[j]
           /\ \A ek \in F!Stored(d) : \E i \in 1 .. Len(s) : s[i] = ek
<1>1. PICK T : T = F!Stored(d)
    OBVIOUS
<1>2. IsFiniteSet(T)
    <2>1. IsFiniteSet(Key)
        BY DEF F!SnapshotFileAssumption, F!IsFiniteSet, IsFiniteSet
    <2>2. IsFiniteSet(F!Engine)
        <3>1. Engines \in Int
            BY DEF F!SnapshotFileAssumption
        <3> QED
            BY <3>1, FS_Interval DEF F!Engine
    <2>3. IsFiniteSet(F!Engine \X Key)
        BY <2>1, <2>2, FS_Product
    <2>4. T \in SUBSET (F!Engine \X Key)
        BY <1>1 DEF F!Stored
    <2> QED
        BY <2>3, <2>4, FS_Subset
<1>3. PICK n \in Nat : n = Cardinality(T)
    BY <1>2, FS_CardinalityType
<1>4. F!Cardinality(T) = n
    BY <1>3 DEF F!Cardinality, Cardinality
<1>5. s \in [1 .. n -> T] /\ \A i, j \in 1 .. n : i # j => s[i] # s[j]
    BY <1>1, <1>4 DEF F!Orders, F!SetToSeqs
<1>6. s \in Seq(T) /\ Len(s) = n
    BY <1>5
<1>7. s \in Injection(1 .. n, T)
    BY <1>5 DEF Injection, IsInjective
<1>8. Cardinality(1 .. n) = n
    <2>1. 1 \in Int /\ n \in Int
        OBVIOUS
    <2> QED
        BY <2>1, FS_Interval
<1>9. s \in Surjection(1 .. n, T)
    BY <1>2, <1>3, <1>7, <1>8, FS_Injection
<1>10. \A ek \in T : \E i \in 1 .. n : s[i] = ek
    BY <1>9 DEF Surjection
<1> QED
    BY <1>1, <1>5, <1>6, <1>10 DEF Listing

\* The engines behind the first n records.
Loaded(d, s, n) ==
    [e \in F!Engine |-> [k \in Key |->
        IF \E i \in 1 .. n : s[i] = <<e, k>> THEN d[e][k] ELSE Absent]]

\* Nothing is loaded at first,
LEMMA LoadedNothing ==
    ASSUME NEW d, NEW s PROVE Loaded(d, s, 0) = F!Empty
BY DEF Loaded, F!Empty

\* at any time a part,
LEMMA LoadedTyped ==
    ASSUME NEW d \in Db, NEW s, NEW n PROVE Loaded(d, s, n) \in Db
<1>1. \A e \in F!Engine, k \in Key : d[e][k] \in Value \cup {Absent}
    BY DEF Db
<1> QED
    BY <1>1 DEF Loaded, Db

\* and everything behind the last record.
LEMMA LoadedAll ==
    ASSUME F!SnapshotFileAssumption, NEW d \in Db, NEW s \in F!Orders(d)
    PROVE  Loaded(d, s, Len(s)) = d
<1>1. ASSUME NEW e \in F!Engine, NEW k \in Key
      PROVE  (IF \E i \in 1 .. Len(s) : s[i] = <<e, k>> THEN d[e][k] ELSE Absent) = d[e][k]
    <2>1. CASE d[e][k] = Absent
        BY <2>1
    <2>2. CASE d[e][k] # Absent
        <3>1. <<e, k>> \in F!Stored(d)
            BY <2>2 DEF F!Stored
        <3>2. \E i \in 1 .. Len(s) : s[i] = <<e, k>>
            BY <3>1, OrderIs
        <3> QED
            BY <3>2
    <2> QED
        BY <2>1, <2>2
<1>2. \A e \in F!Engine : d[e] = [k \in Key |-> d[e][k]]
    BY DEF Db
<1>3. d = [e \in F!Engine |-> d[e]]
    BY DEF Db
<1>4. ASSUME NEW e \in F!Engine
      PROVE  [k \in Key |-> IF \E i \in 1 .. Len(s) : s[i] = <<e, k>> THEN d[e][k] ELSE Absent]
                = d[e]
    BY <1>1, <1>2
<1> QED
    BY <1>3, <1>4 DEF Loaded

\* Inserting r, which is not there yet, makes M of L; the cursor is x behind it.
Inserts(L, M, r, x) ==
    /\ r.ok = TRUE /\ r.next = x
    /\ r.key \in Key /\ r.engine \in F!Engine
    /\ L[r.engine][r.key] = Absent
    /\ F!Inserted(L, r) = M

\* The next record is new, and the contents grow by it.
LEMMA LoadedNext ==
    ASSUME F!SnapshotFileAssumption, NEW d \in Db, NEW s \in F!Orders(d),
           NEW n \in 0 .. Len(s) - 1, NEW x, NEW r, r = Read(d, s[n + 1], x)
    PROVE  Inserts(Loaded(d, s, n), Loaded(d, s, n + 1), r, x)
<1>1. /\ Listing(d, s) /\ Len(s) \in Nat
      /\ \A i, j \in 1 .. Len(s) : i # j => s[i] # s[j]
    BY OrderIs
<1>2. n + 1 \in 1 .. Len(s) /\ n \in Nat /\ n \in 0 .. Len(s)
    BY <1>1
<1>3. PICK ek \in F!Stored(d) : ek = s[n + 1]
    BY <1>1, <1>2, ElementOfSeq DEF Listing
<1>4. PICK e \in F!Engine, k \in Key : ek = <<e, k>> /\ e = ek[1] /\ k = ek[2]
    BY <1>3, StoredIs
<1>6. r.ok = TRUE /\ r.next = x /\ r.key = k /\ r.engine = e /\ r.val = d[e][k]
    BY <1>3, <1>4 DEF Read, KeyOf, ValOf
<1>7. PICK L : L = Loaded(d, s, n)
    OBVIOUS
<1>8. \A a \in F!Engine, b \in Key :
          L[a][b] = IF \E i \in 1 .. n : s[i] = <<a, b>> THEN d[a][b] ELSE Absent
    BY <1>7 DEF Loaded
<1>9. ~ \E i \in 1 .. n : s[i] = <<e, k>>
    <2> SUFFICES ASSUME NEW i \in 1 .. n PROVE s[i] # s[n + 1]
        BY <1>3, <1>4
    <2>1. i \in 1 .. Len(s) /\ i # n + 1
        BY <1>1, <1>2
    <2> QED
        BY <2>1, <1>1, <1>2
<1>10. L[e][k] = Absent
    BY <1>8, <1>9
<1>11. L \in Db
    BY <1>7, LoadedTyped
<1>12. PICK M : M = F!Inserted(L, r)
    OBVIOUS
<1>13. M = [L EXCEPT ![e] = [L[e] EXCEPT ![k] = d[e][k]]]
    BY <1>6, <1>12 DEF F!Inserted
<1>14. \A a \in F!Engine : L[a] \in [Key -> Value \cup {Absent}]
    BY <1>11 DEF Db
<1>15. ASSUME NEW a \in F!Engine, NEW b \in Key
       PROVE  M[a][b] = IF \E i \in 1 .. n + 1 : s[i] = <<a, b>> THEN d[a][b] ELSE Absent
    <2>1. CASE a = e /\ b = k
        <3>1. M[a][b] = d[e][k]
            BY <1>11, <1>13, <1>14, <2>1 DEF Db
        <3>2. n + 1 \in 1 .. n + 1 /\ s[n + 1] = <<a, b>>
            BY <1>2, <1>3, <1>4, <2>1
        <3> QED
            BY <2>1, <3>1, <3>2
    <2>2. CASE ~(a = e /\ b = k)
        <3>1. M[a][b] = L[a][b]
            BY <1>11, <1>13, <1>14, <2>2 DEF Db
        <3>2. <<a, b>> # <<e, k>>
            BY <2>2
        <3>3. s[n + 1] # <<a, b>>
            BY <3>2, <1>3, <1>4
        <3>4. (\E i \in 1 .. n + 1 : s[i] = <<a, b>>) <=> (\E i \in 1 .. n : s[i] = <<a, b>>)
            BY <1>2, <3>3
        <3> QED
            BY <1>8, <3>1, <3>4
    <2> QED
        BY <2>1, <2>2
<1>16. M \in [F!Engine -> [Key -> Value \cup {Absent}]]
    <2>1. d[e][k] \in Value \cup {Absent}
        BY DEF Db
    <2> QED
        BY <1>11, <1>13, <1>14, <2>1 DEF Db
<1>17. M = Loaded(d, s, n + 1)
    <2>1. PICK P : P = Loaded(d, s, n + 1)
        OBVIOUS
    <2>2. P \in [F!Engine -> [Key -> Value \cup {Absent}]]
        BY <2>1, LoadedTyped DEF Db
    <2>3. \A a \in F!Engine, b \in Key :
              P[a][b] = IF \E i \in 1 .. n + 1 : s[i] = <<a, b>> THEN d[a][b] ELSE Absent
        BY <2>1 DEF Loaded
    <2>4. \A a \in F!Engine, b \in Key : M[a][b] = P[a][b]
        BY <1>15, <2>3
    <2>5. \A a \in F!Engine : M[a] = P[a]
        BY <1>16, <2>2, <2>4
    <2>6. M = P
        BY <1>16, <2>2, <2>5
    <2> QED
        BY <2>1, <2>6
<1> QED
    BY <1>6, <1>7, <1>10, <1>12, <1>17 DEF Inserts

-----------------------------------------------------------------------------
(* A whole file.                                                            *)

\* Wherever the cells h begin a file, they are read as a header.
Heads(h, n, pt) ==
    /\ h \in Cells /\ Len(h) >= 3
    /\ \A f \in Cells : Holds(f, 0, h) =>
           F!ParseHeader(f) = [ok |-> TRUE, count |-> n, point |-> pt, next |-> Len(h)]

\* A header of the new version is read as what it was written from,
LEMMA NewHeads ==
    ASSUME F!SnapshotFileAssumption, NEW ck \in Checkpoint \cup {NoOffset}, NEW n \in Nat
    PROVE  Heads(F!Header(n, ck), n, ck)
<1>1. PICK a \in 0 .. 1, b \in Nat :
          /\ F!Header(n, ck) = <<91, 2, a, n, b>>
          /\ a = 0 => b = 0 /\ ck = NoOffset
          /\ a = 1 => b = ck
    <2>1. CASE ck = NoOffset
        <3>1. F!Header(n, ck) = <<91, 2, 0, n, 0>>
            BY <2>1 DEF F!Header, F!Magic
        <3>2. 0 \in 0 .. 1 /\ 0 \in Nat /\ 0 # 1
            OBVIOUS
        <3> QED
            BY <2>1, <3>1, <3>2
    <2>2. CASE ck # NoOffset
        <3>1. F!Header(n, ck) = <<91, 2, 1, n, ck>>
            BY <2>2 DEF F!Header, F!Magic
        <3>2. ck \in Nat /\ 1 \in 0 .. 1
            BY <2>2 DEF F!SnapshotFileAssumption
        <3> QED
            BY <2>2, <3>1, <3>2
    <2> QED
        BY <2>1, <2>2
<1>2. PICK h : h = <<91, 2, a, n, b>>
    OBVIOUS
<1>3. /\ h \in Cells /\ Len(h) = 5
      /\ h[1] = 91 /\ h[2] = 2 /\ h[3] = a /\ h[4] = n /\ h[5] = b
    BY <1>2 DEF Cells
<1>4. ASSUME NEW f \in Cells, Holds(f, 0, h)
      PROVE  F!ParseHeader(f) = [ok |-> TRUE, count |-> n, point |-> ck, next |-> Len(h)]
    <2>1. Len(f) >= 5 /\ Len(f) \in Nat
        <3>1. 0 + Len(h) <= Len(f) /\ Len(f) \in Nat
            BY <1>4, CellsAre DEF Holds
        <3> QED
            BY <3>1, <1>3
    <2>2. f[1] = 91 /\ f[2] = 2 /\ f[3] = a /\ f[4] = n /\ f[5] = b
        <3>1. \A i \in 1 .. 5 : f[0 + i] = h[i]
            BY <1>3, <1>4 DEF Holds
        <3>2. f[0 + 1] = h[1] /\ f[0 + 2] = h[2] /\ f[0 + 3] = h[3] /\ f[0 + 4] = h[4]
              /\ f[0 + 5] = h[5]
            BY <3>1
        <3> QED
            BY <3>2, <1>3
    <2>3. ~(Len(f) < 2 \/ f[1] # F!Magic) /\ ~(f[2] = 1 /\ Len(f) >= 3)
        BY <2>1, <2>2 DEF F!Magic
    <2>4. f[2] = 2 /\ Len(f) >= 5 /\ f[3] \in {0, 1} /\ (f[3] = 0 => f[5] = 0)
        BY <1>1, <2>1, <2>2
    <2>5. (IF f[3] = 1 THEN f[5] ELSE NoOffset) = ck
        BY <1>1, <2>2
    <2>6. F!ParseHeader(f) = [ok |-> TRUE, count |-> f[4],
                              point |-> IF f[3] = 1 THEN f[5] ELSE NoOffset, next |-> 5]
        BY <2>3, <2>4 DEF F!ParseHeader
    <2> QED
        BY <1>3, <2>2, <2>5, <2>6
<1> QED
    BY <1>1, <1>2, <1>3, <1>4 DEF Heads

\* and one of the old version.
LEMMA OldHeads ==
    ASSUME F!SnapshotFileAssumption, NEW n \in Nat
    PROVE  Heads(<<F!Magic, 1, n>>, n, NoOffset)
<1>1. PICK h : h = <<F!Magic, 1, n>>
    OBVIOUS
<1>2. h \in Cells /\ Len(h) = 3 /\ h[1] = 91 /\ h[2] = 1 /\ h[3] = n
    BY <1>1 DEF Cells, F!Magic
<1>3. ASSUME NEW f \in Cells, Holds(f, 0, h)
      PROVE  F!ParseHeader(f) = [ok |-> TRUE, count |-> n, point |-> NoOffset, next |-> Len(h)]
    <2>1. Len(f) >= 3 /\ Len(f) \in Nat
        <3>1. 0 + Len(h) <= Len(f) /\ Len(f) \in Nat
            BY <1>3, CellsAre DEF Holds
        <3> QED
            BY <3>1, <1>2
    <2>2. f[1] = 91 /\ f[2] = 1 /\ f[3] = n
        <3>1. \A i \in 1 .. 3 : f[0 + i] = h[i]
            BY <1>2, <1>3 DEF Holds
        <3>2. f[0 + 1] = h[1] /\ f[0 + 2] = h[2] /\ f[0 + 3] = h[3]
            BY <3>1
        <3> QED
            BY <3>2, <1>2
    <2>3. ~(Len(f) < 2 \/ f[1] # F!Magic) /\ f[2] = 1 /\ Len(f) >= 3
        BY <2>1, <2>2 DEF F!Magic
    <2>4. F!ParseHeader(f) = [ok |-> TRUE, count |-> f[3], point |-> NoOffset, next |-> 3]
        BY <2>3 DEF F!ParseHeader
    <2> QED
        BY <1>2, <2>2, <2>4
<1> QED
    BY <1>1, <1>2, <1>3 DEF Heads

\* The checksum cell is the last one, and stands for all the others.
SumOf(c) == [at |-> Len(c), of |-> SubSeq(c, 1, Len(c) - 1)]

Bytes(h, d, s) == Cat(Cat(h, Run(d, s, Len(s))), <<SumCell>>)

\* A file that was written from sv, as header h and the records in the order s.
WholeAs(fl, sv, s, h) ==
    /\ sv.db \in Db /\ sv.point \in Checkpoint \cup {NoOffset}
    /\ s \in F!Orders(sv.db) /\ Heads(h, Len(s), sv.point)
    /\ fl = [cells |-> Bytes(h, sv.db, s), sum |-> SumOf(Bytes(h, sv.db, s))]

Whole(fl, sv) == \E s, h : WholeAs(fl, sv, s, h)

\* Where its parts are.
LEMMA BytesAre ==
    ASSUME F!SnapshotFileAssumption, NEW d \in Db, NEW s, Listing(d, s), NEW h \in Cells
    PROVE  /\ Bytes(h, d, s) \in Cells
           /\ Holds(Bytes(h, d, s), 0, h)
           /\ Holds(Bytes(h, d, s), Len(h), Run(d, s, Len(s)))
           /\ Len(Bytes(h, d, s)) = End(Len(h), d, s, Len(s)) + 1
           /\ Len(h) \in Nat /\ Len(s) \in Nat /\ Len(Run(d, s, Len(s))) \in Nat
<1>1. Len(s) \in Nat /\ Len(s) \in 0 .. Len(s)
    BY LenProperties DEF Listing
<1>2. PICK r \in Cells : r = Run(d, s, Len(s))
    BY <1>1, RunIs
<1>3. PICK a \in Cells : a = Cat(h, r) /\ Len(a) = Len(h) + Len(r)
    BY CatIs
<1>4. PICK c : c = <<SumCell>>
    OBVIOUS
<1>5. c \in Cells /\ Len(c) = 1
    BY <1>4 DEF Cells, F!SnapshotFileAssumption
<1>6. PICK f \in Cells : f = Cat(a, c) /\ Len(f) = Len(a) + Len(c)
    BY <1>5, CatIs
<1>7. f = Bytes(h, d, s)
    BY <1>2, <1>3, <1>4, <1>6 DEF Bytes
<1>8. Holds(f, 0, Cat(a, c))
    BY <1>6, HoldsSelf
<1>9. Holds(f, 0, Cat(h, r))
    BY <1>3, <1>5, <1>8, HoldsParts
<1>10. Holds(f, 0, h) /\ Holds(f, 0 + Len(h), r)
    BY <1>9, HoldsParts
<1>11. Len(h) \in Nat /\ Len(r) \in Nat /\ Len(a) \in Nat
    BY CellsAre
<1>12. 0 + Len(h) = Len(h)
    BY <1>11
<1>13. Len(f) = End(Len(h), d, s, Len(s)) + 1
    BY <1>2, <1>3, <1>5, <1>6 DEF End
<1> QED
    BY <1>1, <1>2, <1>7, <1>10, <1>11, <1>12, <1>13

\* What every such file is like: the passes over it come to its end.
LEMMA WholeIs ==
    ASSUME F!SnapshotFileAssumption, NEW fl, NEW sv, NEW s, NEW h, WholeAs(fl, sv, s, h)
    PROVE  /\ fl.cells \in Cells /\ fl.sum = SumOf(fl.cells) /\ Len(fl.cells) >= 4
           /\ sv.db \in Db /\ Listing(sv.db, s) /\ Len(s) \in Nat /\ Len(h) \in Nat
           /\ F!ParseHeader(fl.cells) =
                  [ok |-> TRUE, count |-> Len(s), point |-> sv.point, next |-> Len(h)]
           /\ Holds(fl.cells, Len(h), Run(sv.db, s, Len(s)))
           /\ Len(fl.cells) = End(Len(h), sv.db, s, Len(s)) + 1
           /\ F!Validate(fl) /\ fl # F!NoFile
<1>1. PICK d : d = sv.db
    OBVIOUS
<1>2. /\ d \in Db /\ s \in F!Orders(d) /\ Heads(h, Len(s), sv.point)
      /\ fl = [cells |-> Bytes(h, d, s), sum |-> SumOf(Bytes(h, d, s))]
    BY <1>1 DEF WholeAs
<1>3. Listing(d, s) /\ Len(s) \in Nat
    BY <1>2, OrderIs
<1>4. h \in Cells /\ Len(h) >= 3
    BY <1>2 DEF Heads
<1>5. PICK f : f = fl.cells
    OBVIOUS
<1>6. f = Bytes(h, d, s) /\ fl.sum = SumOf(f)
    BY <1>2, <1>5
<1>7. /\ f \in Cells /\ Holds(f, 0, h) /\ Holds(f, Len(h), Run(d, s, Len(s)))
      /\ Len(f) = End(Len(h), d, s, Len(s)) + 1
      /\ Len(h) \in Nat /\ Len(Run(d, s, Len(s))) \in Nat
    BY <1>2, <1>3, <1>4, <1>6, BytesAre
<1>8. F!ParseHeader(f) =
          [ok |-> TRUE, count |-> Len(s), point |-> sv.point, next |-> Len(h)]
    BY <1>2, <1>7 DEF Heads
<1>9. PICK L \in Nat : L = Len(Run(d, s, Len(s))) /\ L >= 3 * Len(s)
    BY <1>2, <1>3, RunLength
<1>10. Len(f) = Len(h) + L + 1
    BY <1>7, <1>9 DEF End
<1>11. Len(f) >= 4
    BY <1>4, <1>7, <1>9, <1>10
<1>12. F!Skip(f, Len(h), Len(s)) = End(Len(h), d, s, Len(s))
    <2>1. Run(d, s, 0) = <<>>
        BY <1>2, <1>3, RunIs
    <2>2. End(Len(h), d, s, 0) = Len(h)
        BY <2>1, <1>7 DEF End
    <2>3. 0 \in Nat /\ 0 + Len(s) <= Len(s) /\ 0 + Len(s) = Len(s)
        BY <1>3
    <2>4. F!Skip(f, End(Len(h), d, s, 0), Len(s)) = End(Len(h), d, s, 0 + Len(s))
        BY <1>2, <1>3, <1>7, <2>3, SkipIs
    <2> QED
        BY <2>2, <2>3, <2>4
<1>13. PICK e \in Nat : e = End(Len(h), d, s, Len(s))
    BY <1>7 DEF End
<1>14. F!Sealed(fl, e)
    <2>1. e + 1 = Len(f) /\ Len(f) - 1 = e
        BY <1>7, <1>13
    <2>2. fl.sum = [at |-> e + 1, of |-> SubSeq(fl.cells, 1, e)]
        BY <2>1, <1>5, <1>6 DEF SumOf
    <2> QED
        BY <2>1, <2>2, <1>5 DEF F!Sealed
<1>15. F!Validate(fl)
    <2>1. PICK p : p = F!ParseHeader(f)
        OBVIOUS
    <2>2. p.ok = TRUE /\ p.count = Len(s) /\ p.next = Len(h)
        BY <2>1, <1>8
    <2>3. Len(f) - p.next >= 1 /\ p.count <= (Len(f) - p.next - 1) \div 3
        <3>1. Len(f) - p.next - 1 = L
            BY <2>2, <1>7, <1>10
        <3>2. Len(s) <= L \div 3
            BY <1>3, <1>9
        <3> QED
            BY <2>2, <3>1, <3>2, <1>7, <1>10
    <2>4. F!Skip(f, p.next, p.count) = e
        BY <2>2, <1>12, <1>13
    <2>5. PICK q : q = F!Skip(f, p.next, p.count)
        OBVIOUS
    <2>6. q >= 0 /\ F!Sealed(fl, q)
        BY <1>13, <1>14, <2>4, <2>5
    <2>7. p.ok
        BY <2>2
    <2> QED
        BY <1>5, <1>11, <2>1, <2>3, <2>5, <2>6, <2>7 DEF F!Validate
<1>16. fl # F!NoFile
    <2> SUFFICES ASSUME fl = F!NoFile PROVE FALSE
        OBVIOUS
    <2>1. f = <<>>
        BY <1>5 DEF F!NoFile
    <2> QED
        BY <2>1, <1>11
<1> QED
    BY <1>1, <1>2, <1>3, <1>5, <1>6, <1>7, <1>8, <1>11, <1>15, <1>16

-----------------------------------------------------------------------------
(* A damaged file.                                                          *)

Spoiled(fl) == fl # F!NoFile /\ fl.cells \in Cells /\ fl.sum # SumOf(fl.cells)

\* The first pass refuses it.
LEMMA SpoiledRefused ==
    ASSUME F!SnapshotFileAssumption, NEW fl, Spoiled(fl) PROVE ~F!Validate(fl)
<1> SUFFICES ASSUME F!Validate(fl) PROVE FALSE
    OBVIOUS
<1>1. PICK f \in Cells : f = fl.cells /\ fl.sum # SumOf(f)
    BY DEF Spoiled
<1>2. PICK p : p = F!ParseHeader(f)
    OBVIOUS
<1>3. PICK e : e = F!Skip(f, p.next, p.count)
    OBVIOUS
<1>4. p.ok /\ F!Sealed(fl, e)
    BY <1>1, <1>2, <1>3 DEF F!Validate
<1>5. Len(f) \in Nat /\ \A i \in 1 .. Len(f) : f[i] \in Nat
    BY CellsAre
<1>6. p.next \in Nat /\ p.count \in Nat
    <2>1. ~(Len(f) < 2 \/ f[1] # F!Magic)
        <3>1. ~F!Bad.ok
            BY DEF F!Bad
        <3> QED
            BY <3>1, <1>2, <1>4 DEF F!ParseHeader
    <2>2. CASE f[2] = 1 /\ Len(f) >= 3
        <3>1. p = [ok |-> TRUE, count |-> f[3], point |-> NoOffset, next |-> 3]
            BY <1>2, <2>1, <2>2 DEF F!ParseHeader
        <3>2. f[3] \in Nat
            BY <1>5, <2>2
        <3> QED
            BY <3>1, <3>2
    <2>3. CASE ~(f[2] = 1 /\ Len(f) >= 3)
        <3>1. f[2] = 2 /\ Len(f) >= 5 /\ f[3] \in {0, 1} /\ (f[3] = 0 => f[5] = 0)
            <4>1. ~F!Bad.ok
                BY DEF F!Bad
            <4> QED
                BY <4>1, <1>2, <1>4, <2>1, <2>3 DEF F!ParseHeader
        <3>2. p = [ok |-> TRUE, count |-> f[4],
                   point |-> IF f[3] = 1 THEN f[5] ELSE NoOffset, next |-> 5]
            BY <1>2, <2>1, <2>3, <3>1 DEF F!ParseHeader
        <3>3. f[4] \in Nat
            BY <1>5, <3>1
        <3> QED
            BY <3>2, <3>3
    <2> QED
        BY <2>2, <2>3
<1>7. e \in Int
    BY <1>3, <1>6, SkipTyped
<1>8. /\ e + 1 = Len(f)
      /\ fl.sum = [at |-> e + 1, of |-> SubSeq(f, 1, e)]
    BY <1>1, <1>4 DEF F!Sealed
<1>9. e = Len(f) - 1
    BY <1>5, <1>7, <1>8
<1>10. fl.sum = SumOf(f)
    BY <1>5, <1>8, <1>9 DEF SumOf
<1> QED
    BY <1>1, <1>10

\* A file that was whole is spoiled by losing its end,
LEMMA CutSpoils ==
    ASSUME NEW fl, fl.cells \in Cells, fl.sum = SumOf(fl.cells), Len(fl.cells) >= 4,
           NEW n \in 0 .. Len(fl.cells) - 1,
           NEW gl, gl = [cells |-> SubSeq(fl.cells, 1, n), sum |-> fl.sum]
    PROVE  Spoiled(gl)
<1>1. PICK f \in Cells : f = fl.cells
    OBVIOUS
<1>2. Len(f) \in Nat /\ n \in 0 .. Len(f)
    BY <1>1, CellsAre
<1>3. PICK g : g = SubSeq(f, 1, n)
    OBVIOUS
<1>4. g \in Cells /\ Len(g) = n
    BY <1>2, <1>3, PieceSplit
<1>5. gl.cells = g /\ gl.sum = SumOf(f)
    BY <1>1, <1>3
<1>6. SumOf(f).at # SumOf(g).at /\ SumOf(f).at # 0
    BY <1>1, <1>2, <1>4 DEF SumOf
<1>7. gl # F!NoFile
    BY <1>5, <1>6 DEF F!NoFile
<1> QED
    BY <1>4, <1>5, <1>6, <1>7 DEF Spoiled

\* by getting one,
LEMMA MoreSpoils ==
    ASSUME NEW fl, fl.cells \in Cells, fl.sum = SumOf(fl.cells), Len(fl.cells) >= 4,
           NEW b \in Nat, NEW gl, gl = [cells |-> Append(fl.cells, b), sum |-> fl.sum]
    PROVE  Spoiled(gl)
<1>1. PICK f \in Cells : f = fl.cells
    OBVIOUS
<1>2. Len(f) \in Nat
    BY CellsAre
<1>3. PICK g : g = Append(f, b)
    OBVIOUS
<1>4. g \in Cells /\ Len(g) = Len(f) + 1
    BY <1>3, AppendProperties DEF Cells
<1>5. gl.cells = g /\ gl.sum = SumOf(f)
    BY <1>1, <1>3
<1>6. SumOf(f).at # SumOf(g).at /\ SumOf(f).at # 0
    BY <1>1, <1>2, <1>4 DEF SumOf
<1>7. gl # F!NoFile
    BY <1>5, <1>6 DEF F!NoFile
<1> QED
    BY <1>4, <1>5, <1>6, <1>7 DEF Spoiled

\* and by a cell that changes.
LEMMA ChangeSpoils ==
    ASSUME NEW fl, fl.cells \in Cells, fl.sum = SumOf(fl.cells), Len(fl.cells) >= 4,
           NEW i \in DOMAIN fl.cells, NEW b \in Nat, b # fl.cells[i], NEW gl,
           gl = [cells |-> [fl.cells EXCEPT ![i] = b],
                 sum |-> IF i = fl.sum.at THEN F!NoFile.sum ELSE fl.sum]
    PROVE  Spoiled(gl)
<1>1. PICK f \in Cells : f = fl.cells
    OBVIOUS
<1>2. /\ Len(f) \in Nat /\ i \in 1 .. Len(f)
      /\ \A j \in 1 .. Len(f) : f[j] \in Nat
    BY <1>1, CellsAre
<1>3. PICK g : g = [f EXCEPT ![i] = b]
    OBVIOUS
<1>4. g \in Cells /\ Len(g) = Len(f) /\ g[i] = b
    <2>1. /\ [f EXCEPT ![i] = b] \in Seq(Nat) /\ Len([f EXCEPT ![i] = b]) = Len(f)
          /\ \A j \in 1 .. Len(f) : [f EXCEPT ![i] = b][j] = IF j = i THEN b ELSE f[j]
        BY <1>2, ExceptSeq DEF Cells
    <2> QED
        BY <2>1, <1>2, <1>3 DEF Cells
<1>5. gl.cells = g
    BY <1>1, <1>3
<1>6. SumOf(f).at = Len(f) /\ SumOf(g).at = Len(f)
    BY <1>4 DEF SumOf
<1>7. CASE i = Len(f)
    <2>1. gl.sum = F!NoFile.sum
        BY <1>1, <1>6, <1>7
    <2>2. gl.sum.at = 0
        BY <2>1 DEF F!NoFile
    <2>3. g # <<>>
        BY <1>1, <1>4
    <2>4. gl # F!NoFile
        BY <2>3, <1>5 DEF F!NoFile
    <2>5. SumOf(g).at # 0
        BY <1>1, <1>6
    <2>6. gl.sum # SumOf(g)
        BY <2>2, <2>5
    <2> QED
        BY <1>4, <1>5, <2>4, <2>6 DEF Spoiled
<1>8. CASE i # Len(f)
    <2>1. gl.sum = SumOf(f)
        BY <1>1, <1>6, <1>8
    <2>2. Len(f) - 1 \in 0 .. Len(f) /\ i \in 1 .. Len(f) - 1
        BY <1>2, <1>8
    <2>3. SumOf(f).of[i] = f[i] /\ SumOf(g).of[i] = g[i]
        <3>1. SubSeq(f, 1, Len(f) - 1)[i] = f[i]
            BY <2>2, FrontIs DEF Front, Cells
        <3>2. SubSeq(g, 1, Len(f) - 1)[i] = g[i]
            BY <2>2, <1>4, FrontIs DEF Front, Cells
        <3> QED
            BY <3>1, <3>2, <1>4 DEF SumOf
    <2>4. SumOf(f) # SumOf(g)
        BY <1>1, <1>4, <2>3
    <2>5. gl # F!NoFile
        <3>1. g # <<>>
            BY <1>1, <1>4
        <3> QED
            BY <3>1, <1>5 DEF F!NoFile
    <2> QED
        BY <1>4, <1>5, <2>1, <2>4, <2>5 DEF Spoiled
<1> QED
    BY <1>7, <1>8

-----------------------------------------------------------------------------
(* The invariant.                                                           *)

\* The contents of a snapshot, as pieces and as cells.
LEMMA ContentsAre ==
    ASSUME F!SnapshotFileAssumption, NEW d \in Db, NEW s \in F!Orders(d),
           NEW ck \in Checkpoint \cup {NoOffset}
    PROVE  /\ F!Contents(d, ck, s) \in Lists
           /\ Flat(F!Contents(d, ck, s)) = Cat(F!Header(Len(s), ck), Run(d, s, Len(s)))
           /\ Flat(Tail(F!Contents(d, ck, s))) = Run(d, s, Len(s))
<1>1. Listing(d, s) /\ Len(s) \in Nat /\ Len(s) \in 0 .. Len(s)
    BY OrderIs
<1>2. DOMAIN s = 1 .. Len(s)
    BY <1>1, LenProperties DEF Listing
<1>3. PICK h \in Cells : h = F!Header(Len(s), ck)
    BY <1>1, NewHeads DEF Heads
<1>4. PICK p \in Lists : p = F!FlattenSeq(PiecesOf(d, s, Len(s)))
    BY <1>1, RunIs
<1>5. PICK q : q = <<h>>
    OBVIOUS
<1>6. q \in Lists /\ q # <<>>
    BY <1>5 DEF Lists
<1>7. F!Contents(d, ck, s) = q \o p
    <2>1. [i \in DOMAIN s |-> F!RecordPieces(d, s[i])] = PiecesOf(d, s, Len(s))
        BY <1>2 DEF PiecesOf
    <2> QED
        BY <2>1, <1>3, <1>4, <1>5 DEF F!Contents
<1>8. q \o p \in Lists
    BY <1>6, ConcatProperties DEF Lists
<1>9. Flat(q \o p) = Cat(h, Flat(p))
    BY <1>5, <1>6, FlatOf
<1>10. Flat(p) = Run(d, s, Len(s))
    BY <1>4 DEF Run, PiecesOf
<1>11. Tail(q \o p) = p
    <2>1. Len(q) = 1 /\ Len(p) \in Nat
        BY <1>5, LenProperties DEF Lists
    <2>2. PICK w : w = q \o p
        OBVIOUS
    <2>3. /\ w \in Seq(Cells) /\ Len(w) = Len(q) + Len(p)
          /\ \A i \in 1 .. Len(q) + Len(p) : w[i] = IF i <= Len(q) THEN q[i] ELSE p[i - Len(q)]
        BY <2>2, <1>6, ConcatProperties DEF Lists
    <2>4. w # <<>>
        BY <2>1, <2>3
    <2>5. /\ Tail(w) \in Seq(Cells) /\ Len(Tail(w)) = Len(w) - 1
          /\ \A i \in 1 .. Len(Tail(w)) : Tail(w)[i] = w[i + 1]
        BY <2>3, <2>4, HeadTailProperties
    <2>6. Len(Tail(w)) = Len(p)
        BY <2>1, <2>3, <2>5
    <2>7. ASSUME NEW i \in 1 .. Len(Tail(w)) PROVE Tail(w)[i] = p[i]
        <3>1. i + 1 \in 1 .. Len(q) + Len(p) /\ ~(i + 1 <= Len(q)) /\ (i + 1) - Len(q) = i
            BY <2>1, <2>6
        <3> QED
            BY <3>1, <2>3, <2>5
    <2>8. Tail(w) = p
        BY <2>5, <2>6, <2>7, SeqEqual DEF Lists
    <2> QED
        BY <2>2, <2>8
<1> QED
    BY <1>3, <1>7, <1>8, <1>9, <1>10, <1>11

Running == {"running", "saving", "starting", "loading", "failed", "ended"}

\* The types, with those of the writer.
SnapTypes ==
    /\ phase \in Running
    /\ db \in Db /\ point \in Checkpoint \cup {NoOffset}
    /\ pieces \in Lists /\ buffer \in Cells /\ tmp \in Cells /\ Len(buffer) <= BufferSize
    /\ left \in Nat /\ cursor \in 0 .. Len(image.cells) /\ image.cells \in Cells
    /\ damaged \in BOOLEAN

\* Outside a load nothing of the file is taken, and a start finds empty engines.
SnapIdle ==
    /\ phase \in {"running", "saving", "starting"} => cursor = 0
    /\ phase = "starting" => db = F!Empty

\* A file is whole or spoiled, and a spoiled one is met at a start.
SnapImage ==
    /\ image # F!NoFile /\ ~damaged => Whole(image, saved)
    /\ damaged => Spoiled(image) /\ phase \in {"starting", "failed", "ended"} /\ db = F!Empty

\* What is written, in the buffer and to be appended is a whole file.
SnapSaving ==
    phase = "saving" =>
        \E s \in F!Orders(db) :
            Cat(Cat(tmp, buffer), Flat(pieces)) = Bytes(F!Header(Len(s), point), db, s)

\* The records in front of the cursor are loaded, and no others.
LoadingAs(s, h) ==
    /\ WholeAs(image, saved, s, h) /\ left <= Len(s)
    /\ cursor = End(Len(h), saved.db, s, Len(s) - left)
    /\ db = Loaded(saved.db, s, Len(s) - left)

SnapLoading == phase = "loading" => \E s, h : LoadingAs(s, h)

SnapInv == SnapTypes /\ SnapIdle /\ SnapImage /\ SnapSaving /\ SnapLoading

\* What the run states follows from it.
LEMMA SnapImplies ==
    ASSUME F!SnapshotFileAssumption, SnapInv
    PROVE  F!TypeOK /\ F!NothingDropped /\ F!LoadExact /\ F!DamageRefused /\ F!WholeAccepted
<1>1. F!TypeOK
    BY DEF SnapInv, SnapTypes, F!TypeOK, Running, Db
<1>2. F!NothingDropped
    <2> SUFFICES ASSUME phase = "saving"
                 PROVE  \E order \in F!Orders(db) :
                            tmp \o buffer \o F!FlattenSeq(pieces)
                                = F!FlattenSeq(F!Contents(db, point, order)) \o <<SumCell>>
        BY DEF F!NothingDropped
    <2>1. PICK s \in F!Orders(db) :
              Cat(Cat(tmp, buffer), Flat(pieces)) = Bytes(F!Header(Len(s), point), db, s)
        BY DEF SnapInv, SnapSaving
    <2>2. Flat(F!Contents(db, point, s)) = Cat(F!Header(Len(s), point), Run(db, s, Len(s)))
        BY ContentsAre DEF SnapInv, SnapTypes
    <2>3. Cat(Cat(tmp, buffer), Flat(pieces)) = Cat(Flat(F!Contents(db, point, s)), <<SumCell>>)
        BY <2>1, <2>2 DEF Bytes
    <2>4. tmp \o buffer \o F!FlattenSeq(pieces)
              = F!FlattenSeq(F!Contents(db, point, s)) \o <<SumCell>>
        BY <2>3 DEF Cat, Flat
    <2> QED
        BY <2>4
<1>3. F!LoadExact
    <2> SUFFICES ASSUME phase = "loading", left = 0
                 PROVE  db = saved.db /\ F!ParseHeader(image.cells).point = saved.point
        BY DEF F!LoadExact
    <2>1. PICK s, h : LoadingAs(s, h)
        BY DEF SnapInv, SnapLoading
    <2>2. WholeAs(image, saved, s, h)
        BY <2>1 DEF LoadingAs
    <2>3. saved.db \in Db /\ s \in F!Orders(saved.db) /\ Len(s) \in Nat
        BY <2>2, WholeIs DEF WholeAs
    <2>4. Len(s) - left = Len(s)
        BY <2>3
    <2>5. db = saved.db
        BY <2>1, <2>3, <2>4, LoadedAll DEF LoadingAs
    <2>6. F!ParseHeader(image.cells) =
              [ok |-> TRUE, count |-> Len(s), point |-> saved.point, next |-> Len(h)]
        BY <2>2, WholeIs
    <2> QED
        BY <2>5, <2>6
<1>4. F!DamageRefused
    BY DEF SnapInv, SnapImage, F!DamageRefused
<1>5. ASSUME phase = "starting", image # F!NoFile, ~damaged PROVE F!Validate(image)
    <2>1. PICK s, h : WholeAs(image, saved, s, h)
        BY <1>5 DEF SnapInv, SnapImage, Whole
    <2> QED
        BY <2>1, WholeIs
<1>6. ASSUME phase = "loading"
      PROVE  /\ left > 0 => F!ParseRecord(image.cells, cursor).ok
             /\ F!Skip(image.cells, cursor, left) + 1 = Len(image.cells)
    <2>1. PICK s, h : LoadingAs(s, h)
        BY <1>6 DEF SnapInv, SnapLoading
    <2>2. PICK d : d = saved.db
        OBVIOUS
    <2>3. WholeAs(image, saved, s, h)
        BY <2>1 DEF LoadingAs
    <2>4. PICK f \in Cells : f = image.cells
        BY <2>3, WholeIs
    <2>5. /\ d \in Db /\ Listing(d, s) /\ Len(s) \in Nat /\ Len(h) \in Nat
          /\ Holds(f, Len(h), Run(d, s, Len(s)))
          /\ Len(f) = End(Len(h), d, s, Len(s)) + 1
        BY <2>2, <2>3, <2>4, WholeIs
    <2>6. left \in Nat /\ left <= Len(s)
        BY <2>1 DEF LoadingAs, SnapInv, SnapTypes
    <2>7. PICK n : n = Len(s) - left
        OBVIOUS
    <2>8. n \in Nat /\ n + left <= Len(s) /\ n + left = Len(s)
        BY <2>5, <2>6, <2>7
    <2>9. cursor = End(Len(h), d, s, n)
        BY <2>1, <2>2, <2>7 DEF LoadingAs
    <2>10. ASSUME left > 0 PROVE F!ParseRecord(f, cursor).ok
        <3>1. n \in 0 .. Len(s) - 1
            BY <2>5, <2>6, <2>8, <2>10
        <3>2. F!ParseRecord(f, cursor) = Read(d, s[n + 1], End(Len(h), d, s, n + 1))
            BY <2>5, <2>9, <3>1, ParseNext
        <3>3. Read(d, s[n + 1], End(Len(h), d, s, n + 1)).ok
            BY DEF Read
        <3> QED
            BY <3>2, <3>3
    <2>11. F!Skip(f, cursor, left) = End(Len(h), d, s, Len(s))
        <3>1. F!Skip(f, End(Len(h), d, s, n), left) = End(Len(h), d, s, n + left)
            BY <2>5, <2>6, <2>8, SkipIs
        <3> QED
            BY <3>1, <2>8, <2>9
    <2> QED
        BY <2>4, <2>5, <2>10, <2>11
<1>7. F!WholeAccepted
    BY <1>5, <1>6 DEF F!WholeAccepted
<1> QED
    BY <1>1, <1>2, <1>3, <1>4, <1>7

-----------------------------------------------------------------------------
(* Every step keeps the invariant.                                          *)

\* It holds at first.
LEMMA SnapInit ==
    ASSUME F!SnapshotFileAssumption, F!Init PROVE SnapInv
<1>1. image.cells = <<>> /\ <<>> \in Cells /\ <<>> \in Lists
    BY DEF F!Init, F!NoFile, Cells, Lists
<1>2. Len(buffer) <= BufferSize
    <2>1. Len(buffer) = 0 /\ BufferSize \in Nat
        BY DEF F!Init, F!SnapshotFileAssumption
    <2> QED
        BY <2>1
<1>3. Len(image.cells) = 0
    BY <1>1
<1>4. /\ phase = "running" /\ pieces = <<>> /\ buffer = <<>> /\ tmp = <<>>
      /\ image = F!NoFile /\ cursor = 0 /\ left = 0 /\ damaged = FALSE
      /\ db \in Db /\ point \in Checkpoint \cup {NoOffset}
    BY DEF F!Init, Db
<1>5. SnapTypes
    <2>1. cursor \in 0 .. Len(image.cells)
        BY <1>3, <1>4
    <2>2. image.cells \in Cells /\ pieces \in Lists /\ buffer \in Cells /\ tmp \in Cells
        BY <1>1, <1>4
    <2> QED
        BY <1>2, <1>4, <2>1, <2>2 DEF SnapTypes, Running
<1> QED
    BY <1>4, <1>5 DEF SnapInv, SnapIdle, SnapImage, SnapSaving, SnapLoading

\* A file that is written whole.
LEMMA WholeMade ==
    ASSUME F!SnapshotFileAssumption, NEW d \in Db, NEW s \in F!Orders(d),
           NEW pt \in Checkpoint \cup {NoOffset}, NEW h, Heads(h, Len(s), pt),
           NEW fl, fl = [cells |-> Bytes(h, d, s), sum |-> SumOf(Bytes(h, d, s))]
    PROVE  /\ Whole(fl, [db |-> d, point |-> pt])
           /\ fl.cells \in Cells /\ Len(fl.cells) \in Nat
<1>1. PICK sv : sv = [db |-> d, point |-> pt]
    OBVIOUS
<1>2. sv.db = d /\ sv.point = pt
    BY <1>1
<1>3. WholeAs(fl, sv, s, h)
    BY <1>2 DEF WholeAs
<1>4. fl.cells \in Cells
    BY <1>3, WholeIs
<1> QED
    BY <1>1, <1>3, <1>4, CellsAre DEF Whole

\* The pieces of a SAVE are a whole file.
LEMMA SaveBeginKeeps ==
    ASSUME F!SnapshotFileAssumption, SnapInv, NEW s \in F!Orders(db), F!SaveBegin(s)
    PROVE  SnapInv'
<1> USE DEF F!SaveBegin, F!reader, SnapInv
<1>1. db \in Db /\ point \in Checkpoint \cup {NoOffset}
    BY DEF SnapTypes
<1>2. PICK c \in Lists : /\ c = F!Contents(db, point, s)
                         /\ Flat(c) = Cat(F!Header(Len(s), point), Run(db, s, Len(s)))
    BY <1>1, ContentsAre
<1>3. PICK one, end : one = <<SumCell>> /\ end = <<one>>
    OBVIOUS
<1>4. one \in Cells
    BY <1>3 DEF F!SnapshotFileAssumption, Cells
<1>5. end \in Lists /\ Flat(end) = one
    BY <1>3, <1>4, FlatOf DEF Lists
<1>6. pieces' = c \o end
    BY <1>2, <1>3
<1>7. pieces' \in Lists
    BY <1>5, <1>6, ConcatProperties DEF Lists
<1>8. Flat(pieces') = Cat(Flat(c), one)
    BY <1>5, <1>6, FlatOf
<1>9. Flat(pieces') = Bytes(F!Header(Len(s), point), db, s)
    BY <1>2, <1>3, <1>8 DEF Bytes
<1>10. Cat(Cat(tmp', buffer'), Flat(pieces')) = Flat(pieces')
    <2>1. Flat(pieces') \in Cells /\ <<>> \in Cells
        BY <1>7, FlatOf, CatEmpty
    <2>2. Cat(<<>>, <<>>) = <<>>
        BY <2>1, CatEmpty
    <2> QED
        BY <2>1, <2>2, CatEmpty
<1>11. SnapTypes'
    <2>1. Len(<<>>) = 0 /\ <<>> \in Cells /\ BufferSize \in Nat
        BY DEF Cells, F!SnapshotFileAssumption
    <2> QED
        BY <1>7, <2>1 DEF SnapTypes, Running
<1>12. SnapSaving'
    BY <1>9, <1>10 DEF SnapSaving
<1> QED
    BY <1>11, <1>12 DEF SnapIdle, SnapImage, SnapLoading

\* So is a file of the old version.
LEMMA OldVersionKeeps ==
    ASSUME F!SnapshotFileAssumption, SnapInv, NEW s \in F!Orders(db), F!OldVersion(s)
    PROVE  SnapInv'
<1> USE DEF F!OldVersion, F!reader, F!writer, SnapInv
<1>1. db \in Db /\ NoOffset \in Checkpoint \cup {NoOffset}
    BY DEF SnapTypes
<1>2. Listing(db, s) /\ Len(s) \in Nat
    BY <1>1, OrderIs
<1>3. PICK h \in Cells : h = <<F!Magic, 1, Len(s)>> /\ Heads(h, Len(s), NoOffset)
    BY <1>2, OldHeads DEF Heads
<1>4. PICK r \in Cells : r = Run(db, s, Len(s))
    BY <1>1, <1>2, RunIs
<1>5. F!FlattenSeq(Tail(F!Contents(db, NoOffset, s))) = r
    BY <1>1, <1>4, ContentsAre DEF Flat
<1>6. PICK body \in Cells : body = Cat(h, r)
    BY CatIs
<1>7. <<F!Magic, 1, Len(s)>> \o F!FlattenSeq(Tail(F!Contents(db, NoOffset, s))) = body
    BY <1>3, <1>5, <1>6 DEF Cat
<1>0. PICK one : one = <<SumCell>>
    OBVIOUS
<1>8. one \in Cells /\ one = <<SumCell>> /\ Len(one) = 1
    BY <1>0 DEF F!SnapshotFileAssumption, Cells
<1>9. PICK f \in Cells : f = Cat(body, one) /\ Len(f) = Len(body) + Len(one)
    BY <1>8, CatIs
<1>10. f = Bytes(h, db, s)
    BY <1>4, <1>6, <1>8, <1>9 DEF Bytes
<1>11. image' = [cells |-> f, sum |-> [at |-> Len(body) + 1, of |-> body]]
    <2>1. image' = [cells |-> body \o <<SumCell>>, sum |-> [at |-> Len(body) + 1, of |-> body]]
        BY <1>7
    <2> QED
        BY <2>1, <1>8, <1>9 DEF Cat
<1>12. SubSeq(f, 1, Len(body)) = body
    <2>1. Holds(f, 0, Cat(body, one))
        BY <1>9, HoldsSelf
    <2>2. Holds(f, 0, body)
        BY <1>8, <2>1, HoldsParts
    <2>3. SubSeq(f, 0 + 1, 0 + Len(body)) = body
        BY <2>2, HoldsCut
    <2>4. Len(body) \in Nat
        BY CellsAre
    <2> QED
        BY <2>3, <2>4
<1>13. SumOf(f) = [at |-> Len(body) + 1, of |-> body]
    <2>1. Len(body) \in Nat
        BY CellsAre
    <2>2. Len(f) = Len(body) + 1 /\ Len(f) - 1 = Len(body)
        <3>1. PICK x \in Nat, y \in Nat : x = Len(body) /\ y = Len(f)
            BY <2>1, CellsAre
        <3>2. y = x + 1
            BY <3>1, <1>8, <1>9
        <3>3. y - 1 = x
            BY ONLY <3>2, x \in Nat
        <3> QED
            BY <3>1, <3>2, <3>3
    <2> QED
        BY <2>2, <1>12 DEF SumOf
<1>14. image' = [cells |-> Bytes(h, db, s), sum |-> SumOf(Bytes(h, db, s))]
    BY <1>10, <1>11, <1>13
<1>15. Whole(image', saved') /\ image'.cells \in Cells /\ Len(image'.cells) \in Nat
    BY <1>1, <1>3, <1>14, WholeMade
<1>16. /\ cursor' = 0 /\ damaged' = FALSE /\ phase' = "running"
       /\ UNCHANGED <<db, point, pieces, buffer, tmp, left>>
    BY DEF SnapIdle, SnapImage, SnapTypes
<1> HIDE DEF F!OldVersion
<1>17. SnapTypes'
    <2>1. cursor' \in 0 .. Len(image'.cells)
        BY <1>15, <1>16
    <2> QED
        BY <1>15, <1>16, <2>1 DEF SnapTypes, Running
<1>18. SnapImage'
    BY <1>15, <1>16 DEF SnapImage
<1> QED
    BY <1>16, <1>17, <1>18 DEF SnapIdle, SnapSaving, SnapLoading

\* Whatever part of a piece fits, the cells stay the same, one behind the other.
LEMMA AppendKeeps ==
    ASSUME F!SnapshotFileAssumption, SnapInv, F!AppendStep PROVE SnapInv'
<1> USE DEF F!AppendStep, F!reader, SnapInv
<1>1. /\ pieces \in Lists /\ pieces # <<>> /\ buffer \in Cells /\ tmp \in Cells
      /\ Len(buffer) \in Nat /\ Len(buffer) <= BufferSize
      /\ BufferSize \in Nat \ {0} /\ BlockSize \in Nat \ {0}
    BY CellsAre DEF SnapTypes, F!SnapshotFileAssumption
<1>2. PICK piece \in Cells, rest \in Lists : piece = Head(pieces) /\ rest = Tail(pieces)
    BY <1>1, HeadTailProperties DEF Lists
<1>3. PICK a \in Nat : a = Len(piece)
    BY CellsAre
<1>4. Flat(pieces) = Cat(piece, Flat(rest)) /\ Flat(rest) \in Cells
    <2>1. pieces = <<piece>> \o rest
        <3>1. PICK one : one = <<piece>>
            OBVIOUS
        <3>2. one \in Seq(Cells) /\ Len(one) = 1 /\ one[1] = piece
            BY <3>1
        <3>3. PICK w : w = one \o rest
            OBVIOUS
        <3>4. /\ w \in Seq(Cells) /\ Len(w) = Len(one) + Len(rest)
              /\ \A i \in 1 .. Len(one) + Len(rest) :
                     w[i] = IF i <= Len(one) THEN one[i] ELSE rest[i - Len(one)]
            BY <3>2, <3>3, ConcatProperties DEF Lists
        <3>5. /\ Len(rest) = Len(pieces) - 1 /\ Len(pieces) \in Nat
              /\ \A i \in 1 .. Len(rest) : rest[i] = pieces[i + 1]
              /\ piece = pieces[1]
            BY <1>1, <1>2, HeadTailProperties, LenProperties DEF Lists
        <3>6. Len(w) = Len(pieces)
            BY <3>2, <3>4, <3>5
        <3>7. ASSUME NEW i \in 1 .. Len(pieces) PROVE pieces[i] = w[i]
            <4>1. CASE i = 1
                BY <4>1, <3>2, <3>4, <3>5
            <4>2. CASE i # 1
                <5>1. /\ i \in 1 .. Len(one) + Len(rest) /\ ~(i <= Len(one))
                      /\ i - Len(one) \in 1 .. Len(rest) /\ (i - Len(one)) + 1 = i
                    BY <4>2, <3>2, <3>5
                <5> QED
                    BY <5>1, <3>4, <3>5
            <4> QED
                BY <4>1, <4>2
        <3>8. pieces = w
            BY <1>1, <3>4, <3>6, <3>7, SeqEqual DEF Lists
        <3> QED
            BY <3>1, <3>3, <3>8
    <2>2. <<piece>> \in Lists
        BY DEF Lists
    <2> QED
        BY <2>1, <2>2, FlatOf
<1>5. PICK full, b, n : /\ full = (Len(buffer) = BufferSize /\ piece # <<>>)
                        /\ b = (IF full THEN <<>> ELSE buffer)
                        /\ n = F!Copied(piece, b)
    OBVIOUS
<1>6. /\ tmp' = IF full THEN F!Flushed(tmp, buffer) ELSE tmp
      /\ buffer' = b \o SubSeq(piece, 1, n)
      /\ pieces' = IF n = Len(piece) THEN rest
                   ELSE <<SubSeq(piece, n + 1, Len(piece))>> \o rest
    BY <1>2, <1>5
<1>7. b \in Cells /\ Len(b) \in Nat /\ Len(b) <= BufferSize
    BY <1>1, <1>5, CatEmpty
<1>8. n \in 0 .. a /\ Len(b) + n <= BufferSize
    <2>1. PICK m \in Nat, room \in Nat : m = Len(b) /\ room = BufferSize - m
        BY <1>1, <1>7
    <2>2. n = IF a < room THEN a ELSE room
        BY <1>3, <1>5, <2>1 DEF F!Copied, F!Lesser
    <2>3. n \in 0 .. a /\ m + n <= BufferSize
        <3> HIDE DEF F!AppendStep
        <3> QED
            BY <1>1, <2>1, <2>2
    <2> QED
        BY <2>1, <2>3
<1>9. tmp' \in Cells /\ Cat(tmp', b) = Cat(tmp, buffer) /\ Cat(tmp, buffer) \in Cells
    <2>1. Cat(tmp, buffer) \in Cells
        BY <1>1, CatIs
    <2>2. CASE full
        <3>1. tmp' = Cat(tmp, buffer) /\ b = <<>>
            BY <1>1, <1>5, <1>6, <2>2, FlushedIs
        <3> QED
            BY <2>1, <3>1, CatEmpty
    <2>3. CASE ~full
        BY <1>1, <1>5, <1>6, <2>1, <2>3
    <2> QED
        BY <2>2, <2>3, <1>5
<1>10. PICK x, y : x = SubSeq(piece, 1, n) /\ y = SubSeq(piece, n + 1, Len(piece))
    OBVIOUS
<1>11. x \in Cells /\ Len(x) = n /\ y \in Cells /\ Cat(x, y) = piece
    BY <1>3, <1>8, <1>10, PieceSplit
<1>12. /\ buffer' = Cat(b, x) /\ buffer' \in Cells /\ Len(buffer') <= BufferSize
    <2>1. buffer' = Cat(b, x)
        BY <1>6, <1>10 DEF Cat
    <2>2. Cat(b, x) \in Cells /\ Len(Cat(b, x)) = Len(b) + Len(x)
        BY <1>7, <1>11, CatIs
    <2> QED
        BY <2>1, <2>2, <1>8, <1>11
<1>13. pieces' \in Lists /\ Flat(pieces') = Cat(y, Flat(rest))
    <2>1. CASE n = Len(piece)
        <3>1. y = <<>>
            BY <1>3, <1>10, <2>1, SubSeqEmpty
        <3> QED
            BY <1>4, <1>6, <2>1, <3>1, CatEmpty
    <2>2. CASE n # Len(piece)
        <3>1. PICK q : q = <<y>>
            OBVIOUS
        <3>2. q \in Lists /\ Flat(q) = y
            BY <1>11, <3>1, FlatOf DEF Lists
        <3>3. pieces' = q \o rest
            BY <1>6, <1>10, <2>2, <3>1
        <3> QED
            BY <3>2, <3>3, FlatOf, ConcatProperties DEF Lists
    <2> QED
        BY <2>1, <2>2
<1>14. Cat(Cat(tmp', buffer'), Flat(pieces')) = Cat(Cat(tmp, buffer), Flat(pieces))
    <2>1. PICK t \in Cells, z \in Cells, w \in Cells :
              t = tmp' /\ z = Flat(rest) /\ w = Cat(tmp, buffer)
        BY <1>4, <1>9
    <2>2. Cat(t, Cat(b, x)) = Cat(w, x)
        <3>1. Cat(Cat(t, b), x) = Cat(t, Cat(b, x))
            BY <1>7, <1>11, CatAssoc
        <3> QED
            BY <3>1, <2>1, <1>9
    <2>3. PICK yz \in Cells : yz = Cat(y, z)
        BY <1>11, CatIs
    <2>4. Cat(Cat(w, x), yz) = Cat(w, Cat(x, yz))
        BY <1>11, CatAssoc
    <2>5. Cat(Cat(x, y), z) = Cat(x, yz)
        BY <1>11, <2>3, CatAssoc
    <2>6. Cat(x, yz) = Flat(pieces)
        BY <1>4, <1>11, <2>1, <2>5
    <2> QED
        BY <1>12, <1>13, <2>1, <2>2, <2>3, <2>4, <2>6
<1>15. SnapTypes'
    BY <1>9, <1>12, <1>13 DEF SnapTypes, Running
<1>16. SnapSaving'
    BY <1>14 DEF SnapSaving
<1> QED
    BY <1>15, <1>16 DEF SnapIdle, SnapImage, SnapLoading

\* The file of a SAVE is whole.
LEMMA SaveEndKeeps ==
    ASSUME F!SnapshotFileAssumption, SnapInv, F!SaveEnd PROVE SnapInv'
<1>1. /\ pieces \in Lists /\ pieces = <<>> /\ buffer \in Cells /\ tmp \in Cells
      /\ BlockSize \in Nat \ {0} /\ db \in Db /\ point \in Checkpoint \cup {NoOffset}
      /\ phase = "saving" /\ BufferSize \in Nat /\ left \in Nat
    BY DEF SnapInv, SnapTypes, F!SaveEnd, F!SnapshotFileAssumption
<1>2. PICK s \in F!Orders(db) :
          Cat(Cat(tmp, buffer), Flat(pieces)) = Bytes(F!Header(Len(s), point), db, s)
    BY <1>1 DEF SnapInv, SnapSaving
<1>3. PICK h : h = F!Header(Len(s), point)
    OBVIOUS
<1>4. Heads(h, Len(s), point)
    BY <1>1, <1>2, <1>3, OrderIs, NewHeads
<1>5. PICK c \in Cells : c = Cat(tmp, buffer)
    BY <1>1, CatIs
<1>6. c = Bytes(h, db, s)
    BY <1>1, <1>2, <1>3, <1>5, FlatOf, CatEmpty
<1>7. (IF buffer = <<>> THEN tmp ELSE F!Flushed(tmp, buffer)) = c
    BY <1>1, <1>5, FlushedIs, CatEmpty
<1>8. image' = [cells |-> c, sum |-> SumOf(c)]
    BY <1>7 DEF F!SaveEnd, SumOf
<1>9. image' = [cells |-> Bytes(h, db, s), sum |-> SumOf(Bytes(h, db, s))]
    BY <1>6, <1>8
<1>10. /\ phase' = "running" /\ saved' = [db |-> db, point |-> point] /\ damaged' = FALSE
       /\ buffer' = <<>> /\ tmp' = <<>>
       /\ db' = db /\ point' = point /\ pieces' = pieces /\ left' = left /\ cursor' = cursor
    BY DEF F!SaveEnd, F!reader
<1>11. Whole(image', saved') /\ image'.cells \in Cells /\ Len(image'.cells) \in Nat
    BY <1>1, <1>2, <1>4, <1>9, <1>10, WholeMade
<1>12. cursor' = 0
    BY <1>1, <1>10 DEF SnapInv, SnapIdle
<1>13. SnapTypes'
    <2>1. cursor' \in 0 .. Len(image'.cells)
        BY <1>11, <1>12
    <2>2. buffer' \in Cells /\ tmp' \in Cells /\ Len(buffer') <= BufferSize
        BY <1>1, <1>10 DEF Cells
    <2> QED
        BY <1>1, <1>10, <1>11, <2>1, <2>2 DEF SnapTypes, Running
<1>14. SnapImage'
    BY <1>10, <1>11 DEF SnapImage
<1> QED
    BY <1>10, <1>12, <1>13, <1>14 DEF SnapInv, SnapIdle, SnapSaving, SnapLoading

\* A SAVE that fails leaves the file alone.
LEMMA SaveFailsKeeps ==
    ASSUME F!SnapshotFileAssumption, SnapInv, F!SaveFails PROVE SnapInv'
<1>1. /\ phase = "saving" /\ phase' = "running"
      /\ pieces' = <<>> /\ buffer' = <<>> /\ tmp' = <<>>
      /\ UNCHANGED <<db, point, image, saved, damaged, cursor, left>>
    BY DEF F!SaveFails, F!reader
<1>2. /\ pieces' \in Lists /\ buffer' \in Cells /\ tmp' \in Cells /\ Len(buffer') <= BufferSize
    <2>1. <<>> \in Lists /\ <<>> \in Cells /\ Len(<<>>) = 0 /\ BufferSize \in Nat
        BY DEF Lists, Cells, F!SnapshotFileAssumption
    <2> QED
        BY <1>1, <2>1
<1>3. SnapTypes'
    BY <1>1, <1>2 DEF SnapInv, SnapTypes, Running
<1> QED
    BY <1>1, <1>3 DEF SnapInv, SnapIdle, SnapImage, SnapSaving, SnapLoading

\* A file that was whole is spoiled.
LEMMA DamageKeeps ==
    ASSUME F!SnapshotFileAssumption, SnapInv, F!Damage PROVE SnapInv'
<1>1. /\ phase = "starting" /\ image # F!NoFile /\ ~damaged /\ damaged' = TRUE
      /\ UNCHANGED <<phase, db, point, saved, pieces, buffer, tmp, cursor, left>>
    BY DEF F!Damage, F!reader, F!writer
<1>2. db = F!Empty /\ cursor = 0
    BY <1>1 DEF SnapInv, SnapIdle
<1>3. PICK s, h : WholeAs(image, saved, s, h)
    BY <1>1 DEF SnapInv, SnapImage, Whole
<1>4. image.cells \in Cells /\ image.sum = SumOf(image.cells) /\ Len(image.cells) >= 4
    BY <1>3, WholeIs
<1>5. image = [cells |-> image.cells, sum |-> image.sum]
    BY <1>3 DEF WholeAs
<1>6. Spoiled(image')
    <2>1. CASE \E n \in 0 .. Len(image.cells) - 1 :
                   image' = [image EXCEPT !.cells = SubSeq(@, 1, n)]
        <3>1. PICK n \in 0 .. Len(image.cells) - 1 :
                   image' = [image EXCEPT !.cells = SubSeq(@, 1, n)]
            BY <2>1
        <3>2. image' = [cells |-> SubSeq(image.cells, 1, n), sum |-> image.sum]
            BY <3>1, <1>5
        <3> QED
            BY <3>2, <1>4, CutSpoils
    <2>2. CASE \E b \in {F!Nul, 1, SumCell} :
                   image' = [image EXCEPT !.cells = Append(@, b)]
        <3>1. PICK b \in {F!Nul, 1, SumCell} :
                   image' = [image EXCEPT !.cells = Append(@, b)]
            BY <2>2
        <3>2. image' = [cells |-> Append(image.cells, b), sum |-> image.sum]
            BY <3>1, <1>5
        <3>3. b \in Nat
            BY DEF F!Nul, F!SnapshotFileAssumption
        <3> QED
            BY <3>2, <3>3, <1>4, MoreSpoils
    <2>3. CASE \E i \in DOMAIN image.cells, b \in 0 .. 3 :
                   /\ b # image.cells[i]
                   /\ image' = [cells |-> [image.cells EXCEPT ![i] = b],
                                sum |-> IF i = image.sum.at THEN F!NoFile.sum ELSE image.sum]
        <3>1. PICK i \in DOMAIN image.cells, b \in 0 .. 3 :
                   /\ b # image.cells[i]
                   /\ image' = [cells |-> [image.cells EXCEPT ![i] = b],
                                sum |-> IF i = image.sum.at THEN F!NoFile.sum ELSE image.sum]
            BY <2>3
        <3>2. b \in Nat
            OBVIOUS
        <3> QED
            BY <3>1, <3>2, <1>4, ChangeSpoils
    <2> QED
        BY <2>1, <2>2, <2>3 DEF F!Damage
<1>7. image'.cells \in Cells /\ Len(image'.cells) \in Nat
    BY <1>6, CellsAre DEF Spoiled
<1>8. SnapTypes'
    <2>1. cursor' \in 0 .. Len(image'.cells)
        BY <1>1, <1>2, <1>7
    <2> QED
        BY <1>1, <1>7, <2>1 DEF SnapInv, SnapTypes
<1> QED
    BY <1>1, <1>2, <1>6, <1>8 DEF SnapInv, SnapIdle, SnapImage, SnapSaving, SnapLoading

\* A start begins with nothing.
LEMMA RestartKeeps ==
    ASSUME F!SnapshotFileAssumption, SnapInv, F!Restart PROVE SnapInv'
<1>1. /\ phase = "running" /\ phase' = "starting" /\ db' = F!Empty /\ point' = NoOffset
      /\ UNCHANGED <<image, saved, damaged, pieces, buffer, tmp, cursor, left>>
    BY DEF F!Restart, F!reader, F!writer
<1>2. F!Empty \in Db
    BY DEF F!Empty, Db
<1>3. SnapTypes'
    BY <1>1, <1>2 DEF SnapInv, SnapTypes, Running
<1> QED
    BY <1>1, <1>3 DEF SnapInv, SnapIdle, SnapImage, SnapSaving, SnapLoading

\* Without a file nothing is loaded.
LEMMA LoadNothingKeeps ==
    ASSUME F!SnapshotFileAssumption, SnapInv, F!LoadNothing PROVE SnapInv'
<1>1. /\ phase = "starting" /\ image = F!NoFile /\ phase' = "running"
      /\ UNCHANGED <<db, point, image, saved, damaged, pieces, buffer, tmp, cursor, left>>
    BY DEF F!LoadNothing, F!reader, F!writer
<1>2. ~damaged
    BY <1>1 DEF SnapInv, SnapImage, Spoiled
<1>3. SnapTypes'
    BY <1>1 DEF SnapInv, SnapTypes, Running
<1> QED
    BY <1>1, <1>2, <1>3 DEF SnapInv, SnapIdle, SnapImage, SnapSaving, SnapLoading

\* Only a whole file gets past the first pass.
LEMMA LoadBeginKeeps ==
    ASSUME F!SnapshotFileAssumption, SnapInv, F!LoadBegin PROVE SnapInv'
<1>1. /\ phase = "starting" /\ image # F!NoFile /\ F!Validate(image) /\ phase' = "loading"
      /\ cursor' = F!ParseHeader(image.cells).next
      /\ left' = F!ParseHeader(image.cells).count
      /\ UNCHANGED <<db, point, image, saved, damaged, pieces, buffer, tmp>>
    BY DEF F!LoadBegin, F!writer
<1>2. ~damaged
    BY <1>1, SpoiledRefused DEF SnapInv, SnapImage
<1>3. PICK s, h : WholeAs(image, saved, s, h)
    BY <1>1, <1>2 DEF SnapInv, SnapImage, Whole
<1>4. PICK d, f : d = saved.db /\ f = image.cells
    OBVIOUS
<1>5. /\ f \in Cells /\ d \in Db /\ Listing(d, s) /\ Len(s) \in Nat /\ Len(h) \in Nat
      /\ F!ParseHeader(f) =
             [ok |-> TRUE, count |-> Len(s), point |-> saved.point, next |-> Len(h)]
      /\ Len(f) = End(Len(h), d, s, Len(s)) + 1
    BY <1>3, <1>4, WholeIs
<1>6. cursor' = Len(h) /\ left' = Len(s)
    BY <1>1, <1>4, <1>5
<1>7. Len(s) - Len(s) = 0
    BY <1>5
<1>8. End(Len(h), d, s, 0) = Len(h)
    <2>1. Len(Run(d, s, 0)) = 0
        BY <1>5, RunIs
    <2> QED
        BY <2>1, <1>5 DEF End
<1>9. db = Loaded(d, s, 0)
    BY <1>1, LoadedNothing DEF SnapInv, SnapIdle
<1>10. LoadingAs(s, h)'
    BY <1>1, <1>3, <1>4, <1>5, <1>6, <1>7, <1>8, <1>9 DEF LoadingAs
<1>11. cursor' \in 0 .. Len(image'.cells)
    <2>1. Len(s) \in 0 .. Len(s)
        BY <1>5
    <2>2. Len(Run(d, s, Len(s))) \in Nat
        BY <1>5, <2>1, RunLength
    <2>3. Len(f) = (Len(h) + Len(Run(d, s, Len(s)))) + 1
        BY <1>5 DEF End
    <2>4. Len(h) \in 0 .. Len(f)
        BY <1>5, <2>2, <2>3
    <2> QED
        BY <1>1, <1>4, <1>6, <2>4
<1>12. SnapTypes'
    BY <1>1, <1>5, <1>6, <1>11 DEF SnapInv, SnapTypes, Running
<1>13. SnapLoading'
    BY <1>10 DEF SnapLoading
<1> QED
    BY <1>1, <1>2, <1>12, <1>13 DEF SnapInv, SnapIdle, SnapImage, SnapSaving

\* A refused file ends the load.
LEMMA LoadRefusedKeeps ==
    ASSUME F!SnapshotFileAssumption, SnapInv, F!LoadRefused PROVE SnapInv'
<1>1. /\ phase = "starting" /\ phase' = "failed"
      /\ UNCHANGED <<db, point, image, saved, damaged, pieces, buffer, tmp, cursor, left>>
    BY DEF F!LoadRefused, F!reader, F!writer
<1>2. SnapTypes'
    BY <1>1 DEF SnapInv, SnapTypes, Running
<1> QED
    BY <1>1, <1>2 DEF SnapInv, SnapIdle, SnapImage, SnapSaving, SnapLoading

\* The record at the cursor is the next one, and is not there yet.
LEMMA LoadRecordKeeps ==
    ASSUME F!SnapshotFileAssumption, SnapInv, F!LoadRecord PROVE SnapInv'
<1>1. /\ phase = "loading" /\ left > 0 /\ left \in Nat
      /\ UNCHANGED <<point, image, saved, damaged, pieces, buffer, tmp>>
    BY DEF F!LoadRecord, F!writer, SnapInv, SnapTypes
<1>2. PICK s, h : LoadingAs(s, h)
    BY <1>1 DEF SnapInv, SnapLoading
<1>3. WholeAs(image, saved, s, h)
    BY <1>2 DEF LoadingAs
<1>4. PICK d, f : d = saved.db /\ f = image.cells
    OBVIOUS
<1>5. /\ f \in Cells /\ d \in Db /\ Listing(d, s) /\ Len(s) \in Nat /\ Len(h) \in Nat
      /\ Holds(f, Len(h), Run(d, s, Len(s)))
    BY <1>3, <1>4, WholeIs
<1>6. s \in F!Orders(d)
    BY <1>3, <1>4 DEF WholeAs
<1>7. PICK n : n = Len(s) - left
    OBVIOUS
<1>8. n \in 0 .. Len(s) - 1 /\ n + 1 = Len(s) - (left - 1) /\ left - 1 <= Len(s)
      /\ left - 1 \in Nat
    BY <1>1, <1>2, <1>5, <1>7 DEF LoadingAs
<1>9. cursor = End(Len(h), d, s, n) /\ db = Loaded(d, s, n)
    BY <1>2, <1>4, <1>7 DEF LoadingAs
<1>10. PICK x, r : x = End(Len(h), d, s, n + 1) /\ r = Read(d, s[n + 1], x)
    OBVIOUS
<1>11. F!ParseRecord(f, cursor) = r /\ x \in Nat /\ x <= Len(f)
    BY <1>5, <1>8, <1>9, <1>10, ParseNext
<1>12. /\ r.ok = TRUE /\ r.next = x /\ r.key \in Key
       /\ db[r.engine][r.key] = Absent /\ F!Inserted(db, r) = Loaded(d, s, n + 1)
    <2>1. d \in Db /\ n \in 0 .. Len(s) - 1 /\ r = Read(d, s[n + 1], x)
        BY <1>5, <1>8, <1>10
    <2>2. Inserts(Loaded(d, s, n), Loaded(d, s, n + 1), r, x)
        BY <1>6, <2>1, LoadedNext
    <2>3. Inserts(db, Loaded(d, s, n + 1), r, x)
        BY <1>9, <2>2
    <2> QED
        BY <2>3 DEF Inserts
<1>13. /\ db' = F!Inserted(db, r) /\ cursor' = r.next /\ left' = left - 1 /\ phase' = phase
    BY <1>4, <1>11, <1>12 DEF F!LoadRecord
<1>14. LoadingAs(s, h)'
    BY <1>1, <1>3, <1>4, <1>8, <1>10, <1>12, <1>13 DEF LoadingAs
<1>15. cursor' \in 0 .. Len(image'.cells)
    <2>1. Len(f) \in Nat
        BY <1>5, CellsAre
    <2>2. x \in 0 .. Len(f)
        BY <1>11, <2>1
    <2> QED
        BY <1>1, <1>4, <1>12, <1>13, <2>2
<1>16. db' \in Db
    BY <1>5, <1>12, <1>13, LoadedTyped
<1>17. SnapTypes'
    BY <1>1, <1>8, <1>13, <1>15, <1>16 DEF SnapInv, SnapTypes
<1>18. SnapLoading'
    BY <1>14 DEF SnapLoading
<1> QED
    BY <1>1, <1>13, <1>17, <1>18 DEF SnapInv, SnapIdle, SnapImage, SnapSaving

\* The checkpoint is the one of the file.
LEMMA LoadEndKeeps ==
    ASSUME F!SnapshotFileAssumption, SnapInv, F!LoadEnd PROVE SnapInv'
<1>1. /\ phase = "loading" /\ phase' = "running" /\ cursor' = 0
      /\ point' = F!ParseHeader(image.cells).point
      /\ UNCHANGED <<db, left, image, saved, damaged, pieces, buffer, tmp>>
    BY DEF F!LoadEnd, F!writer
<1>2. PICK s, h : LoadingAs(s, h)
    BY <1>1 DEF SnapInv, SnapLoading
<1>3. WholeAs(image, saved, s, h)
    BY <1>2 DEF LoadingAs
<1>4. F!ParseHeader(image.cells).point = saved.point
    <2>1. F!ParseHeader(image.cells) =
              [ok |-> TRUE, count |-> Len(s), point |-> saved.point, next |-> Len(h)]
        BY <1>3, WholeIs
    <2> QED
        BY <2>1
<1>5. saved.point \in Checkpoint \cup {NoOffset}
    BY <1>3 DEF WholeAs
<1>6. Len(image.cells) \in Nat
    BY CellsAre DEF SnapInv, SnapTypes
<1>7. SnapTypes'
    <2>1. cursor' \in 0 .. Len(image'.cells)
        BY <1>1, <1>6
    <2> QED
        BY <1>1, <1>4, <1>5, <2>1 DEF SnapInv, SnapTypes, Running
<1> QED
    BY <1>1, <1>7 DEF SnapInv, SnapIdle, SnapImage, SnapSaving, SnapLoading

\* A load may fail at any record,
LEMMA LoadFailsKeeps ==
    ASSUME F!SnapshotFileAssumption, SnapInv, F!LoadFails PROVE SnapInv'
<1>1. /\ phase \in {"starting", "loading"} /\ phase' = "failed"
      /\ UNCHANGED <<db, point, image, saved, damaged, pieces, buffer, tmp, cursor, left>>
    BY DEF F!LoadFails, F!reader, F!writer
<1>2. SnapTypes'
    BY <1>1 DEF SnapInv, SnapTypes, Running
<1> QED
    BY <1>1, <1>2 DEF SnapInv, SnapIdle, SnapImage, SnapSaving, SnapLoading

\* and then the engines are emptied.
LEMMA ClearedKeeps ==
    ASSUME F!SnapshotFileAssumption, SnapInv, F!Cleared PROVE SnapInv'
<1>1. /\ phase = "failed" /\ phase' = "ended" /\ db' = F!Empty /\ cursor' = 0 /\ left' = 0
      /\ UNCHANGED <<point, image, saved, damaged, pieces, buffer, tmp>>
    BY DEF F!Cleared, F!writer
<1>2. F!Empty \in Db
    BY DEF F!Empty, Db
<1>3. Len(image.cells) \in Nat
    BY CellsAre DEF SnapInv, SnapTypes
<1>4. SnapTypes'
    <2>1. cursor' \in 0 .. Len(image'.cells)
        BY <1>1, <1>3
    <2> QED
        BY <1>1, <1>2, <2>1 DEF SnapInv, SnapTypes, Running
<1> QED
    BY <1>1, <1>4 DEF SnapInv, SnapIdle, SnapImage, SnapSaving, SnapLoading

\* Every step keeps it.
LEMMA SnapStep ==
    ASSUME F!SnapshotFileAssumption, SnapInv, [F!Next]_(F!vars) PROVE SnapInv'
<1>1. CASE UNCHANGED F!vars
    <2>1. UNCHANGED <<phase, db, point, pieces, buffer, tmp, image, cursor, left, saved, damaged>>
        BY <1>1 DEF F!vars
    <2>2. SnapTypes' /\ SnapIdle' /\ SnapImage' /\ SnapSaving'
        BY <2>1 DEF SnapInv, SnapTypes, SnapIdle, SnapImage, SnapSaving
    <2>3. SnapLoading'
        BY <2>1 DEF SnapInv, SnapLoading, LoadingAs
    <2> QED
        BY <2>2, <2>3 DEF SnapInv
<1>2. CASE \E order \in F!Orders(db) : F!SaveBegin(order) \/ F!OldVersion(order)
    BY <1>2, SaveBeginKeeps, OldVersionKeeps
<1>3. CASE F!AppendStep
    BY <1>3, AppendKeeps
<1>4. CASE F!SaveEnd
    BY <1>4, SaveEndKeeps
<1>5. CASE F!SaveFails
    BY <1>5, SaveFailsKeeps
<1>6. CASE F!Damage
    BY <1>6, DamageKeeps
<1>7. CASE F!Restart
    BY <1>7, RestartKeeps
<1>8. CASE F!LoadNothing
    BY <1>8, LoadNothingKeeps
<1>9. CASE F!LoadBegin
    BY <1>9, LoadBeginKeeps
<1>10. CASE F!LoadRefused
    BY <1>10, LoadRefusedKeeps
<1>11. CASE F!LoadRecord
    BY <1>11, LoadRecordKeeps
<1>12. CASE F!LoadEnd
    BY <1>12, LoadEndKeeps
<1>13. CASE F!LoadFails
    BY <1>13, LoadFailsKeeps
<1>14. CASE F!Cleared
    BY <1>14, ClearedKeeps
<1> QED
    BY <1>1, <1>2, <1>3, <1>4, <1>5, <1>6, <1>7, <1>8, <1>9, <1>10, <1>11, <1>12, <1>13,
       <1>14 DEF F!Next

\* Whatever the sizes of the writer's buffer and of its blocks, whatever is stored and
\* whatever fails, snapshot_write_contents leaves out and repeats nothing; a file that
\* was saved is accepted and its load gives the contents and the checkpoint it was saved
\* with; and a file that was cut, extended or altered never reaches an engine.
THEOREM SnapshotsExact ==
    ASSUME F!SnapshotFileAssumption
    PROVE  F!Spec => [](/\ F!TypeOK /\ F!NothingDropped /\ F!LoadExact
                        /\ F!DamageRefused /\ F!WholeAccepted)
<1>1. F!Init => SnapInv
    BY SnapInit
<1>2. SnapInv /\ [F!Next]_(F!vars) => SnapInv'
    BY SnapStep
<1>3. SnapInv => /\ F!TypeOK /\ F!NothingDropped /\ F!LoadExact
                 /\ F!DamageRefused /\ F!WholeAccepted
    BY SnapImplies
<1> QED
    BY <1>1, <1>2, <1>3, PTL DEF F!Spec
=============================================================================
