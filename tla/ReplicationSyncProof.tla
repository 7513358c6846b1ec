------------------------ MODULE ReplicationSyncProof ------------------------
(***************************************************************************)
(* The full sync over RDMA: a message finds its buffer posted, a Replica   *)
(* writes a prefix of the snapshot it was announced, and the Primary ends  *)
(* the transfer only when the Replica has installed it.                    *)
(*                                                                         *)
(* WireInv says which message of the READY, chunk and ACK protocol may be  *)
(* on its way, from the counters of both ends.  FileInv says what the      *)
(* Replica has written.                                                    *)
(***************************************************************************)
EXTENDS ReplicationProof, ReplayProof

-----------------------------------------------------------------------------
(* The transfer over RDMA, with one message in flight at most.              *)

Linked(r) == pr.conn = r /\ rr[r].conn

\* Nothing is sent yet; READY may be on its way.
NotStarted(r) ==
    /\ pr.sent = 0 /\ rr[r].bytes = 0 /\ rr[r].acked = 0
    /\ wire[r].pr = <<>>
    /\ wire[r].rp # <<>> => Len(wire[r].rp) = 1 /\ rr[r].est

\* The connection broke: what was in flight is lost.
Cut(r) == wire[r] = EmptyWire /\ Hurt(rr[r].cm)

\* A chunk is in flight, the next cells of the snapshot file.
InFlight(r) ==
    /\ rr[r].acked = rr[r].bytes /\ pr.acked = rr[r].bytes
    /\ \E chunk \in Seq(SnapCell) :
          /\ wire[r].pr = <<chunk>> /\ wire[r].rp = <<>>
          /\ Len(chunk) > 0 /\ rr[r].bytes + Len(chunk) <= SnapSize
          /\ chunk = SubSeq(snapFile, rr[r].bytes + 1, rr[r].bytes + Len(chunk))
          /\ pr.sent = rr[r].bytes + Len(chunk)

\* The chunk has arrived, its ACK is on its way, its ACK has arrived.
Arrived(r) ==
    /\ wire[r] = EmptyWire /\ rr[r].bytes = pr.sent
    /\ rr[r].acked < rr[r].bytes /\ pr.acked < pr.sent

Acked(r) ==
    /\ wire[r].pr = <<>> /\ wire[r].rp = <<[kind |-> "SNAPSHOT_ACK", n |-> pr.sent]>>
    /\ rr[r].bytes = pr.sent /\ rr[r].acked = pr.sent /\ pr.acked < pr.sent

Settled(r) ==
    /\ wire[r] = EmptyWire /\ rr[r].bytes = pr.sent /\ rr[r].acked = pr.sent
    /\ pr.acked = pr.sent

Transfers(r) ==
    /\ \/ NotStarted(r)
       \/ /\ pr.sent > 0 /\ rr[r].est
          /\ Cut(r) \/ InFlight(r) \/ Arrived(r) \/ Acked(r) \/ Settled(r)
    /\ pr.discPending => rr[r].bytes = pr.sent /\ rr[r].acked = pr.sent

Wires(r) ==
    /\ Linked(r) => Transfers(r)
    /\ ~Linked(r) => wire[r] = EmptyWire

WireInv == \A r \in Replica : Wires(r)

\* A step that leaves the transfer to q as it is.
LEMMA WiresKept ==
    ASSUME WireInv, NEW q \in Replica, wire'[q] = wire[q],
           rr'[q].conn = rr[q].conn, rr'[q].est = rr[q].est,
           rr'[q].bytes = rr[q].bytes, rr'[q].acked = rr[q].acked,
           Hurt(rr[q].cm) => Hurt(rr'[q].cm),
           pr'.conn = q <=> pr.conn = q,
           pr.conn = q => /\ snapFile' = snapFile /\ pr'.sent = pr.sent
                          /\ pr'.acked = pr.acked /\ pr'.discPending = pr.discPending
    PROVE  Wires(q)'
<1>1. Wires(q) /\ (Linked(q)' <=> Linked(q))
    BY DEF WireInv, Linked
<1>2. ASSUME Linked(q) PROVE Transfers(q)'
    <2>1. /\ snapFile' = snapFile /\ pr'.sent = pr.sent
          /\ pr'.acked = pr.acked /\ pr'.discPending = pr.discPending
        BY <1>2 DEF Linked
    <2>2. Transfers(q)
        BY <1>1, <1>2 DEF Wires
    <2>3. NotStarted(q) => NotStarted(q)'
        BY <2>1 DEF NotStarted
    <2>4. Cut(q) => Cut(q)'
        BY DEF Cut
    <2>5. InFlight(q) => InFlight(q)'
        BY <2>1 DEF InFlight
    <2>6. (Arrived(q) => Arrived(q)') /\ (Acked(q) => Acked(q)') /\ (Settled(q) => Settled(q)')
        BY <2>1 DEF Arrived, Acked, Settled
    <2> QED
        BY <2>1, <2>2, <2>3, <2>4, <2>5, <2>6 DEF Transfers
<1> QED
    BY <1>1, <1>2 DEF Wires

\* An end of the connection of q is gone, and with it what was in flight.
LEMMA WiresGone ==
    ASSUME NEW q \in Replica, wire'[q] = EmptyWire, ~(Linked(q)')
    PROVE  Wires(q)'
    BY DEF Wires

\* A step of Replica r leaves the transfers of the others alone.
LEMMA WiresAlone ==
    ASSUME WireInv, NEW r \in Replica, Alone(r), snapFile' = snapFile,
           pr'.conn = pr.conn,
           pr'.sent = pr.sent, pr'.acked = pr.acked, pr'.discPending = pr.discPending,
           Wires(r)'
    PROVE  WireInv'
<1>1. ASSUME NEW q \in Replica, q # r PROVE Wires(q)'
    <2>1. rr'[q] = rr[q] /\ wire'[q] = wire[q]
        BY <1>1 DEF Alone, Unmoved
    <2> QED
        BY <2>1, WiresKept
<1> QED
    BY <1>1 DEF WireInv

\* One more CM event of r.
LEMMA WiresNotified ==
    ASSUME TypeOK, WireInv, NEW p, NEW e, rr' = NotifyReplica(p, e),
           NEW q \in Replica
    PROVE  /\ rr'[q].conn = rr[q].conn /\ rr'[q].est = rr[q].est
           /\ rr'[q].bytes = rr[q].bytes /\ rr'[q].acked = rr[q].acked
           /\ Hurt(rr[q].cm) => Hurt(rr'[q].cm)
<1>1. rr[q] \in ReplicaRdma /\ rr[q].cm \in Seq(CmEvent)
    BY DEF TypeOK, ReplicaRdma
<1>2. CASE ~(q = p /\ rr[q].conn)
    <2>1. rr'[q] = rr[q]
        BY <1>2, NotifyEffect
    <2> QED
        BY <2>1
<1>3. CASE q = p /\ rr[q].conn
    <2> DEFINE longer == Append(rr[q].cm, e)
    <2>1. rr'[q] = [rr[q] EXCEPT !.cm = longer]
        BY <1>3, NotifyEffect
    <2>2. Len(longer) = Len(rr[q].cm) + 1 /\ \A i \in 1 .. Len(rr[q].cm) : longer[i] = rr[q].cm[i]
        BY <1>1
    <2> HIDE DEF longer
    <2>3. Hurt(rr[q].cm) => Hurt(longer)
        <3>1. Len(rr[q].cm) \in Nat
            BY <1>1
        <3>2. \A i \in 1 .. Len(rr[q].cm) : i \in 1 .. Len(longer)
            BY <2>2, <3>1
        <3> QED
            BY <2>2, <3>2 DEF Hurt
    <2> QED
        BY <1>1, <2>1, <2>3 DEF ReplicaRdma
<1> QED
    BY <1>2, <1>3

\* The next chunk is cut from the snapshot file where the last one ended.
LEMMA NextChunkIs ==
    ASSUME TypeInv, RoundInv, NEW n \in Nat, pm.state = "FULL_SYNC",
           pm.reader \in Nat, n = Min2(ChunkCap, pm.reader)
    PROVE  /\ NextChunk = SubSeq(snapFile, pr.sent + 1, pr.sent + n)
           /\ NextChunk \in Seq(SnapCell) /\ Len(NextChunk) = n
           /\ pr.sent + n <= SnapSize
<1>1. /\ snapFile \in Seq(SnapCell) /\ pr.sent \in Nat /\ SnapSize \in Nat
      /\ pr \in PrimaryRdma /\ n <= pm.reader
    BY ReplicationAssumption DEF TypeInv, TypeOK, PrimaryRdma, Min2
<1>2. pm.reader + pr.sent = SnapSize /\ pm.fileSize = SnapSize /\ snapFile = SnapshotAt(pm.offset)
    BY <1>1 DEF RoundInv, RoundFile, Closed
<1>3. Len(snapFile) = SnapSize
    BY <1>1, <1>2 DEF SnapshotAt, SnapshotOf
<1>4. pm.fileSize - pm.reader = pr.sent
    BY <1>1, <1>2
<1>5. NextChunk = SubSeq(snapFile, pr.sent + 1, pr.sent + n)
    BY <1>4 DEF NextChunk
<1>6. pr.sent + n <= SnapSize
    BY <1>1, <1>2
<1>7. /\ SubSeq(snapFile, pr.sent + 1, pr.sent + n) \in Seq(SnapCell)
      /\ Len(SubSeq(snapFile, pr.sent + 1, pr.sent + n)) = n
    BY <1>1, <1>3, <1>6, SubSeqType
<1> QED
    BY <1>5, <1>6, <1>7

\* What follows a message that is alone.
LEMMA TailOfOne ==
    ASSUME NEW S, NEW s \in Seq(S), Len(s) = 1
    PROVE  Tail(s) = <<>>
<1> DEFINE t == Tail(s)
<1>1. t \in Seq(S) /\ Len(t) = 0
    OBVIOUS
<1> HIDE DEF t
<1>2. t = <<>>
    BY <1>1
<1> QED
    BY <1>2 DEF t

\* WireInv is kept by the steps of the Primary.
LEMMA WiresPrimary ==
    ASSUME TypeInv, FreshInv, CmInv, RoundInv, WireInv,
           \/ PrimaryAccept \/ PrimaryReject \/ PrimaryEstablished \/ PrimaryDisconnect
           \/ PrimarySendDone \/ FinishStep \/ StreamStep
           \/ \E p \in Replica, n \in Nat : NextChunkStep(p, n) \/ FirstChunkStep(p, n)
           \/ \E p \in Replica : AckStep(p)
    PROVE  WireInv'
<1>0. TypeOK /\ pr \in PrimaryRdma /\ pr.sent \in Nat /\ pr.acked \in Nat
      /\ wire \in [Replica -> Wire]
    BY DEF TypeInv, TypeOK, PrimaryRdma
<1>1. ASSUME UNCHANGED <<snapFile, wire, rr>>, pr'.conn = pr.conn,
             pr'.sent = pr.sent, pr'.acked = pr.acked, pr'.discPending = pr.discPending
      PROVE  WireInv'
    <2> SUFFICES ASSUME NEW q \in Replica PROVE Wires(q)'
        BY DEF WireInv
    <2> QED
        BY <1>1, WiresKept
<1>2. CASE PrimaryAccept
    <2>1. PICK h : h = Head(listenQ)
        OBVIOUS
    <2>2. /\ h \in Replica /\ pr.conn = NoConn /\ listenQ # <<>> /\ listenQ' = Tail(listenQ)
          /\ pr'.conn = h /\ pr'.sent = 0 /\ pr'.acked = 0 /\ ~pr'.discPending
          /\ rr' = NotifyReplica(h, "ESTABLISHED") /\ wire' = wire
        BY <1>0, <1>2, <2>1, AcceptEffect
    <2>3. \A q \in Replica : wire[q] = EmptyWire
        BY <2>2, ReplicationAssumption DEF WireInv, Wires, Linked
    <2> SUFFICES ASSUME NEW q \in Replica PROVE Wires(q)'
        BY DEF WireInv
    <2>4. CASE q # h
        BY <2>2, <2>3, <2>4, WiresGone DEF Linked
    <2>5. CASE q = h
        <3>1. rr'[h].conn = rr[h].conn /\ rr'[h].est = rr[h].est
              /\ rr'[h].bytes = rr[h].bytes /\ rr'[h].acked = rr[h].acked
            BY <1>0, <2>2, WiresNotified
        <3>2. InQueue(h)
            BY <1>0, <2>1, <2>2, QueueTaken DEF CmInv
        <3>3. rr[h].conn => ~rr[h].est
            BY <2>2, <3>2 DEF CmInv, CmLife, CmResolves, CmWaits, CmAccepted, CmUp
        <3>4. rr[h].conn => rr[h].bytes = 0 /\ rr[h].acked = 0
            BY <2>2, <3>3 DEF FreshInv
        <3>5. wire'[h].pr = <<>> /\ wire'[h].rp = <<>> /\ wire'[h] = EmptyWire
            BY <2>2, <2>3 DEF EmptyWire
        <3>6. rr[h].conn => NotStarted(h)'
            BY <2>2, <3>1, <3>4, <3>5 DEF NotStarted
        <3> QED
            BY <2>2, <2>5, <3>1, <3>5, <3>6 DEF Wires, Linked, Transfers
    <2> QED
        BY <2>4, <2>5
<1>3. CASE PrimaryReject
    <2>1. rr' = NotifyReplica(Head(listenQ), "ERROR") /\ UNCHANGED <<pr, wire, snapFile>>
        BY <1>3 DEF PrimaryReject
    <2>2. PICK h : rr' = NotifyReplica(h, "ERROR")
        BY <2>1
    <2> SUFFICES ASSUME NEW q \in Replica PROVE Wires(q)'
        BY DEF WireInv
    <2>3. rr'[q].conn = rr[q].conn /\ rr'[q].est = rr[q].est
          /\ rr'[q].bytes = rr[q].bytes /\ rr'[q].acked = rr[q].acked
          /\ (Hurt(rr[q].cm) => Hurt(rr'[q].cm))
        BY <1>0, <2>2, WiresNotified
    <2> QED
        BY <2>1, <2>3, WiresKept
<1>4. CASE PrimaryEstablished
    BY <1>0, <1>1, <1>4, EstablishedEffect
<1>5. CASE PrimarySendDone
    BY <1>0, <1>1, <1>5, SendDoneEffect
<1>6. CASE PrimaryDisconnect
    <2>1. PICK p : p = pr.conn
        OBVIOUS
    <2>2. p \in Replica
        BY <1>6, <2>1, DataHeld DEF PrimaryDisconnect
    <2>3. /\ pr'.conn = p /\ pr'.sent = pr.sent /\ pr'.acked = pr.acked
          /\ pr.sent > 0 /\ pr.acked = pr.sent /\ pr.cm = <<>>
          /\ rr' = NotifyReplica(p, "DISCONNECTED") /\ UNCHANGED <<wire, snapFile>>
        BY <1>0, <1>6, <2>1, DisconnectEffect
    <2> SUFFICES ASSUME NEW q \in Replica PROVE Wires(q)'
        BY DEF WireInv
    <2>4. rr'[q].conn = rr[q].conn /\ rr'[q].est = rr[q].est
          /\ rr'[q].bytes = rr[q].bytes /\ rr'[q].acked = rr[q].acked
          /\ (Hurt(rr[q].cm) => Hurt(rr'[q].cm))
        BY <1>0, <2>3, WiresNotified
    <2>5. CASE q # p
        BY <2>1, <2>3, <2>4, <2>5, WiresKept
    <2>6. CASE q = p
        <3>1. CASE rr[p].conn
            <4>1. Transfers(p) /\ BothHear(p)
                BY <2>1, <2>2, <3>1 DEF WireInv, Wires, Linked, CmInv
            <4>2. ~Hurt(pr.cm)
                BY <2>3 DEF Hurt
            <4>3. ~Hurt(rr[p].cm)
                BY <2>1, <3>1, <4>1, <4>2 DEF BothHear
            <4>4. rr[p].bytes \in Nat
                BY <1>0, <2>2 DEF TypeOK, ReplicaRdma
            <4>5. rr[p].est /\ Settled(p)
                BY <1>0, <2>3, <4>1, <4>3, <4>4
                DEF Transfers, NotStarted, Cut, InFlight, Arrived, Acked
            <4>6. Settled(p)'
                BY <2>3, <2>4, <2>6, <4>5 DEF Settled
            <4>7. Transfers(p)'
                BY <2>3, <2>4, <2>6, <4>5, <4>6 DEF Transfers, Settled
            <4> QED
                BY <2>3, <2>4, <2>6, <3>1, <4>7 DEF Wires, Linked
        <3>2. CASE ~rr[p].conn
            <4>1. wire[p] = EmptyWire
                BY <2>2, <3>2 DEF WireInv, Wires, Linked
            <4> QED
                BY <2>3, <2>4, <2>6, <3>2, <4>1 DEF Wires, Linked
        <3> QED
            BY <3>1, <3>2
    <2> QED
        BY <2>5, <2>6
<1>7. CASE FinishStep
    <2>1. wire' = CutWire(pr.conn) /\ pr'.conn = NoConn
        BY <1>7 DEF FinishStep, NoPrimaryRdma
    <2>2. ASSUME NEW q \in Replica PROVE wire'[q] = EmptyWire
        BY <1>0, <2>1, <2>2, ReplicationAssumption DEF CutWire, WireInv, Wires, Linked
    <2> QED
        BY <2>1, <2>2, WiresGone, ReplicationAssumption DEF Linked, WireInv
<1>8. CASE StreamStep
    BY <1>1, <1>8 DEF StreamStep
<1>9. ASSUME NEW p \in Replica, NEW n \in Nat, NextChunkStep(p, n) \/ FirstChunkStep(p, n)
      PROVE  WireInv'
    <2>1. PICK rest : /\ ChunkSent(p, n, rest) /\ Polls(p)
                      /\ n = Min2(ChunkCap, pm.reader)
                      /\ \/ rest = wire[p].rp /\ pr.sent > 0 /\ pr.acked = pr.sent /\ pm.reader > 0
                         \/ rest = Tail(wire[p].rp) /\ pr.sent = 0 /\ wire[p].rp # <<>>
        BY <1>9 DEF NextChunkStep, FirstChunkStep
    <2>2. /\ p = pr.conn /\ pm.state = "FULL_SYNC" /\ pr.cm = <<>> /\ ~pr.discPending
          /\ snapFile' = snapFile
        BY <2>1 DEF Polls
    <2>3. /\ pm.reader \in Nat /\ n <= pm.reader /\ (pm.reader > 0 => n > 0)
          /\ pr'.conn = p /\ pr'.sent = pr.sent + n
          /\ pr'.acked = pr.acked /\ pr'.discPending = pr.discPending
          /\ \A q \in Replica : q # p => wire'[q] = wire[q]
          /\ wire'[p] = [pr |-> IF rr[p].conn THEN Append(wire[p].pr, NextChunk)
                                ELSE wire[p].pr,
                         rp |-> rest]
          /\ rr' = rr
        BY <2>1, <2>2 DEF ChunkSent
    <2>4. ASSUME NEW q \in Replica, q # p PROVE Wires(q)'
        BY <2>2, <2>3, <2>4, WiresKept
    <2>5. CASE ~rr[p].conn
        <3>1. wire[p] = EmptyWire
            BY <2>5 DEF WireInv, Wires, Linked
        <3>2. wire[p].rp = <<>> /\ wire[p].pr = <<>>
            BY <3>1 DEF EmptyWire
        <3>3. wire'[p] = EmptyWire
            BY <2>1, <2>3, <2>5, <3>2 DEF EmptyWire
        <3>4. Wires(p)'
            BY <2>3, <2>5, <3>3 DEF Wires, Linked
        <3> QED
            BY <2>4, <3>4 DEF WireInv
    <2>6. CASE rr[p].conn
        <3>1. Transfers(p) /\ BothHear(p)
            BY <2>2, <2>6 DEF WireInv, Wires, Linked, CmInv
        <3>2. ~Hurt(pr.cm)
            BY <2>2 DEF Hurt
        <3>3. ~Hurt(rr[p].cm)
            BY <2>2, <2>6, <3>1, <3>2 DEF BothHear
        <3>4. rr[p].bytes \in Nat /\ wire[p] \in Wire /\ wire[p].rp \in Seq(RdmaMessage)
            BY <1>0 DEF TypeOK, ReplicaRdma, Wire
        <3>5. /\ NextChunk = SubSeq(snapFile, pr.sent + 1, pr.sent + n)
              /\ NextChunk \in Seq(SnapCell) /\ Len(NextChunk) = n
              /\ pr.sent + n <= SnapSize
            BY <2>1, <2>2, <2>3, NextChunkIs
        <3>6. pm.reader > 0
            <4>1. CASE pr.sent = 0
                <5>1. pm.reader + pr.sent = SnapSize
                    BY <2>2, <2>3 DEF RoundInv, RoundFile, Closed
                <5> QED
                    BY <2>3, <4>1, <5>1, ReplicationAssumption
            <4> QED
                BY <2>1, <4>1
        <3>7. /\ rr[p].est /\ wire[p].pr = <<>> /\ rest = <<>>
              /\ rr[p].bytes = pr.sent /\ rr[p].acked = pr.sent /\ pr.acked = pr.sent
            <4>1. CASE rest = wire[p].rp /\ pr.sent > 0 /\ pr.acked = pr.sent
                <5>1. rr[p].est /\ Settled(p)
                    BY <1>0, <3>1, <3>3, <3>4, <4>1
                    DEF Transfers, NotStarted, Cut, InFlight, Arrived, Acked
                <5> QED
                    BY <4>1, <5>1 DEF Settled, EmptyWire
            <4>2. CASE rest = Tail(wire[p].rp) /\ pr.sent = 0 /\ wire[p].rp # <<>>
                <5>1. NotStarted(p)
                    BY <3>1, <4>2 DEF Transfers
                <5>2. Len(wire[p].rp) = 1 /\ rr[p].est
                    BY <4>2, <5>1 DEF NotStarted
                <5>3. Tail(wire[p].rp) = <<>>
                    BY <3>4, <5>2, TailOfOne
                <5>4. pr.acked = 0
                    BY <1>0, <4>2 DEF RoundInv, RoundEnd
                <5> QED
                    BY <4>2, <5>1, <5>2, <5>3, <5>4 DEF NotStarted
            <4> QED
                BY <2>1, <4>1, <4>2
        <3>8. Append(wire[p].pr, NextChunk) = <<NextChunk>>
            BY <3>7
        <3>9. wire'[p].pr = <<NextChunk>> /\ wire'[p].rp = <<>>
            BY <2>3, <2>6, <3>7, <3>8
        <3>10. PICK chunk \in Seq(SnapCell) : chunk = NextChunk
            BY <3>5
        <3>11. InFlight(p)'
            <4>1. /\ wire'[p].pr = <<chunk>> /\ wire'[p].rp = <<>> /\ Len(chunk) = n /\ n > 0
                  /\ chunk = SubSeq(snapFile, pr.sent + 1, pr.sent + n)
                BY <2>3, <3>5, <3>6, <3>9, <3>10
            <4> QED
                BY <2>2, <2>3, <3>5, <3>7, <4>1 DEF InFlight
        <3>12. Wires(p)'
            BY <1>0, <2>2, <2>3, <2>6, <3>6, <3>7, <3>11 DEF Wires, Linked, Transfers
        <3> QED
            BY <2>4, <3>12 DEF WireInv
    <2> QED
        BY <2>5, <2>6
<1>10. ASSUME NEW p \in Replica, AckStep(p) PROVE WireInv'
    <2>1. /\ p = pr.conn /\ snapFile' = snapFile /\ ~pr.discPending /\ wire[p].rp # <<>>
          /\ pr.sent > 0 /\ pr'.conn = p /\ pr'.sent = pr.sent
          /\ pr'.acked = pr.sent /\ pr'.discPending = pr.discPending
          /\ \A q \in Replica : q # p => wire'[q] = wire[q]
          /\ wire'[p] = [pr |-> wire[p].pr, rp |-> Tail(wire[p].rp)]
          /\ rr' = rr
        BY <1>10 DEF AckStep, AckTaken, Polls
    <2>2. ASSUME NEW q \in Replica, q # p PROVE Wires(q)'
        BY <2>1, <2>2, WiresKept
    <2>3. Linked(p)
        BY <2>1 DEF WireInv, Wires, EmptyWire
    <2>4. rr[p].est /\ Acked(p)
        BY <1>0, <2>1, <2>3 DEF WireInv, Wires, Transfers, NotStarted, Cut, InFlight, Arrived,
                                Settled, EmptyWire
    <2>5. wire'[p] = EmptyWire
        BY <2>1, <2>4 DEF Acked, EmptyWire
    <2>6. Settled(p)'
        BY <2>1, <2>4, <2>5 DEF Settled, Acked
    <2>7. Wires(p)'
        BY <2>1, <2>3, <2>4, <2>6 DEF Wires, Linked, Transfers
    <2> QED
        BY <2>2, <2>7 DEF WireInv
<1> QED
    BY <1>2, <1>3, <1>4, <1>5, <1>6, <1>7, <1>8, <1>9, <1>10

\* WireInv is kept by the steps of a Replica.
LEMMA WiresReplica ==
    ASSUME TypeInv, FreshInv, CmInv, RoundInv, WireInv, NEW r \in Replica,
           \/ ReplicaConnect(r) \/ HandshakeStep(r)
           \/ CellStep(r) \/ CommandStep(r) \/ OnlineStep(r)
           \/ ReplicaResolveRoute(r) \/ ReplicaRdmaConnect(r) \/ ReplicaEstablished(r)
           \/ FinishedStep(r) \/ ReplicaSendAck(r) \/ ReplicaSendDone(r) \/ ChunkStep(r)
           \/ BreakStep(r)
    PROVE  WireInv'
<1>0. TypeOK /\ pr \in PrimaryRdma /\ pr.sent \in Nat /\ pr.acked \in Nat
      /\ wire \in [Replica -> Wire] /\ Wires(r) /\ ConnPhase(r) /\ CmLife(r) /\ BothHear(r)
      /\ rr[r] \in ReplicaRdma /\ rr[r].bytes \in Nat /\ rr[r].acked \in Nat
    BY DEF TypeInv, TypeOK, PrimaryRdma, WireInv, CmInv, ReplicaRdma
<1>1. ASSUME Alone(r), snapFile' = snapFile, pr' = pr, wire'[r] = wire[r],
             rr'[r].conn = rr[r].conn, rr'[r].est = rr[r].est,
             rr'[r].bytes = rr[r].bytes, rr'[r].acked = rr[r].acked,
             Hurt(rr[r].cm) => Hurt(rr'[r].cm)
      PROVE  WireInv'
    <2>1. Wires(r)'
        BY <1>1, WiresKept
    <2> QED
        BY <1>1, <2>1, WiresAlone
<1>2. CASE ReplicaConnect(r)
    BY <1>0, <1>1, <1>2, ConnectEffect DEF PrimaryKept
<1>3. CASE HandshakeStep(r)
    <2>1. CASE PongTaken(r)
        BY <1>1, <1>3, <2>1 DEF HandshakeStep, PongTaken, PrimaryKept
    <2>2. CASE ResyncTaken(r, Head(tcp[r].p2r))
        <3>1. /\ Alone(r) /\ snapFile' = snapFile /\ pr' = pr /\ wire'[r] = wire[r]
              /\ rm[r].state = "HANDSHAKE" /\ ~rr[r].conn
            BY <1>3, <2>2 DEF HandshakeStep, ResyncTaken, PrimaryKept
        <3>2. pr.conn # r
            BY <1>0, <3>1 DEF ConnPhase, Early
        <3>3. Wires(r)'
            BY <1>0, <3>1, <3>2 DEF Wires, Linked
        <3> QED
            BY <3>1, <3>3, WiresAlone
    <2> QED
        BY <1>3, <2>1, <2>2 DEF HandshakeStep
<1>4. CASE CellStep(r) \/ CommandStep(r) \/ OnlineStep(r)
    <2>1. Alone(r) /\ PrimaryKept /\ TokenTaken(r)
        BY <1>4 DEF CellStep, CommandStep, OnlineStep, Follows
    <2> QED
        BY <1>1, <2>1 DEF TokenTaken, PrimaryKept
<1>5. CASE ReplicaResolveRoute(r)
    <2>1. /\ Alone(r) /\ PrimaryKept /\ UNCHANGED <<pr, rm, rs, tcp, wire>>
          /\ rr[r].conn /\ rr[r].cm \in Seq(CmEvent) /\ rr[r].cm # <<>>
          /\ Head(rr[r].cm) = "ADDR_RESOLVED"
          /\ rr'[r].conn /\ rr'[r].est = rr[r].est
          /\ rr'[r].cm = Append(Tail(rr[r].cm), "ROUTE_RESOLVED")
          /\ TransferKept(r)
        BY <1>0, <1>5, ResolveEffect
    <2>2. Hurt(Append(Tail(rr[r].cm), "ROUTE_RESOLVED"))
        <3> DEFINE rest == Tail(rr[r].cm)
                   longer == Append(rest, "ROUTE_RESOLVED")
        <3>1. rest \in Seq(CmEvent)
            BY <2>1
        <3> HIDE DEF rest
        <3>2. /\ Len(longer) = Len(rest) + 1 /\ Len(rest) \in Nat
              /\ longer[Len(rest) + 1] = "ROUTE_RESOLVED"
            BY <3>1
        <3> HIDE DEF longer
        <3>3. Len(rest) + 1 \in 1 .. Len(longer)
            BY <3>2
        <3>4. Hurt(longer)
            BY <3>2, <3>3 DEF Hurt
        <3> QED
            BY <3>4 DEF longer, rest
    <2>3. Hurt(rr'[r].cm)
        BY <2>1, <2>2
    <2> QED
        BY <1>1, <2>1, <2>3 DEF TransferKept, PrimaryKept
<1>6. CASE ReplicaRdmaConnect(r)
    <2>1. /\ Alone(r) /\ UNCHANGED <<snapFile, pr, wire>>
          /\ rr[r].conn /\ rr[r].cm \in Seq(CmEvent) /\ rr[r].cm # <<>>
          /\ Head(rr[r].cm) = "ROUTE_RESOLVED"
          /\ rr'[r].conn /\ rr'[r].est = rr[r].est /\ TransferKept(r)
        BY <1>0, <1>6, RdmaConnectEffect
    <2>2. pr.conn # r
        <3>1. 1 \in 1 .. Len(rr[r].cm) /\ rr[r].cm[1] = "ROUTE_RESOLVED"
            BY <2>1
        <3> QED
            BY <1>0, <2>1, <3>1 DEF CmLife, CmResolves, CmWaits, CmAccepted, CmUp, Ends
    <2>3. Wires(r)'
        BY <1>0, <2>1, <2>2 DEF Wires, Linked
    <2> QED
        BY <2>1, <2>3, WiresAlone
<1>7. CASE ReplicaEstablished(r)
    <2>1. /\ Alone(r) /\ snapFile' = snapFile /\ pr' = pr
          /\ MessageSent(r, [kind |-> "READY", n |-> rm[r].syncId])
          /\ rr[r].conn /\ rr[r].cm \in Seq(CmEvent) /\ rr[r].cm # <<>>
          /\ Head(rr[r].cm) = "ESTABLISHED"
          /\ rr'[r].conn /\ rr'[r].est
          /\ rr'[r].cm = Tail(rr[r].cm) /\ TransferKept(r)
        BY <1>0, <1>7, ReplicaEstablishedEffect DEF PrimaryKept
    <2>2. ~rr[r].est
        <3>1. 1 \in 1 .. Len(rr[r].cm) /\ rr[r].cm[1] = "ESTABLISHED"
            BY <2>1
        <3> QED
            BY <1>0, <2>1, <3>1 DEF CmLife, CmResolves, CmWaits, CmAccepted, CmUp, Ends
    <2>3. CASE pr.conn # r
        <3>1. Wires(r)'
            BY <1>0, <2>1, <2>3 DEF Wires, Linked, MessageSent
        <3> QED
            BY <2>1, <3>1, WiresAlone
    <2>4. CASE pr.conn = r
        <3>1. /\ NotStarted(r) /\ wire[r].rp = <<>>
              /\ pr.discPending => rr[r].bytes = pr.sent /\ rr[r].acked = pr.sent
            BY <1>0, <2>1, <2>2, <2>4 DEF Wires, Linked, Transfers, NotStarted
        <3> DEFINE msg == [kind |-> "READY", n |-> rm[r].syncId]
        <3>2. Append(wire[r].rp, msg) = <<msg>>
            BY <3>1
        <3> HIDE DEF msg
        <3>3. wire'[r] = [pr |-> wire[r].pr, rp |-> <<msg>>]
            BY <2>1, <2>4, <3>2 DEF MessageSent, msg
        <3>4. wire'[r].pr = <<>> /\ Len(wire'[r].rp) = 1
            BY <3>1, <3>3 DEF NotStarted
        <3>5. NotStarted(r)'
            BY <2>1, <3>1, <3>4 DEF NotStarted, TransferKept
        <3>6. Wires(r)'
            BY <2>1, <2>4, <3>1, <3>5 DEF Wires, Linked, Transfers, TransferKept
        <3> QED
            BY <2>1, <3>6, WiresAlone
    <2> QED
        BY <2>3, <2>4
<1>8. CASE FinishedStep(r)
    <2>1. Alone(r) /\ snapFile' = snapFile /\ pr' = pr /\ rr'[r] = NoReplicaRdma /\ wire'[r] = EmptyWire
        BY <1>8 DEF FinishedStep, PrimaryKept
    <2>2. Wires(r)'
        BY <2>1 DEF Wires, Linked, NoReplicaRdma
    <2> QED
        BY <2>1, <2>2, WiresAlone
<1>9. CASE ReplicaSendAck(r)
    <2>1. /\ Alone(r) /\ snapFile' = snapFile /\ pr' = pr
          /\ MessageSent(r, [kind |-> "SNAPSHOT_ACK", n |-> rr[r].bytes])
          /\ rr[r].conn /\ rr[r].est /\ rr[r].cm = <<>> /\ rr[r].bytes > rr[r].acked
          /\ rr'[r].conn /\ rr'[r].est = rr[r].est
          /\ rr'[r].cm = rr[r].cm /\ rr'[r].bytes = rr[r].bytes
          /\ rr'[r].acked = rr[r].bytes
        BY <1>0, <1>9, SendAckEffect DEF PrimaryKept
    <2>2. CASE pr.conn # r
        <3>1. Wires(r)'
            BY <1>0, <2>1, <2>2 DEF Wires, Linked, MessageSent
        <3> QED
            BY <2>1, <3>1, WiresAlone
    <2>3. CASE pr.conn = r
        <3>1. ~Hurt(rr[r].cm)
            BY <2>1 DEF Hurt
        <3>2. Arrived(r) /\ pr.sent > 0 /\ ~pr.discPending
            BY <1>0, <2>1, <2>3, <3>1 DEF Wires, Linked, Transfers, NotStarted, Cut, InFlight,
                                          Acked, Settled
        <3>3. wire[r].rp = <<>> /\ wire[r].pr = <<>> /\ rr[r].bytes = pr.sent
            BY <3>2 DEF Arrived, EmptyWire
        <3> DEFINE msg == [kind |-> "SNAPSHOT_ACK", n |-> rr[r].bytes]
        <3>4. Append(wire[r].rp, msg) = <<msg>>
            BY <3>3
        <3>5. msg = [kind |-> "SNAPSHOT_ACK", n |-> pr.sent]
            BY <3>3
        <3> HIDE DEF msg
        <3>6. wire'[r] = [pr |-> <<>>, rp |-> <<msg>>]
            BY <2>1, <2>3, <3>3, <3>4 DEF MessageSent, msg
        <3>7. Acked(r)'
            BY <2>1, <3>2, <3>3, <3>5, <3>6 DEF Acked, Arrived
        <3>8. Wires(r)'
            BY <2>1, <2>3, <3>2, <3>7 DEF Wires, Linked, Transfers
        <3> QED
            BY <2>1, <3>8, WiresAlone
    <2> QED
        BY <2>2, <2>3
<1>10. CASE ReplicaSendDone(r)
    <2>1. /\ Alone(r) /\ PrimaryKept /\ UNCHANGED <<pr, wire>>
          /\ rr'[r].conn = rr[r].conn /\ rr'[r].est = rr[r].est
          /\ rr'[r].cm = rr[r].cm /\ TransferKept(r)
        BY <1>0, <1>10, ReplicaSendDoneEffect
    <2> QED
        BY <1>1, <2>1 DEF TransferKept, PrimaryKept
<1>11. CASE ChunkStep(r)
    <2>1. PICK got : got = Head(wire[r].pr)
        OBVIOUS
    <2>2. /\ Alone(r) /\ snapFile' = snapFile /\ pr' = pr
          /\ rr[r].conn /\ rr[r].est /\ rr[r].cm = <<>> /\ wire[r].pr # <<>>
          /\ rr'[r].conn = rr[r].conn /\ rr'[r].est = rr[r].est
          /\ rr'[r].cm = rr[r].cm /\ rr'[r].acked = rr[r].acked
          /\ rr'[r].bytes = rr[r].bytes + Len(got)
          /\ wire'[r] = [pr |-> Tail(wire[r].pr), rp |-> wire[r].rp]
        BY <1>11, <2>1 DEF ChunkStep, ChunkTaken, PrimaryKept
    <2>3. Linked(r) /\ InFlight(r) /\ pr.sent > 0
        BY <1>0, <2>2 DEF Wires, Linked, Transfers, NotStarted, Cut, Arrived,
                          Acked, Settled, EmptyWire
    <2>4. PICK chunk \in Seq(SnapCell) :
          /\ wire[r].pr = <<chunk>> /\ wire[r].rp = <<>>
          /\ Len(chunk) > 0 /\ pr.sent = rr[r].bytes + Len(chunk)
        BY <2>3 DEF InFlight
    <2>5. got = chunk /\ Tail(wire[r].pr) = <<>> /\ Len(chunk) \in Nat
        <3>1. Head(<<chunk>>) = chunk /\ Tail(<<chunk>>) = <<>>
            OBVIOUS
        <3> QED
            BY <2>1, <2>4, <3>1
    <2>6. wire'[r] = EmptyWire
        BY <2>2, <2>4, <2>5 DEF EmptyWire
    <2>7. Arrived(r)'
        BY <1>0, <2>2, <2>3, <2>4, <2>5, <2>6 DEF Arrived, InFlight
    <2>8. ~pr.discPending
        BY <1>0, <2>3, <2>4, <2>5 DEF Wires, Transfers, InFlight
    <2>9. Wires(r)'
        BY <2>2, <2>3, <2>7, <2>8 DEF Wires, Linked, Transfers
    <2> QED
        BY <2>2, <2>9, WiresAlone
<1>12. CASE BreakStep(r)
    <2>1. /\ pr.conn = r /\ rr[r].conn /\ Alone(r) /\ snapFile' = snapFile
          /\ pr'.conn = pr.conn /\ pr'.sent = pr.sent
          /\ pr'.acked = pr.acked /\ pr'.discPending = pr.discPending
          /\ rr' = NotifyReplica(r, "DISCONNECTED")
          /\ wire'[r] = EmptyWire
        BY <1>12 DEF BreakStep, PrimaryKept
    <2>2. /\ rr'[r].conn = rr[r].conn /\ rr'[r].est = rr[r].est
          /\ rr'[r].bytes = rr[r].bytes /\ rr'[r].acked = rr[r].acked
        BY <1>0, <2>1, WiresNotified
    <2>3. Hurt(rr'[r].cm)
        <3> DEFINE longer == Append(rr[r].cm, "DISCONNECTED")
        <3>1. rr[r].cm \in Seq(CmEvent)
            BY <1>0 DEF ReplicaRdma
        <3>2. Hurt(longer)
            BY <3>1, EventQueues
        <3>3. rr'[r] = [rr[r] EXCEPT !.cm = longer]
            BY <1>0, <2>1, ReplicationAssumption DEF NotifyReplica, TypeOK
        <3> HIDE DEF longer
        <3> QED
            BY <1>0, <3>2, <3>3 DEF ReplicaRdma
    <2>4. Transfers(r)
        BY <1>0, <2>1 DEF Wires, Linked
    <2>5. NotStarted(r) => NotStarted(r)'
        BY <2>1, <2>2 DEF NotStarted, EmptyWire
    <2>6. Cut(r)'
        BY <2>1, <2>3 DEF Cut
    <2>7. Transfers(r)'
        BY <2>1, <2>2, <2>4, <2>5, <2>6 DEF Transfers
    <2>8. Wires(r)'
        BY <2>1, <2>2, <2>7 DEF Wires, Linked
    <2> QED
        BY <2>1, <2>8, WiresAlone
<1> QED
    BY <1>2, <1>3, <1>4, <1>5, <1>6, <1>7, <1>8, <1>9, <1>10, <1>11, <1>12

\* WireInv is kept by every step.
LEMMA WiresStep ==
    ASSUME TypeInv, FreshInv, CmInv, RoundInv, WireInv, AnyStep
    PROVE  WireInv'
<1>0. TypeOK /\ pr \in PrimaryRdma /\ wire \in [Replica -> Wire]
    BY DEF TypeInv, TypeOK
<1>1. ASSUME UNCHANGED <<snapFile, wire, rr, pr>> PROVE WireInv'
    <2> SUFFICES ASSUME NEW q \in Replica PROVE Wires(q)'
        BY DEF WireInv
    <2> QED
        BY <1>1, WiresKept
<1>2. ASSUME NEW r \in Replica \cup {NoConn}, DropStep(r) PROVE WireInv'
    <2>1. DropReplica(r) /\ snapFile' = snapFile
        BY <1>2 DEF DropStep
    <2>2. CASE pm.conn # r
        BY <1>1, <2>1, <2>2 DEF DropReplica
    <2>3. CASE pm.conn = r
        <3>1. /\ pr' = NoPrimaryRdma
              /\ \A q \in Replica : wire'[q] = IF q = pr.conn THEN EmptyWire ELSE wire[q]
            BY <1>0, <2>1, <2>3, DropReplicaEffect
        <3>2. ASSUME NEW q \in Replica PROVE wire'[q] = EmptyWire
            BY <3>1 DEF WireInv, Wires, Linked
        <3>3. pr'.conn = NoConn
            BY <3>1 DEF NoPrimaryRdma
        <3> QED
            BY <3>2, <3>3, WiresGone, ReplicationAssumption DEF Linked, WireInv
    <2> QED
        BY <2>2, <2>3
<1>3. ASSUME NEW r \in Replica, NEW store, HangUpStep(r, store) PROVE WireInv'
    <2>1. DropPrimary(r, store) /\ snapFile' = snapFile
        BY <1>3 DEF HangUpStep, PrimaryKept
    <2>2. Alone(r) /\ rr'[r] = NoReplicaRdma /\ wire'[r] = EmptyWire
        BY <1>0, <2>1, DropPrimaryEffect DEF Alone
    <2>3. /\ pr'.conn = pr.conn /\ pr'.sent = pr.sent /\ pr'.acked = pr.acked
          /\ pr'.discPending = pr.discPending
        <3> DEFINE longer == Append(pr.cm, "DISCONNECTED")
        <3>1. pr' = pr \/ pr' = [pr EXCEPT !.cm = longer]
            BY <2>1 DEF DropPrimary, NotifyPrimary
        <3> HIDE DEF longer
        <3> QED
            BY <1>0, <3>1 DEF PrimaryRdma
    <2>4. Wires(r)'
        BY <2>2 DEF Wires, Linked, NoReplicaRdma
    <2> QED
        BY <2>1, <2>2, <2>3, <2>4, WiresAlone
<1>4. ASSUME NEW r \in Replica, PingStep(r) PROVE WireInv'
    BY <1>1, <1>4 DEF PingStep
<1>5. ASSUME NEW r \in Replica, PsyncStep(r) PROVE WireInv'
    <2>1. pr.conn = NoConn /\ UNCHANGED <<pr, rr, wire>>
        BY <1>5 DEF PsyncStep
    <2>2. ASSUME NEW q \in Replica PROVE Wires(q)'
        BY <2>1, <2>2, WiresKept, ReplicationAssumption
    <2> QED
        BY <2>2 DEF WireInv
<1>6. CASE PrimaryRestart
    <2>1. pr'.conn = NoConn
        BY <1>6 DEF PrimaryRestart, NoPrimaryRdma
    <2>2. ASSUME NEW q \in Replica PROVE wire'[q] = EmptyWire
        BY <1>0, <1>6, <2>2, RestartEffect
    <2> QED
        BY <2>1, <2>2, WiresGone, ReplicationAssumption DEF Linked, WireInv
<1>7. ASSUME NEW c \in Command, ClientWrite(c) PROVE WireInv'
    BY <1>1, <1>7 DEF ClientWrite
<1>8. CASE UNCHANGED vars
    BY <1>1, <1>8 DEF vars
<1> QED
    BY <1>2, <1>3, <1>4, <1>5, <1>6, <1>7, <1>8, WiresPrimary, WiresReplica DEF AnyStep

\* Nothing is on the wires at first.
LEMMA WiresInit == Init => WireInv
<1> SUFFICES ASSUME Init PROVE WireInv
    OBVIOUS
<1>1. \A r \in Replica : wire[r] = EmptyWire /\ ~Linked(r)
    BY ReplicationAssumption DEF Init, NoPrimaryRdma, NoReplicaRdma, Linked
<1> QED
    BY <1>1 DEF WireInv, Wires

\* What the invariants say of the posted receives.
LEMMA ReceiversPosted ==
    ASSUME TypeInv, CmInv, RoundInv, WireInv PROVE ReceiverReady
<1> SUFFICES ASSUME NEW r \in Replica
             PROVE  /\ Len(wire[r].pr) <= 1
                    /\ wire[r].pr # <<>> => rr[r].recvPosted
                    /\ Len(wire[r].rp) <= 1
                    /\ wire[r].rp # <<>> => pr.conn = r /\ pr.recvPosted
    BY DEF ReceiverReady
<1>1. CASE ~Linked(r)
    <2>1. wire[r].pr = <<>> /\ wire[r].rp = <<>>
        BY <1>1 DEF WireInv, Wires, EmptyWire
    <2> QED
        BY <2>1
<1>2. CASE Linked(r)
    <2>1. pr.conn = r /\ rr[r].conn /\ pr.recvPosted /\ Transfers(r) /\ CmLife(r)
        BY <1>2, ReplicationAssumption DEF WireInv, Wires, Linked, RoundInv, SlotShape, CmInv
    <2>2. rr[r].est => rr[r].recvPosted
        BY <2>1 DEF CmLife, CmResolves, CmWaits, CmAccepted, CmUp
    <2>3. CASE NotStarted(r)
        <3>1. wire[r].pr = <<>> /\ (wire[r].rp = <<>> \/ Len(wire[r].rp) = 1)
            BY <2>3 DEF NotStarted
        <3>2. Len(wire[r].pr) = 0 /\ Len(wire[r].rp) \in {0, 1}
            BY <3>1
        <3>3. Len(wire[r].pr) <= 1 /\ Len(wire[r].rp) <= 1
            <4>1. \A n : n \in {0, 1} => n <= 1
                OBVIOUS
            <4> QED
                BY <3>2, <4>1
        <3>4. pr.conn = r /\ pr.recvPosted
            BY <2>1
        <3> QED
            BY <3>1, <3>3, <3>4
    <2>4. CASE rr[r].est /\ wire[r] = EmptyWire
        BY <2>4 DEF EmptyWire
    <2>5. CASE rr[r].est /\ InFlight(r)
        <3>1. PICK chunk \in Seq(SnapCell) : wire[r].pr = <<chunk>> /\ wire[r].rp = <<>>
            BY <2>5 DEF InFlight
        <3> QED
            BY <2>2, <2>5, <3>1
    <2>6. CASE rr[r].est /\ Acked(r)
        BY <2>1, <2>6 DEF Acked
    <2> QED
        BY <2>1, <2>3, <2>4, <2>5, <2>6 DEF Transfers, Cut, Arrived, Settled
<1> QED
    BY <1>1, <1>2

-----------------------------------------------------------------------------
(* The file a Replica receives.                                             *)

\* What a Replica has written is a part of the snapshot it was announced, and
\* the writer waits for the rest.  A round that still holds the slot for this
\* Replica is the one it was announced.
Receives(r) ==
    /\ tcp[r].p2r = <<>>
    /\ Boundary(rm[r].offset)
    /\ rm[r].fileSize = SnapSize
    /\ rr[r].bytes = Len(rs[r].tmp) /\ Len(rs[r].tmp) < SnapSize
    /\ rm[r].writer = SnapSize - Len(rs[r].tmp)
    /\ rs[r].tmp = SubSeq(SnapshotAt(rm[r].offset), 1, Len(rs[r].tmp))
    /\ pm.conn = r => pm.state = "FULL_SYNC" /\ pm.offset = rm[r].offset

\* An installed snapshot is the one that was announced.
Holds(r) ==
    /\ Boundary(rm[r].offset)
    /\ rs[r].snapDb = SnapshotAt(rm[r].offset)
    /\ pm.conn = r /\ pm.state = "FULL_SYNC" => pm.offset = rm[r].offset

Files(r) ==
    /\ rm[r].state = "FULL_SYNC" => Receives(r)
    /\ rm[r].state = "CATCH_UP" /\ rr[r].conn => Holds(r)

FileInv == \A r \in Replica : Files(r)

\* A snapshot stays what it is while the log grows.
LEMMA SnapshotStays ==
    ASSUME Grows, NEW o, Boundary(o)
    PROVE  Boundary(o)' /\ SnapshotOf(hist'[o + 1], o) = SnapshotAt(o)
<1>1. o \in Nat /\ o <= Len(aof) /\ Boundary(o)'
    BY DEF Boundary, Grows
<1>2. hist'[o + 1] = hist[o + 1]
    BY <1>1 DEF Grows
<1> QED
    BY <1>1, <1>2 DEF SnapshotAt

\* A step that leaves the file of q as it is.
LEMMA FilesKept ==
    ASSUME FileInv, Grows, NEW q \in Replica,
           rm'[q] = rm[q], rs'[q] = rs[q],
           rm[q].state = "FULL_SYNC" => tcp'[q].p2r = tcp[q].p2r,
           rr'[q].conn => rr[q].conn, rr'[q].bytes = rr[q].bytes,
           pm'.conn = q /\ (rm[q].state = "FULL_SYNC" \/ pm'.state = "FULL_SYNC") =>
              pm.conn = q /\ pm'.state = pm.state /\ pm'.offset = pm.offset
    PROVE  Files(q)'
<1>1. Files(q)
    BY DEF FileInv
<1>2. ASSUME rm[q].state = "FULL_SYNC" PROVE Receives(q)'
    <2>1. Receives(q)
        BY <1>1, <1>2 DEF Files
    <2>2. Boundary(rm[q].offset)' /\ SnapshotAt(rm[q].offset)' = SnapshotAt(rm[q].offset)
        BY <2>1, SnapshotStays DEF Receives, SnapshotAt
    <2> QED
        BY <1>2, <2>1, <2>2 DEF Receives
<1>3. ASSUME rm[q].state = "CATCH_UP", rr[q].conn PROVE Holds(q)'
    <2>1. Holds(q)
        BY <1>1, <1>3 DEF Files
    <2>2. Boundary(rm[q].offset)' /\ SnapshotAt(rm[q].offset)' = SnapshotAt(rm[q].offset)
        BY <2>1, SnapshotStays DEF Holds, SnapshotAt
    <2> QED
        BY <2>1, <2>2 DEF Holds
<1> QED
    BY <1>2, <1>3 DEF Files

\* A Replica that neither receives nor holds a connection.
LEMMA FilesIdle ==
    ASSUME NEW q \in Replica, rm'[q].state # "FULL_SYNC",
           rm'[q].state # "CATCH_UP" \/ ~rr'[q].conn
    PROVE  Files(q)'
    BY DEF Files

\* A step of Replica r leaves the files of the others alone.
LEMMA FilesAlone ==
    ASSUME FileInv, Grows, NEW r \in Replica, Alone(r), pm' = pm, Files(r)'
    PROVE  FileInv'
<1>1. ASSUME NEW q \in Replica, q # r PROVE Files(q)'
    <2>1. Unmoved(q)
        BY <1>1 DEF Alone
    <2> QED
        BY <2>1, FilesKept DEF Unmoved
<1> QED
    BY <1>1 DEF FileInv

\* Two neighbouring blocks of a file are one block of it.
LEMMA BlocksJoin ==
    ASSUME NEW S, NEW s \in Seq(S), NEW m \in Nat, NEW n \in Nat, m + n <= Len(s)
    PROVE  SubSeq(s, 1, m) \o SubSeq(s, m + 1, m + n) = SubSeq(s, 1, m + n)
<1> DEFINE a == SubSeq(s, 1, m)
           b == SubSeq(s, m + 1, m + n)
           c == SubSeq(s, 1, m + n)
<1>1. a \in Seq(S) /\ Len(a) = m /\ \A i \in 1 .. m : a[i] = s[i]
    OBVIOUS
<1>2. b \in Seq(S) /\ Len(b) = n /\ \A i \in 1 .. n : b[i] = s[m + i]
    BY SubSeqType
<1>3. c \in Seq(S) /\ Len(c) = m + n /\ \A i \in 1 .. m + n : c[i] = s[i]
    OBVIOUS
<1> HIDE DEF a, b, c
<1> DEFINE ab == a \o b
<1>4. /\ ab \in Seq(S) /\ Len(ab) = m + n
      /\ \A i \in 1 .. m : ab[i] = a[i]
      /\ \A i \in 1 .. n : ab[m + i] = b[i]
    <2>1. /\ ab \in Seq(S) /\ Len(ab) = Len(a) + Len(b)
          /\ \A i \in 1 .. Len(a) : ab[i] = a[i]
          /\ \A i \in 1 .. Len(b) : ab[Len(a) + i] = b[i]
        <3>1. a \in Seq(S) /\ b \in Seq(S)
            BY <1>1, <1>2
        <3> QED
            BY <3>1, ConcatFacts
    <2> HIDE DEF ab
    <2> QED
        BY <1>1, <1>2, <2>1
<1> HIDE DEF ab
<1>5. ASSUME NEW i \in 1 .. m + n PROVE ab[i] = c[i]
    <2>1. CASE i <= m
        BY <1>1, <1>3, <1>4, <2>1
    <2>2. CASE i > m
        <3>1. i - m \in 1 .. n /\ m + (i - m) = i
            BY <2>2
        <3>2. ab[i] = b[i - m] /\ b[i - m] = s[i]
            BY <1>2, <1>4, <3>1
        <3> QED
            BY <1>3, <3>2
    <2> QED
        BY <2>1, <2>2
<1>6. ab = c
    BY <1>3, <1>4, <1>5
<1> QED
    BY <1>6 DEF a, b, c, ab

\* The chunk that is on its way to a Replica continues what it has written.
LEMMA ChunkContinues ==
    ASSUME TypeInv, SlotInv, LogInv, RoundInv, WireInv, FileInv, NEW r \in Replica,
           rm[r].state = "FULL_SYNC", wire[r].pr # <<>>
    PROVE  \E chunk \in Seq(SnapCell) :
              /\ wire[r].pr = <<chunk>> /\ chunk = Head(wire[r].pr) /\ Len(chunk) > 0
              /\ Len(rs[r].tmp) + Len(chunk) <= SnapSize
              /\ rs[r].tmp \o chunk
                    = SubSeq(SnapshotAt(rm[r].offset), 1, Len(rs[r].tmp) + Len(chunk))
              /\ pm.conn = r /\ pm.state = "FULL_SYNC" /\ pr.conn = r
<1>1. Linked(r) /\ InFlight(r) /\ pr.sent > 0
    BY DEF WireInv, Wires, Transfers, NotStarted, Cut, Arrived, Acked, Settled, EmptyWire
<1>2. pm.conn = r /\ pr.conn = r /\ pm.state = "FULL_SYNC"
    BY <1>1, ReplicationAssumption
    DEF SlotInv, SnapshotToSlotOwner, Linked, RoundInv, SlotShape
<1>3. Receives(r) /\ pm.offset = rm[r].offset /\ snapFile = SnapshotAt(rm[r].offset)
    BY <1>2 DEF FileInv, Files, Receives, RoundInv, RoundFile
<1>4. PICK chunk \in Seq(SnapCell) :
          /\ wire[r].pr = <<chunk>>
          /\ Len(chunk) > 0 /\ rr[r].bytes + Len(chunk) <= SnapSize
          /\ chunk = SubSeq(snapFile, rr[r].bytes + 1, rr[r].bytes + Len(chunk))
    BY <1>1 DEF InFlight
<1>5. chunk = Head(wire[r].pr)
    BY <1>4
<1>6. snapFile \in Seq(SnapCell) /\ Len(snapFile) = SnapSize
    <2>1. rm[r].offset \in Nat /\ rm[r].offset <= Len(aof) /\ aof \in Seq(Cell) /\ hist \in Seq(Database)
        BY <1>3 DEF Receives, Boundary, TypeInv, TypeOK
    <2>2. hist[rm[r].offset + 1] \in Database
        BY <2>1 DEF LogInv
    <2> QED
        BY <1>3, <2>1, <2>2, SnapshotOfType DEF SnapshotAt
<1>7. rr[r].bytes = Len(rs[r].tmp) /\ Len(rs[r].tmp) \in Nat /\ Len(chunk) \in Nat
    <2>1. rs[r].tmp \in Seq(SnapCell)
        BY DEF TypeInv, TypeOK, ReplicaStore
    <2> QED
        BY <1>3, <2>1 DEF Receives
<1>8. rs[r].tmp = SubSeq(snapFile, 1, Len(rs[r].tmp))
    BY <1>3 DEF Receives
<1>9. SubSeq(snapFile, 1, Len(rs[r].tmp)) \o
         SubSeq(snapFile, Len(rs[r].tmp) + 1, Len(rs[r].tmp) + Len(chunk))
         = SubSeq(snapFile, 1, Len(rs[r].tmp) + Len(chunk))
    BY <1>4, <1>6, <1>7, BlocksJoin
<1>10. rs[r].tmp \o chunk = SubSeq(snapFile, 1, Len(rs[r].tmp) + Len(chunk))
    BY <1>4, <1>7, <1>8, <1>9
<1> QED
    BY <1>2, <1>3, <1>4, <1>5, <1>7, <1>10

\* The whole of a snapshot.
LEMMA WholeSnapshot ==
    ASSUME NEW d \in Database, NEW o \in Nat
    PROVE  /\ SubSeq(SnapshotOf(d, o), 1, SnapSize) = SnapshotOf(d, o)
           /\ SnapshotOf(d, o)[1].db = d /\ SnapshotOf(d, o)[1].off = o
           /\ Loadable(SnapshotOf(d, o))
<1>1. SnapSize \in Nat /\ SnapSize > 0
    BY ReplicationAssumption
<1> DEFINE s == SnapshotOf(d, o)
<1>2. s \in Seq(SnapCell) /\ Len(s) = SnapSize
    BY SnapshotOfType
<1>3. s[1].db = d /\ s[1].off = o
    BY <1>1 DEF SnapshotOf
<1> HIDE DEF s
<1>4. SubSeq(s, 1, SnapSize) = s
    BY <1>1, <1>2
<1>5. s # <<>>
    BY <1>1, <1>2
<1>6. s = SnapshotOf(s[1].db, s[1].off)
    BY <1>3 DEF s
<1>7. Loadable(s)
    BY <1>5, <1>6 DEF Loadable
<1> QED
    BY <1>3, <1>4, <1>7 DEF s

\* A chunk is written; after the last one the snapshot is the announced one,
\* and engine and AOF are set to it.
LEMMA ChunkStored ==
    ASSUME TypeInv, SlotInv, LogInv, RoundInv, WireInv, FileInv, NEW r \in Replica,
           ChunkStep(r)
    PROVE  /\ Boundary(rm[r].offset) /\ rm'[r].offset = rm[r].offset
           /\ pm.conn = r /\ pm.state = "FULL_SYNC" /\ pm.offset = rm[r].offset
           /\ tcp[r].p2r = <<>>
           /\ \/ rm'[r].state = "FULL_SYNC" /\ Receives(r)'
              \/ /\ rm'[r].state = "CATCH_UP" /\ Holds(r)'
                 /\ rs'[r].db = hist[rm[r].offset + 1]
                 /\ rs'[r].buf = rs[r].buf
                 /\ rs'[r].aof = ResetToOffset(rs[r].aof, rm[r].offset)
<1> DEFINE o == rm[r].offset
           got == Head(wire[r].pr)
           whole == SnapshotAt(o)
<1>1. /\ Alone(r) /\ PrimaryKept
      /\ rr[r].conn /\ rr[r].est /\ wire[r].pr # <<>> /\ rm[r].state = "FULL_SYNC"
      /\ ChunkTaken(r, got)
      /\ ChunkWritten(r, got) \/ ChunkInstalled(r, got)
    BY DEF ChunkStep, ChunkTaken
<1>2. PICK chunk \in Seq(SnapCell) :
      /\ chunk = got /\ Len(chunk) > 0
      /\ Len(rs[r].tmp) + Len(chunk) <= SnapSize
      /\ rs[r].tmp \o chunk = SubSeq(whole, 1, Len(rs[r].tmp) + Len(chunk))
      /\ pm.conn = r /\ pm.state = "FULL_SYNC"
    BY <1>1, ChunkContinues
<1>3. Receives(r) /\ pm.offset = o
    BY <1>1, <1>2 DEF FileInv, Files, Receives
<1>4. /\ o \in Nat /\ o <= Len(aof) /\ hist[o + 1] \in Database
    <2>1. o \in Nat /\ o <= Len(aof) /\ aof \in Seq(Cell) /\ hist \in Seq(Database)
        BY <1>3 DEF Receives, Boundary, TypeInv, TypeOK
    <2> QED
        BY <2>1 DEF LogInv
<1>5. /\ rs[r] \in ReplicaStore /\ rs[r].tmp \in Seq(SnapCell)
      /\ Len(rs[r].tmp) \in Nat /\ Len(chunk) \in Nat /\ SnapSize \in Nat
    BY ReplicationAssumption DEF TypeInv, TypeOK, ReplicaStore
<1>6. Boundary(o)' /\ SnapshotAt(rm[r].offset)' = whole
    <2>1. rm'[r].offset = o /\ aof' = aof /\ hist' = hist
        BY <1>1 DEF ChunkTaken, PrimaryKept
    <2> QED
        BY <1>3, <2>1 DEF Receives, Boundary, SnapshotAt
<1> DEFINE file == rs[r].tmp \o chunk
<1>7. file \in Seq(SnapCell) /\ Len(file) = Len(rs[r].tmp) + Len(chunk)
    BY <1>5, ConcatFacts
<1>12. file = SubSeq(whole, 1, Len(rs[r].tmp) + Len(chunk))
    BY <1>2
<1>8. Written(r, chunk) = [rs[r] EXCEPT !.tmp = file]
    BY DEF Written
<1> HIDE DEF file
<1>9. /\ rm'[r].offset = o /\ rm'[r].fileSize = SnapSize /\ pm' = pm /\ tcp' = tcp
      /\ rr'[r].bytes = Len(file) /\ tcp[r].p2r = <<>>
    BY <1>1, <1>2, <1>3, <1>7 DEF ChunkTaken, PrimaryKept, Receives
<1>10. CASE ChunkWritten(r, got)
    <2>1. /\ rs'[r].tmp = file /\ rm'[r].state = "FULL_SYNC"
          /\ rm'[r].writer = rm[r].writer - Len(chunk) /\ Len(chunk) # rm[r].writer
        BY <1>2, <1>5, <1>8, <1>10 DEF ChunkWritten, ReplicaStore
    <2>2. rm[r].writer = SnapSize - Len(rs[r].tmp)
        BY <1>3 DEF Receives
    <2>3. rm'[r].writer = SnapSize - Len(file) /\ Len(file) < SnapSize
        <3>1. ASSUME NEW a \in Nat, NEW b \in Nat, NEW s \in Nat, a + b <= s, b # s - a
              PROVE  (s - a) - b = s - (a + b) /\ a + b < s
            BY <3>1
        <3> QED
            <4>1. Len(rs[r].tmp) + Len(chunk) <= SnapSize /\ Len(chunk) # SnapSize - Len(rs[r].tmp)
                BY <1>2, <2>1, <2>2
            <4>2. rm'[r].writer = (SnapSize - Len(rs[r].tmp)) - Len(chunk)
                BY <2>1, <2>2
            <4>3. /\ (SnapSize - Len(rs[r].tmp)) - Len(chunk)
                          = SnapSize - (Len(rs[r].tmp) + Len(chunk))
                  /\ Len(rs[r].tmp) + Len(chunk) < SnapSize
                BY <1>5, <3>1, <4>1
            <4> QED
                BY <1>7, <4>2, <4>3
    <2>4. file = SubSeq(whole, 1, Len(file))
        BY <1>7, <1>12
    <2>5. Receives(r)'
        BY <1>2, <1>3, <1>6, <1>9, <2>1, <2>3, <2>4 DEF Receives
    <2> QED
        BY <1>2, <1>3, <1>9, <2>1, <2>5 DEF Receives
<1>11. CASE ChunkInstalled(r, got)
    <2>1. Len(file) = SnapSize
        <3>1. Len(chunk) = rm[r].writer
            BY <1>2, <1>11 DEF ChunkInstalled
        <3> QED
            BY <1>3, <1>5, <1>7, <3>1 DEF Receives
    <2>2. file = whole
        BY <1>4, <1>7, <1>12, <2>1, WholeSnapshot DEF SnapshotAt
    <2>3. file[1].db = hist[o + 1]
        BY <1>4, <2>2, WholeSnapshot DEF SnapshotAt
    <2>4. /\ rs'[r] = Installed(r, Written(r, chunk)) /\ rm'[r].state = "CATCH_UP"
        BY <1>2, <1>11 DEF ChunkInstalled
    <2> DEFINE store == [rs[r] EXCEPT !.tmp = file]
               cut == ResetToOffset(store.aof, o)
    <2>5. rs'[r] = [store EXCEPT !.snapDb = store.tmp, !.tmp = <<>>,
                                 !.db = store.tmp[1].db, !.aof = cut]
        BY <1>8, <2>4 DEF Installed
    <2>6. store.tmp = file /\ store.aof = rs[r].aof /\ store.buf = rs[r].buf /\ store \in ReplicaStore
        BY <1>5, <1>7 DEF ReplicaStore
    <2> HIDE DEF store, cut
    <2>7. rs'[r].snapDb = file /\ rs'[r].db = file[1].db /\ rs'[r].aof = cut /\ rs'[r].buf = rs[r].buf
        BY <2>5, <2>6 DEF ReplicaStore
    <2>8. Holds(r)'
        BY <1>3, <1>6, <1>9, <2>2, <2>7 DEF Holds
    <2>9. cut = ResetToOffset(rs[r].aof, o)
        BY <2>6 DEF cut
    <2> QED
        BY <1>2, <1>3, <1>9, <2>3, <2>4, <2>7, <2>8, <2>9 DEF Receives
<1> QED
    BY <1>1, <1>10, <1>11

\* Once the Primary ends the transfer, the slot owner does not receive any more.
LEMMA AckedIsInstalled ==
    ASSUME TypeInv, SlotInv, CmInv, RoundInv, WireInv, FileInv, pr.discPending,
           NEW q \in Replica, q = pm.conn
    PROVE  rm[q].state # "FULL_SYNC"
<1> SUFFICES ASSUME rm[q].state = "FULL_SYNC" PROVE FALSE
    OBVIOUS
<1>1. Receives(q) /\ rr[q].conn
    BY DEF FileInv, Files, CmInv, ConnPhase
<1>2. pr.sent = SnapSize /\ SnapSize \in Nat /\ SnapSize > 0
    BY ReplicationAssumption DEF RoundInv, RoundEnd
<1>3. pr.conn = q
    BY <1>2 DEF SlotInv, SnapshotToSlotOwner
<1>4. rr[q].bytes = SnapSize
    BY <1>1, <1>2, <1>3 DEF WireInv, Wires, Linked, Transfers
<1>5. Len(rs[q].tmp) \in Nat
    BY DEF TypeInv, TypeOK, ReplicaStore
<1> QED
    BY <1>1, <1>2, <1>4, <1>5 DEF Receives

\* The stream is not sent to a Replica that still receives the snapshot.
LEMMA OwnerHasInstalled ==
    ASSUME TypeInv, SlotInv, CmInv, RoundInv, WireInv, FileInv, FinishStep \/ StreamStep,
           NEW q \in Replica, q = pm.conn
    PROVE  rm[q].state # "FULL_SYNC"
<1>1. CASE StreamStep
    BY <1>1 DEF StreamStep, FileInv, Files, Receives
<1>2. CASE FinishStep
    BY <1>2, AckedIsInstalled DEF FinishStep
<1> QED
    BY <1>1, <1>2

\* FileInv is kept by every step.
LEMMA FilesStep ==
    ASSUME TypeInv, SlotInv, LogInv, FreshInv, CmInv, RoundInv, LineInv, WireInv, FileInv,
           Grows, AnyStep
    PROVE  FileInv'
<1>0. TypeOK /\ pm \in PrimaryManager /\ rm \in [Replica -> ReplicaManager]
      /\ rr \in [Replica -> ReplicaRdma] /\ tcp \in [Replica -> TcpConn]
    BY DEF TypeInv, TypeOK
<1>1. ASSUME UNCHANGED <<rm, rs>>,
             \A q \in Replica : tcp'[q].p2r = tcp[q].p2r \/ rm[q].state # "FULL_SYNC",
             \A q \in Replica : rr'[q].conn = rr[q].conn /\ rr'[q].bytes = rr[q].bytes,
             \/ pm'.conn = NoConn
             \/ pm'.conn = pm.conn /\ pm'.state = pm.state /\ pm'.offset = pm.offset
      PROVE  FileInv'
    <2> SUFFICES ASSUME NEW q \in Replica PROVE Files(q)'
        BY DEF FileInv
    <2>1. q # NoConn
        BY ReplicationAssumption
    <2> QED
        BY <1>1, <2>1, FilesKept
<1>2. ASSUME NEW p, NEW e, rr' = NotifyReplica(p, e)
      PROVE  \A q \in Replica : rr'[q].conn = rr[q].conn /\ rr'[q].bytes = rr[q].bytes
    <2> TAKE q \in Replica
    <2> DEFINE longer == Append(rr[q].cm, e)
    <2>1. rr'[q] = rr[q] \/ rr'[q] = [rr[q] EXCEPT !.cm = longer]
        BY <1>0, <1>2, NotifyEffect
    <2> HIDE DEF longer
    <2> QED
        BY <1>0, <2>1 DEF ReplicaRdma
<1>3. CASE (\E c \in Command : ClientWrite(c)) \/ UNCHANGED vars
    BY <1>1, <1>3 DEF ClientWrite, vars
<1>4. ASSUME NEW r \in Replica \cup {NoConn}, DropStep(r) PROVE FileInv'
    <2>1. DropReplica(r) /\ UNCHANGED <<rm, rs>>
        BY <1>4 DEF DropStep
    <2>2. \A q \in Replica : tcp'[q].p2r = tcp[q].p2r
        BY <1>0, <2>1, DropReplicaEffect
    <2>3. CASE pm.conn # r
        BY <1>1, <2>1, <2>2, <2>3 DEF DropReplica
    <2>4. CASE pm.conn = r
        <3>1. pm' = PrimaryStarted(pm.offset) /\ rr' = NotifyReplica(pr.conn, "DISCONNECTED")
            BY <2>1, <2>4 DEF DropReplica
        <3>2. pm'.conn = NoConn
            BY <3>1 DEF PrimaryStarted
        <3> QED
            BY <1>1, <1>2, <2>1, <2>2, <3>1, <3>2
    <2> QED
        BY <2>3, <2>4
<1>5. ASSUME NEW r \in Replica, NEW store, HangUpStep(r, store) PROVE FileInv'
    <2>1. DropPrimary(r, store) /\ pm' = pm
        BY <1>5 DEF HangUpStep, PrimaryKept
    <2>2. Alone(r) /\ rm'[r].state = "DISCONNECTED"
        BY <1>0, <2>1, DropPrimaryEffect DEF Alone
    <2>3. Files(r)'
        BY <2>2, FilesIdle
    <2> QED
        BY <2>1, <2>2, <2>3, FilesAlone
<1>6. CASE PrimaryAccept
    <2>1. PICK h : h = Head(listenQ)
        OBVIOUS
    <2>2. rr' = NotifyReplica(h, "ESTABLISHED") /\ UNCHANGED <<pm, rm, rs, tcp>>
        BY <1>0, <1>6, <2>1, AcceptEffect
    <2> QED
        BY <1>1, <1>2, <2>2
<1>7. CASE PrimaryReject
    BY <1>1, <1>2, <1>7 DEF PrimaryReject
<1>8. CASE PrimaryDisconnect
    <2>1. /\ rr' = NotifyReplica(pr.conn, "DISCONNECTED") /\ UNCHANGED <<rm, rs, tcp>>
          /\ pm'.conn = pm.conn /\ pm'.state = pm.state /\ pm'.offset = pm.offset
        BY <1>0, <1>8, DisconnectEffect
    <2> QED
        BY <1>1, <1>2, <2>1
<1>9. CASE PrimaryEstablished \/ PrimarySendDone
    <2>1. UNCHANGED <<pm, rm, rr, rs, tcp>>
        BY <1>0, <1>9, EstablishedEffect, SendDoneEffect
    <2> QED
        BY <1>1, <2>1
<1>10. ASSUME NEW p \in Replica, NEW n \in Nat, NextChunkStep(p, n) \/ FirstChunkStep(p, n)
       PROVE  FileInv'
    <2>1. /\ UNCHANGED <<rm, rr, rs, tcp>>
          /\ pm'.conn = pm.conn /\ pm'.state = pm.state /\ pm'.offset = pm.offset
        BY <1>10 DEF NextChunkStep, FirstChunkStep, Polls, ChunkSent
    <2> QED
        BY <1>1, <2>1
<1>11. ASSUME NEW p \in Replica, AckStep(p) PROVE FileInv'
    BY <1>1, <1>11 DEF AckStep, AckTaken, Polls
<1>12. CASE FinishStep \/ StreamStep
    <2>1. /\ pm.conn \in Replica /\ pm'.conn = pm.conn
          /\ \A q \in Replica : q # pm.conn => tcp'[q] = tcp[q]
          /\ rm' = rm
        BY <1>12, StreamTcp
    <2>2. rs' = rs /\ rr' = rr /\ pm'.state # "FULL_SYNC"
        BY <1>12 DEF FinishStep, StreamStep, AofSent, OnlineSent
    <2> SUFFICES ASSUME NEW q \in Replica PROVE Files(q)'
        BY DEF FileInv
    <2>3. CASE q = pm.conn
        <3>1. rm[q].state # "FULL_SYNC"
            BY <1>12, <2>3, OwnerHasInstalled
        <3> QED
            BY <2>1, <2>2, <3>1, FilesKept
    <2>4. CASE q # pm.conn
        BY <2>1, <2>2, <2>4, FilesKept
    <2> QED
        BY <2>3, <2>4
<1>13. ASSUME NEW r \in Replica, PingStep(r) PROVE FileInv'
    <2>1. /\ UNCHANGED <<pm, rm, rr, rs>>
          /\ \A q \in Replica : q # r => tcp'[q] = tcp[q]
          /\ tcp[r].r2p # <<>>
        BY <1>13 DEF PingStep
    <2>2. rm[r].state # "FULL_SYNC"
        BY <2>1 DEF LineInv, Lines
    <2> QED
        BY <1>1, <2>1, <2>2
<1>14. ASSUME NEW r \in Replica, PsyncStep(r) PROVE FileInv'
    <2>1. /\ UNCHANGED <<rm, rr, rs>> /\ pm'.conn = r
          /\ \A q \in Replica : q # r => tcp'[q] = tcp[q]
          /\ tcp[r].r2p # <<>>
        BY <1>14 DEF PsyncStep
    <2>2. rm[r].state \notin {"FULL_SYNC", "CATCH_UP"}
        BY <2>1 DEF LineInv, Lines
    <2>3. Files(r)'
        BY <2>1, <2>2, FilesIdle
    <2>4. ASSUME NEW q \in Replica, q # r PROVE Files(q)'
        BY <2>1, <2>4, FilesKept
    <2> QED
        BY <2>3, <2>4 DEF FileInv
<1>15. ASSUME NEW r \in Replica, ReplicaConnect(r) PROVE FileInv'
    <2>1. Alone(r) /\ pm' = pm /\ rm'[r].state = "HANDSHAKE"
        BY <1>0, <1>15, ConnectEffect DEF PrimaryKept
    <2>2. Files(r)'
        BY <2>1, FilesIdle
    <2> QED
        BY <2>1, <2>2, FilesAlone
<1>16. ASSUME NEW r \in Replica, HandshakeStep(r) PROVE FileInv'
    <2>1. /\ Alone(r) /\ pm' = pm /\ aof' = aof /\ hist' = hist
          /\ rm[r].state = "HANDSHAKE" /\ ~rr[r].conn /\ tcp[r].p2r # <<>>
        BY <1>16 DEF HandshakeStep, PrimaryKept
    <2>2. CASE PongTaken(r)
        <3>1. Files(r)'
            BY <2>1, <2>2, FilesIdle DEF PongTaken
        <3> QED
            BY <2>1, <3>1, FilesAlone
    <2>3. CASE ResyncTaken(r, Head(tcp[r].p2r))
        <3>1. PICK line : line = Head(tcp[r].p2r)
            OBVIOUS
        <3>2. /\ line \in FullResync
              /\ rm'[r].state = "FULL_SYNC"
              /\ rm'[r].offset = line.off /\ rm'[r].fileSize = line.size
              /\ rm'[r].writer = line.size
              /\ rr'[r] = [rr[r] EXCEPT !.conn = TRUE, !.cm = <<"ADDR_RESOLVED">>]
              /\ rs'[r] = [rs[r] EXCEPT !.tmp = <<>>]
              /\ tcp'[r].p2r = Tail(tcp[r].p2r)
            BY <2>3, <3>1 DEF ResyncTaken
        <3>3. PICK o, id \in Nat :
                  /\ tcp[r].p2r = <<Resync(o, id)>> /\ Boundary(o)
                  /\ pm.conn = r => pm.state = "FULL_SYNC" /\ pm.offset = o
            <4>1. Shakes(r)
                BY <2>1 DEF LineInv, Lines
            <4>2. tcp[r].p2r = <<Pong>> => line = Pong
                BY <3>1
            <4>3. Pong \notin FullResync
                BY DEF Pong, FullResync
            <4> QED
                BY <2>1, <3>2, <4>1, <4>2, <4>3 DEF Shakes
        <3>4. line = Resync(o, id) /\ tcp'[r].p2r = <<>>
            BY <3>1, <3>2, <3>3
        <3>5. line.off = o /\ line.size = SnapSize
            BY <3>4 DEF Resync
        <3>6. rr'[r].bytes = 0
            <4>1. rr[r] = NoReplicaRdma
                BY <2>1 DEF FreshInv
            <4> QED
                BY <3>2, <4>1 DEF NoReplicaRdma
        <3>7. rs'[r].tmp = <<>>
            <4>1. rs[r] \in ReplicaStore
                BY <1>0 DEF TypeOK
            <4> QED
                BY <3>2, <4>1 DEF ReplicaStore
        <3>8. Len(rs'[r].tmp) = 0 /\ SubSeq(SnapshotAt(rm[r].offset)', 1, 0) = <<>>
            BY <3>7
        <3>9. SnapSize \in Nat /\ SnapSize > 0
            BY ReplicationAssumption
        <3>10. Boundary(rm[r].offset)'
            BY <2>1, <3>2, <3>3, <3>5 DEF Boundary
        <3>11. Receives(r)'
            BY <2>1, <3>2, <3>3, <3>4, <3>5, <3>6, <3>7, <3>8, <3>9, <3>10 DEF Receives
        <3>12. Files(r)'
            BY <3>2, <3>11 DEF Files
        <3> QED
            BY <2>1, <3>12, FilesAlone
    <2> QED
        BY <1>16, <2>2, <2>3 DEF HandshakeStep
<1>17. ASSUME NEW r \in Replica, CellStep(r) \/ CommandStep(r) \/ OnlineStep(r) PROVE FileInv'
    <2>1. /\ Alone(r) /\ pm' = pm /\ rr'[r] = rr[r] /\ ~rr[r].conn
          /\ rm[r].state \in {"CATCH_UP", "ONLINE"}
        BY <1>17 DEF CellStep, CommandStep, OnlineStep, Follows, TokenTaken, PrimaryKept
    <2>2. rm'[r].state \in {"CATCH_UP", "ONLINE"}
        <3>1. CASE CommandStep(r)
            <4> DEFINE end == Len(rs[r].aof) + Len(Append(rs[r].buf, Head(tcp[r].p2r)))
            <4>1. rm'[r] = [rm[r] EXCEPT !.offset = end]
                BY <3>1 DEF CommandStep, CommandDone
            <4> HIDE DEF end
            <4> QED
                BY <1>0, <2>1, <4>1 DEF ReplicaManager
        <3> QED
            BY <1>17, <2>1, <3>1 DEF CellStep, CellKept, OnlineStep
    <2>3. Files(r)'
        BY <2>1, <2>2, FilesIdle
    <2> QED
        BY <2>1, <2>3, FilesAlone
<1>18. ASSUME NEW r \in Replica,
              \/ ReplicaResolveRoute(r) \/ ReplicaRdmaConnect(r) \/ ReplicaEstablished(r)
              \/ ReplicaSendAck(r) \/ ReplicaSendDone(r)
       PROVE  FileInv'
    <2>1. /\ Alone(r) /\ UNCHANGED <<pm, rm, rs, tcp>> /\ (rr'[r].conn => rr[r].conn)
          /\ rr'[r].bytes = rr[r].bytes
        <3>1. CASE ReplicaResolveRoute(r)
            BY <1>0, <3>1, ResolveEffect DEF TransferKept, PrimaryKept
        <3>2. CASE ReplicaRdmaConnect(r)
            BY <1>0, <3>2, RdmaConnectEffect DEF TransferKept
        <3>3. CASE ReplicaEstablished(r)
            BY <1>0, <3>3, ReplicaEstablishedEffect DEF TransferKept, PrimaryKept
        <3>4. CASE ReplicaSendAck(r)
            BY <1>0, <3>4, SendAckEffect DEF PrimaryKept
        <3>5. CASE ReplicaSendDone(r)
            BY <1>0, <3>5, ReplicaSendDoneEffect DEF TransferKept, PrimaryKept
        <3> QED
            BY <1>18, <3>1, <3>2, <3>3, <3>4, <3>5
    <2>2. Files(r)'
        BY <2>1, FilesKept
    <2> QED
        BY <2>1, <2>2, FilesAlone
<1>19. ASSUME NEW r \in Replica, FinishedStep(r) PROVE FileInv'
    <2>1. Alone(r) /\ UNCHANGED <<pm, rm>> /\ rm[r].state = "CATCH_UP" /\ ~rr'[r].conn
        BY <1>19 DEF FinishedStep, PrimaryKept, NoReplicaRdma
    <2>2. Files(r)'
        BY <2>1, FilesIdle
    <2> QED
        BY <2>1, <2>2, FilesAlone
<1>20. ASSUME NEW r \in Replica, BreakStep(r) PROVE FileInv'
    BY <1>1, <1>2, <1>20 DEF BreakStep, PrimaryKept
<1>21. ASSUME NEW r \in Replica, ChunkStep(r) PROVE FileInv'
    <2>1. Alone(r) /\ pm' = pm
        BY <1>21 DEF ChunkStep, PrimaryKept
    <2>2. Files(r)'
        BY <1>21, ChunkStored DEF Files
    <2> QED
        BY <2>1, <2>2, FilesAlone
<1>22. CASE PrimaryRestart
    <2>1. pm'.conn = NoConn /\ UNCHANGED <<rm, rs>>
        BY <1>22 DEF PrimaryRestart, PrimaryStarted
    <2>2. ASSUME NEW q \in Replica PROVE tcp'[q].p2r = tcp[q].p2r
        BY <1>0, <1>22, <2>2, RestartEffect
    <2>3. ASSUME NEW q \in Replica
          PROVE  rr'[q].conn = rr[q].conn /\ rr'[q].bytes = rr[q].bytes
        <3> DEFINE longer == Append(rr[q].cm, "DISCONNECTED")
        <3>1. rr'[q] = rr[q] \/ rr'[q] = [rr[q] EXCEPT !.cm = longer]
            BY <1>0, <1>22, <2>3, RestartEffect
        <3> HIDE DEF longer
        <3> QED
            BY <1>0, <3>1 DEF ReplicaRdma
    <2> QED
        BY <1>1, <2>1, <2>2, <2>3
<1> QED
    BY <1>3, <1>4, <1>5, <1>6, <1>7, <1>8, <1>9, <1>10, <1>11, <1>12, <1>13, <1>14, <1>15,
       <1>16, <1>17, <1>18, <1>19, <1>20, <1>21, <1>22 DEF AnyStep

\* No Replica receives at first.
LEMMA FilesInit == Init => FileInv
    BY DEF Init, ReplicaStarted, FileInv, Files

-----------------------------------------------------------------------------
(* The theorems.                                                            *)

SyncInv ==
    /\ TypeInv /\ SlotInv /\ LogInv /\ FreshInv /\ CmInv
    /\ RoundInv /\ LineInv /\ WireInv /\ FileInv

\* Every step keeps the slot invariant.
LEMMA SlotInvStep ==
    ASSUME TypeInv, SlotInv, [Next]_vars PROVE SlotInv'
<1>1. ReplicaIds /\ LineIds /\ ReadyIds /\ SlotId
    BY DEF SlotInv
<1> QED
    BY <1>1, ReplicaIdStep, LineStep, ReadyStep, SlotIdStep, OwnerStep DEF SlotInv

\* SyncInv holds at first.
LEMMA SyncInit == Init => SyncInv
    BY TypeInit, SlotInit, LogInit, CmInit, RoundInit, LinesInit, WiresInit, FilesInit
    DEF SyncInv

\* Every step keeps SyncInv.
LEMMA SyncStep == SyncInv /\ [Next]_vars => SyncInv'
<1> SUFFICES ASSUME SyncInv, [Next]_vars PROVE SyncInv'
    OBVIOUS
<1>1. /\ TypeInv /\ SlotInv /\ LogInv /\ FreshInv /\ CmInv
      /\ RoundInv /\ LineInv /\ WireInv /\ FileInv
    BY DEF SyncInv
<1>2. AnyStep
    BY <1>1, StepCases
<1>3. TypeInv' /\ SlotInv' /\ LogInv' /\ Grows
    BY <1>1, TypeStep, SlotInvStep, LogStep
<1>4. FreshInv' /\ CmInv' /\ RoundInv'
    BY <1>1, <1>2, <1>3, FreshStep, CmStep, RoundStep
<1>5. LineInv' /\ WireInv' /\ FileInv'
    BY <1>1, <1>2, <1>3, LinesStep, WiresStep, FilesStep
<1> QED
    BY <1>3, <1>4, <1>5 DEF SyncInv

\* What the invariants say of the file of a Replica that receives.
LEMMA ReceivedIsPrefix ==
    ASSUME TypeInv, SlotInv, LogInv, RoundInv, WireInv, FileInv PROVE ReceivedPrefix
<1> SUFFICES ASSUME NEW r \in Replica, rm[r].state = "FULL_SYNC"
             PROVE  LET whole == SnapshotOf(hist[rm[r].offset + 1], rm[r].offset)
                        got   == IF wire[r].pr = <<>> THEN rs[r].tmp
                                 ELSE rs[r].tmp \o Head(wire[r].pr)
                    IN  /\ rm[r].writer + Len(rs[r].tmp) = rm[r].fileSize
                        /\ got = SubSeq(whole, 1, Len(got))
    BY DEF ReceivedPrefix
<1>1. Receives(r)
    BY DEF FileInv, Files
<1>2. rs[r].tmp \in Seq(SnapCell) /\ Len(rs[r].tmp) \in Nat /\ SnapSize \in Nat
    BY ReplicationAssumption DEF TypeInv, TypeOK, ReplicaStore
<1>3. rm[r].writer + Len(rs[r].tmp) = rm[r].fileSize
    BY <1>1, <1>2 DEF Receives
<1>4. CASE wire[r].pr = <<>>
    BY <1>1, <1>3, <1>4 DEF Receives, SnapshotAt
<1>5. CASE wire[r].pr # <<>>
    <2>1. PICK chunk \in Seq(SnapCell) :
              /\ chunk = Head(wire[r].pr)
              /\ rs[r].tmp \o chunk
                    = SubSeq(SnapshotAt(rm[r].offset), 1, Len(rs[r].tmp) + Len(chunk))
        BY <1>5, ChunkContinues
    <2>2. Len(rs[r].tmp \o chunk) = Len(rs[r].tmp) + Len(chunk)
        BY <1>2
    <2>3. rs[r].tmp \o chunk
             = SubSeq(SnapshotAt(rm[r].offset), 1, Len(rs[r].tmp \o chunk))
        BY <2>1, <2>2
    <2> QED
        BY <1>3, <1>5, <2>1, <2>3 DEF SnapshotAt
<1> QED
    BY <1>4, <1>5

\* What the invariants say at the end of the transfer.
LEMMA EndIsInstalled ==
    ASSUME TypeInv, SlotInv, CmInv, RoundInv, WireInv, FileInv PROVE DisconnectAfterInstall
<1> SUFFICES ASSUME pr.discPending, rr[pr.conn].conn
             PROVE  /\ rm[pr.conn].state = "CATCH_UP"
                    /\ rm[pr.conn].offset = pm.offset
                    /\ rs[pr.conn].snapDb = snapFile
    BY DEF DisconnectAfterInstall
<1>1. PICK q : q = pr.conn
    OBVIOUS
<1>2. q \in Replica
    BY <1>1 DEF TypeInv, TypeOK, PrimaryRdma, ReaderOpen, NoPrimaryRdma
<1>3. pr.sent = SnapSize /\ SnapSize > 0 /\ pm.state = "FULL_SYNC"
    BY <1>1, <1>2, ReplicationAssumption DEF RoundInv, RoundEnd, SlotShape
<1>4. q = pm.conn
    BY <1>1, <1>3 DEF SlotInv, SnapshotToSlotOwner
<1>5. rm[q].state = "CATCH_UP"
    BY <1>1, <1>2, <1>4, AckedIsInstalled DEF CmInv, ConnPhase
<1>6. Holds(q)
    BY <1>1, <1>2, <1>5 DEF FileInv, Files
<1> QED
    BY <1>1, <1>3, <1>4, <1>5, <1>6 DEF Holds, RoundInv, RoundFile

\* SyncCorrect: the invariant of the full sync holds in every state.
LEMMA SyncCorrect == Spec => []SyncInv
    BY SyncInit, SyncStep, PTL DEF Spec

\* ReceiversAreReady: an RDMA message is only sent to a peer that has posted the
\* buffer for it, and never two at a time (ReceiverReady): the credit of one
\* message each way is never overdrawn, whatever is cut, retried or refused.
THEOREM ReceiversAreReady == Spec => []ReceiverReady
<1>1. SyncInv => ReceiverReady
    BY ReceiversPosted DEF SyncInv
<1> QED
    BY <1>1, SyncCorrect, PTL

\* ReceivedFileIsPrefix: what a Replica has written of the snapshot, with the
\* chunk on its way, is a prefix of the snapshot that was announced to it, and
\* the writer waits for exactly the rest (ReceivedPrefix).
THEOREM ReceivedFileIsPrefix == Spec => []ReceivedPrefix
<1>1. SyncInv => ReceivedPrefix
    BY ReceivedIsPrefix DEF SyncInv
<1> QED
    BY <1>1, SyncCorrect, PTL

\* EndsAfterInstall: when the Primary ends the transfer, the Replica at the other
\* end has installed the snapshot of this round (DisconnectAfterInstall).
THEOREM EndsAfterInstall == Spec => []DisconnectAfterInstall
<1>1. SyncInv => DisconnectAfterInstall
    BY EndIsInstalled DEF SyncInv
<1> QED
    BY <1>1, SyncCorrect, PTL

-----------------------------------------------------------------------------
(***************************************************************************)
(* The stream of the AOF: a Replica that has installed a snapshot follows  *)
(* the Primary's log, an ONLINE line is never refused, replication         *)
(* implements the replicated log, and a Replica can be restarted from its  *)
(* files at any time.                                                      *)
(*                                                                         *)
(* StreamInv says that what is on its way to a Replica leads from where    *)
(* its input stands to where the Primary's stream stands.  ReplayRecovers  *)
(* turns this into what a restart of the Replica's files yields.           *)
(***************************************************************************)

-----------------------------------------------------------------------------
(* The stream of AOF cells and ONLINE lines.                                *)

\* The tokens s lead from AOF offset p to q: every cell is the cell of the AOF
\* at its offset, every ONLINE line names its offset, at which a command ends.
\* at[i] is the offset in front of the i-th token.
Leads(s, at, p, q) ==
    /\ at \in [1 .. Len(s) + 1 -> Nat]
    /\ at[1] = p /\ at[Len(s) + 1] = q
    /\ \A i \in 1 .. Len(s) :
          \/ /\ s[i] \in Cell /\ at[i] < Len(aof) /\ s[i] = aof[at[i] + 1]
             /\ at[i + 1] = at[i] + 1
          \/ /\ s[i] \in OnlineLine /\ s[i].off = at[i] /\ Boundary(at[i])
             /\ at[i + 1] = at[i]

Feeds(s, p, q) == \E at : Leads(s, at, p, q)

\* A cell is no ONLINE line.
LEMMA CellOrOnline ==
    ASSUME NEW t \in Cell PROVE t \notin OnlineLine
<1> SUFFICES ASSUME t \in OnlineLine PROVE FALSE
    OBVIOUS
<1>1. DOMAIN t = {"line", "off"}
    BY DEF OnlineLine
<1>2. DOMAIN t = {"cmd", "part"} \/ DOMAIN t = {"hole"}
    BY DEF Cell, Hole
<1>3. "line" \in {"line", "off"} /\ "line" \notin {"cmd", "part"} /\ "line" \notin {"hole"}
    OBVIOUS
<1> QED
    BY <1>1, <1>2, <1>3

\* Nothing to send leads nowhere.
LEMMA FeedsNothing ==
    ASSUME NEW p \in Nat PROVE Feeds(<<>>, p, p)
<1> DEFINE at == [i \in 1 .. 1 |-> p]
<1>1. Len(<<>>) = 0
    OBVIOUS
<1>2. Leads(<<>>, at, p, p)
    BY <1>1 DEF Leads
<1> QED
    BY <1>2 DEF Feeds

\* The first token of a stream.
LEMMA FeedsHead ==
    ASSUME NEW s \in Seq(Token), s # <<>>, NEW p \in Nat, NEW q \in Nat, Feeds(s, p, q)
    PROVE  \/ /\ Head(s) \in Cell /\ p < Len(aof) /\ Head(s) = aof[p + 1]
              /\ Feeds(Tail(s), p + 1, q)
           \/ /\ Head(s) \in OnlineLine /\ Head(s).off = p /\ Boundary(p)
              /\ Feeds(Tail(s), p, q)
<1>1. PICK at : Leads(s, at, p, q)
    BY DEF Feeds
<1> DEFINE n == Len(s)
           t == Tail(s)
           later == [i \in 1 .. n |-> at[i + 1]]
<1>2. n \in Nat /\ n > 0 /\ Head(s) = s[1]
    OBVIOUS
<1>3. Len(t) = n - 1 /\ \A i \in 1 .. n - 1 : t[i] = s[i + 1]
    BY <1>2
<1>4. /\ at \in [1 .. n + 1 -> Nat] /\ at[1] = p /\ at[n + 1] = q
      /\ \A i \in 1 .. n :
            \/ /\ s[i] \in Cell /\ at[i] < Len(aof) /\ s[i] = aof[at[i] + 1]
               /\ at[i + 1] = at[i] + 1
            \/ /\ s[i] \in OnlineLine /\ s[i].off = at[i] /\ Boundary(at[i])
               /\ at[i + 1] = at[i]
    BY <1>1 DEF Leads
<1> HIDE DEF n, t
<1>5. later \in [1 .. n -> Nat] /\ \A i \in 1 .. n : later[i] = at[i + 1]
    BY <1>2, <1>4
<1> HIDE DEF later
<1>6. Leads(t, later, at[2], q)
    <2>1. later \in [1 .. Len(t) + 1 -> Nat]
        BY <1>2, <1>3, <1>5
    <2>2. later[1] = at[2] /\ later[Len(t) + 1] = q
        BY <1>2, <1>3, <1>4, <1>5
    <2>3. ASSUME NEW i \in 1 .. Len(t)
          PROVE  \/ /\ t[i] \in Cell /\ later[i] < Len(aof) /\ t[i] = aof[later[i] + 1]
                    /\ later[i + 1] = later[i] + 1
                 \/ /\ t[i] \in OnlineLine /\ t[i].off = later[i] /\ Boundary(later[i])
                    /\ later[i + 1] = later[i]
        <3>1. i + 1 \in 1 .. n /\ i \in 1 .. n /\ i \in 1 .. n - 1
            BY <1>2, <1>3
        <3>2. t[i] = s[i + 1] /\ later[i] = at[i + 1] /\ later[i + 1] = at[(i + 1) + 1]
            BY <1>3, <1>5, <3>1
        <3> QED
            BY <1>4, <3>1, <3>2
    <2> QED
        BY <2>1, <2>2, <2>3 DEF Leads
<1>7. 1 \in 1 .. n /\ 1 + 1 = 2
    BY <1>2
<1>8. Feeds(t, at[2], q)
    BY <1>6 DEF Feeds
<1>9. \/ /\ s[1] \in Cell /\ p < Len(aof) /\ s[1] = aof[p + 1] /\ at[2] = p + 1
      \/ /\ s[1] \in OnlineLine /\ s[1].off = p /\ Boundary(p) /\ at[2] = p
    BY <1>4, <1>7
<1> QED
    BY <1>2, <1>8, <1>9 DEF t

\* Two streams, one after the other.
LEMMA FeedsOn ==
    ASSUME NEW S, NEW s \in Seq(S), NEW t \in Seq(S), NEW p, NEW q, NEW u,
           Feeds(s, p, q), Feeds(t, q, u)
    PROVE  Feeds(s \o t, p, u)
<1>1. PICK a : Leads(s, a, p, q)
    BY DEF Feeds
<1>2. PICK b : Leads(t, b, q, u)
    BY DEF Feeds
<1> DEFINE m == Len(s)
           n == Len(t)
           st == s \o t
           at == [i \in 1 .. m + n + 1 |-> IF i <= m THEN a[i] ELSE b[i - m]]
<1>3. m \in Nat /\ n \in Nat
    OBVIOUS
<1>4. /\ Len(st) = m + n
      /\ \A i \in 1 .. m : st[i] = s[i]
      /\ \A i \in 1 .. n : st[m + i] = t[i]
    BY ConcatFacts
<1>5. /\ a \in [1 .. m + 1 -> Nat] /\ a[1] = p /\ a[m + 1] = q
      /\ \A i \in 1 .. m :
            \/ /\ s[i] \in Cell /\ a[i] < Len(aof) /\ s[i] = aof[a[i] + 1]
               /\ a[i + 1] = a[i] + 1
            \/ /\ s[i] \in OnlineLine /\ s[i].off = a[i] /\ Boundary(a[i])
               /\ a[i + 1] = a[i]
    BY <1>1 DEF Leads
<1>6. /\ b \in [1 .. n + 1 -> Nat] /\ b[1] = q /\ b[n + 1] = u
      /\ \A i \in 1 .. n :
            \/ /\ t[i] \in Cell /\ b[i] < Len(aof) /\ t[i] = aof[b[i] + 1]
               /\ b[i + 1] = b[i] + 1
            \/ /\ t[i] \in OnlineLine /\ t[i].off = b[i] /\ Boundary(b[i])
               /\ b[i + 1] = b[i]
    BY <1>2 DEF Leads
<1> HIDE DEF m, n, st
<1>7. /\ \A i \in 1 .. m + 1 : at[i] = a[i]
      /\ \A i \in 1 .. n + 1 : at[m + i] = b[i]
      /\ at \in [1 .. m + n + 1 -> Nat]
    <2>1. ASSUME NEW i \in 1 .. m + 1 PROVE at[i] = a[i]
        <3>1. CASE i <= m
            BY <1>3, <3>1
        <3>2. CASE i = m + 1
            <4>1. i \in 1 .. m + n + 1 /\ ~(i <= m) /\ i - m = 1
                BY <1>3, <3>2
            <4> QED
                BY <1>5, <1>6, <3>2, <4>1
        <3> QED
            BY <1>3, <3>1, <3>2
    <2>2. ASSUME NEW i \in 1 .. n + 1 PROVE at[m + i] = b[i]
        <3>1. m + i \in 1 .. m + n + 1 /\ ~(m + i <= m) /\ (m + i) - m = i
            BY <1>3
        <3> QED
            BY <3>1
    <2>3. ASSUME NEW i \in 1 .. m + n + 1 PROVE (IF i <= m THEN a[i] ELSE b[i - m]) \in Nat
        <3>1. CASE i <= m
            <4>1. i \in 1 .. m + 1
                BY <1>3, <3>1
            <4>2. a[i] \in Nat
                BY <1>5, <4>1
            <4> QED
                BY <3>1, <4>2
        <3>2. CASE ~(i <= m)
            <4>1. i - m \in 1 .. n + 1
                BY <1>3, <3>2
            <4> QED
                BY <1>6, <3>2, <4>1
        <3> QED
            BY <3>1, <3>2
    <2> QED
        BY <2>1, <2>2, <2>3
<1> HIDE DEF at
<1>8. ASSUME NEW i \in 1 .. m + n
      PROVE  \/ /\ st[i] \in Cell /\ at[i] < Len(aof) /\ st[i] = aof[at[i] + 1]
                /\ at[i + 1] = at[i] + 1
             \/ /\ st[i] \in OnlineLine /\ st[i].off = at[i] /\ Boundary(at[i])
                /\ at[i + 1] = at[i]
    <2>1. CASE i <= m
        <3>1. i \in 1 .. m /\ i \in 1 .. m + 1 /\ i + 1 \in 1 .. m + 1
            BY <1>3, <2>1
        <3>2. st[i] = s[i] /\ at[i] = a[i] /\ at[i + 1] = a[i + 1]
            BY <1>4, <1>7, <3>1
        <3> QED
            BY <1>5, <3>1, <3>2
    <2>2. CASE i > m
        <3>1. PICK j \in 1 .. n : i = m + j
            <4>1. i - m \in 1 .. n /\ m + (i - m) = i
                BY <1>3, <2>2
            <4> QED
                BY <4>1
        <3>2. j \in 1 .. n + 1 /\ j + 1 \in 1 .. n + 1 /\ i + 1 = m + (j + 1)
            BY <1>3, <3>1
        <3>3. st[i] = t[j] /\ at[i] = b[j] /\ at[i + 1] = b[j + 1]
            BY <1>4, <1>7, <3>1, <3>2
        <3> QED
            BY <1>6, <3>3
    <2> QED
        BY <1>3, <2>1, <2>2
<1>9. at[1] = p /\ at[m + n + 1] = u
    <2>1. 1 \in 1 .. m + 1 /\ n + 1 \in 1 .. n + 1 /\ m + (n + 1) = m + n + 1
        BY <1>3
    <2> QED
        BY <1>5, <1>6, <1>7, <2>1
<1>10. Leads(st, at, p, u)
    BY <1>4, <1>7, <1>8, <1>9 DEF Leads
<1> QED
    BY <1>10 DEF Feeds, st

\* A block of the AOF leads from its first to its last offset.
LEMMA FeedsCells ==
    ASSUME aof \in Seq(Cell), NEW q \in Nat, NEW n \in Nat, q + n <= Len(aof)
    PROVE  Feeds(SubSeq(aof, q + 1, q + n), q, q + n)
<1> DEFINE t == SubSeq(aof, q + 1, q + n)
           at == [i \in 1 .. n + 1 |-> q + i - 1]
<1>1. Len(t) = n /\ \A i \in 1 .. n : t[i] = aof[q + i] /\ t[i] \in Cell
    BY SubSeqType
<1> HIDE DEF t
<1>2. at \in [1 .. n + 1 -> Nat] /\ \A i \in 1 .. n + 1 : at[i] = q + i - 1
    OBVIOUS
<1> HIDE DEF at
<1>3. at[1] = q /\ at[n + 1] = q + n
    BY <1>2
<1>4. ASSUME NEW i \in 1 .. n
      PROVE  /\ t[i] \in Cell /\ at[i] < Len(aof) /\ t[i] = aof[at[i] + 1]
             /\ at[i + 1] = at[i] + 1
    <2>1. i \in 1 .. n + 1 /\ i + 1 \in 1 .. n + 1 /\ (q + i - 1) + 1 = q + i /\ q + i - 1 < q + n
        OBVIOUS
    <2>2. at[i] = q + i - 1 /\ at[i + 1] = q + (i + 1) - 1
        BY <1>2, <2>1
    <2>3. Len(aof) \in Nat
        OBVIOUS
    <2> QED
        BY <1>1, <2>1, <2>2, <2>3
<1>5. Leads(t, at, q, q + n)
    BY <1>1, <1>2, <1>3, <1>4 DEF Leads
<1> QED
    BY <1>5 DEF Feeds, t

\* An ONLINE line stays where it is.
LEMMA FeedsOnline ==
    ASSUME NEW q \in Nat, Boundary(q)
    PROVE  Feeds(<<[line |-> "ONLINE", off |-> q]>>, q, q)
<1> DEFINE line == [line |-> "ONLINE", off |-> q]
           t == <<line>>
           at == [i \in 1 .. 2 |-> q]
<1>1. line \in OnlineLine /\ line.off = q
    BY DEF OnlineLine
<1> HIDE DEF line
<1>2. Len(t) = 1 /\ t[1] = line
    OBVIOUS
<1> HIDE DEF t
<1>3. at \in [1 .. 2 -> Nat] /\ at[1] = q /\ at[2] = q
    OBVIOUS
<1> HIDE DEF at
<1>4. 1 .. Len(t) = {1} /\ Len(t) + 1 = 2
    BY <1>2
<1>5. Leads(t, at, q, q)
    BY <1>1, <1>2, <1>3, <1>4 DEF Leads
<1> QED
    BY <1>5 DEF Feeds, t, line

\* A stream stays what it is while the log grows.
LEMMA FeedsStays ==
    ASSUME TypeOK, Grows, NEW s \in Seq(Token), NEW p, NEW q, Feeds(s, p, q)
    PROVE  Feeds(s, p, q)'
<1>1. PICK at : Leads(s, at, p, q)
    BY DEF Feeds
<1>2. aof \in Seq(Cell) /\ Len(aof) \in Nat /\ Len(s) \in Nat
    BY DEF TypeOK
<1>3. at \in [1 .. Len(s) + 1 -> Nat] /\ at[1] = p /\ at[Len(s) + 1] = q
    BY <1>1 DEF Leads
<1>4. ASSUME NEW i \in 1 .. Len(s)
      PROVE  \/ /\ s[i] \in Cell /\ at[i] < Len(aof') /\ s[i] = aof'[at[i] + 1]
                /\ at[i + 1] = at[i] + 1
             \/ /\ s[i] \in OnlineLine /\ s[i].off = at[i] /\ Boundary(at[i])'
                /\ at[i + 1] = at[i]
    <2>0. at[i] \in Nat
        BY <1>2, <1>3
    <2>1. CASE /\ s[i] \in Cell /\ at[i] < Len(aof) /\ s[i] = aof[at[i] + 1]
               /\ at[i + 1] = at[i] + 1
        <3>1. at[i] + 1 \in 1 .. Len(aof) /\ Len(aof) <= Len(aof')
            BY <1>2, <2>0, <2>1 DEF Grows
        <3>2. aof'[at[i] + 1] = aof[at[i] + 1]
            BY <3>1 DEF Grows
        <3>3. at[i] < Len(aof')
            BY <1>2, <2>0, <2>1 DEF Grows
        <3> QED
            BY <2>1, <3>2, <3>3
    <2>2. CASE /\ s[i] \in OnlineLine /\ s[i].off = at[i] /\ Boundary(at[i])
               /\ at[i + 1] = at[i]
        BY <2>0, <2>2 DEF Grows
    <2> QED
        BY <1>1, <2>1, <2>2 DEF Leads
<1>5. Leads(s, at, p, q)'
    BY <1>3, <1>4 DEF Leads
<1> QED
    BY <1>5 DEF Feeds

-----------------------------------------------------------------------------
(* The Replica follows the log.                                             *)

\* Where the input of a Replica stands: behind its AOF and its input buffer.
Input(r) == Len(rs[r].aof) + Len(rs[r].buf)

\* The engine is the Primary's at the local AOF offset, where a command begins.
Applied(r) ==
    /\ Boundary(Len(rs[r].aof))
    /\ rs[r].db = hist[Len(rs[r].aof) + 1]

\* The input buffer holds the first cells of the next command.
Buffered(r) ==
    /\ Len(rs[r].buf) < CmdLen
    /\ Input(r) <= Len(aof)
    /\ \A i \in 1 .. Len(rs[r].buf) : rs[r].buf[i] = aof[Len(rs[r].aof) + i]

\* What is on its way leads from there to where the Primary's stream stands.
Fed(r) ==
    \E q \in Nat : /\ Feeds(tcp[r].p2r, Input(r), q)
                   /\ pm.conn = r => q = SentPos

\* snapshot.db is the Primary's snapshot of an offset from which on the local
\* AOF is the Primary's.
Backed(r) ==
    \E o \in Nat :
        /\ Boundary(o) /\ o <= Len(rs[r].aof)
        /\ rs[r].snapDb = SnapshotAt(o)
        /\ \A i \in o + 1 .. Len(rs[r].aof) : rs[r].aof[i] = aof[i]

Streams(r) ==
    /\ Following(r) => Applied(r) /\ Buffered(r) /\ Fed(r) /\ Backed(r)
    /\ ~Following(r) => rs[r].buf = <<>>

StreamInv == \A r \in Replica : Streams(r)

\* What a Replica has stored stays right while the log grows.
LEMMA StoreStays ==
    ASSUME TypeInv, TypeInv', LogInv, Grows, NEW q \in Replica, rs'[q] = rs[q],
           Applied(q), Buffered(q), Backed(q)
    PROVE  Applied(q)' /\ Buffered(q)' /\ Backed(q)'
<1>0. /\ aof \in Seq(Cell) /\ Len(aof) \in Nat /\ Len(aof') >= Len(aof)
      /\ rs[q].aof \in Seq(Cell) /\ rs[q].buf \in Seq(Cell)
      /\ Len(rs[q].aof) \in Nat /\ Len(rs[q].buf) \in Nat
    BY DEF TypeInv, TypeOK, ReplicaStore, Grows
<1>1. Applied(q)'
    <2>1. Len(rs[q].aof) <= Len(aof) /\ Boundary(Len(rs[q].aof))
        BY DEF Applied, Boundary
    <2>2. PICK n \in Nat : n = Len(rs[q].aof)
        BY <1>0
    <2>3. Boundary(n) /\ n + 1 \in 1 .. Len(aof) + 1
        BY <1>0, <2>1, <2>2
    <2>4. Boundary(n)'
        BY <2>3 DEF Grows
    <2>5. hist'[n + 1] = hist[n + 1]
        BY <2>3 DEF Grows
    <2> QED
        BY <2>2, <2>4, <2>5 DEF Applied
<1>2. Buffered(q)'
    <2>0. Len(rs[q].aof) + Len(rs[q].buf) <= Len(aof)
        BY DEF Buffered, Input
    <2>1. ASSUME NEW i \in 1 .. Len(rs[q].buf)
          PROVE  rs[q].buf[i] = aof'[Len(rs[q].aof) + i]
        <3>1. Len(rs[q].aof) + i \in 1 .. Len(aof)
            <4>1. ASSUME NEW a \in Nat, NEW b \in Nat, NEW n \in Nat, NEW j \in 1 .. b, a + b <= n
                  PROVE  a + j \in 1 .. n
                BY <4>1
            <4> QED
                BY <1>0, <2>0, <4>1
        <3> QED
            BY <3>1 DEF Buffered, Grows
    <2>2. Len(rs[q].aof) + Len(rs[q].buf) <= Len(aof')
        <3>1. ASSUME NEW a \in Nat, NEW b \in Nat, NEW n \in Nat, NEW m \in Nat,
                     a + b <= n, n <= m
              PROVE  a + b <= m
            BY <3>1
        <3>2. Len(aof') \in Nat /\ Len(aof) <= Len(aof')
            BY DEF Grows, TypeInv, TypeOK
        <3> QED
            BY <1>0, <2>0, <3>1, <3>2
    <2> QED
        BY <2>1, <2>2 DEF Buffered, Input
<1>3. Backed(q)'
    <2>1. PICK o \in Nat :
              /\ Boundary(o) /\ o <= Len(rs[q].aof)
              /\ rs[q].snapDb = SnapshotAt(o)
              /\ \A i \in o + 1 .. Len(rs[q].aof) : rs[q].aof[i] = aof[i]
        BY DEF Backed
    <2>2. Boundary(o)' /\ SnapshotAt(o)' = SnapshotAt(o)
        BY <2>1, SnapshotStays DEF SnapshotAt
    <2>3. ASSUME NEW i \in o + 1 .. Len(rs[q].aof) PROVE rs[q].aof[i] = aof'[i]
        <3>1. Len(rs[q].aof) <= Len(aof)
            BY DEF Applied, Boundary
        <3>2. i \in 1 .. Len(aof)
            BY <1>0, <3>1
        <3> QED
            BY <2>1, <3>2 DEF Grows
    <2> QED
        BY <2>1, <2>2, <2>3 DEF Backed
<1> QED
    BY <1>1, <1>2, <1>3

\* A step that leaves the stream to q as it is.
LEMMA StreamsKept ==
    ASSUME TypeInv, TypeInv', LogInv, StreamInv, Grows, NEW q \in Replica,
           rm'[q].state = rm[q].state, rs'[q] = rs[q], tcp'[q].p2r = tcp[q].p2r,
           pm'.conn = q => pm.conn = q /\ SentPos' = SentPos
    PROVE  Streams(q)'
<1>1. Streams(q) /\ (Following(q)' <=> Following(q))
    BY DEF StreamInv, Following
<1>2. ASSUME Following(q)
      PROVE  Applied(q)' /\ Buffered(q)' /\ Fed(q)' /\ Backed(q)'
    <2>1. Applied(q) /\ Buffered(q) /\ Fed(q) /\ Backed(q)
        BY <1>1, <1>2 DEF Streams
    <2>2. PICK u \in Nat : /\ Feeds(tcp[q].p2r, Input(q), u)
                           /\ pm.conn = q => u = SentPos
        BY <2>1 DEF Fed
    <2>3. PICK s \in Seq(Token) : s = tcp[q].p2r
        BY DEF TypeInv, TypeOK, TcpConn
    <2>4. PICK p : p = Input(q)
        OBVIOUS
    <2>5. Feeds(s, p, u)'
        BY <2>2, <2>3, <2>4, FeedsStays DEF TypeInv
    <2>6. Input(q)' = p
        BY <2>4 DEF Input
    <2>7. Fed(q)'
        BY <2>2, <2>3, <2>5, <2>6 DEF Fed
    <2> QED
        BY <2>1, <2>7, StoreStays
<1> QED
    BY <1>1, <1>2 DEF Streams

\* A Replica that does not follow has an empty input buffer.
LEMMA StreamsIdle ==
    ASSUME NEW q \in Replica, rs'[q].buf = <<>>, rm'[q].state \notin {"CATCH_UP", "ONLINE"}
    PROVE  Streams(q)'
    BY DEF Streams, Following

\* A step of Replica r leaves the streams of the others alone.
LEMMA StreamsAlone ==
    ASSUME TypeInv, TypeInv', LogInv, StreamInv, Grows, NEW r \in Replica, Alone(r), pm' = pm,
           Streams(r)'
    PROVE  StreamInv'
<1>1. ASSUME NEW q \in Replica, q # r PROVE Streams(q)'
    <2>1. Unmoved(q)
        BY <1>1 DEF Alone
    <2>2. SentPos' = SentPos
        BY DEF SentPos
    <2> QED
        BY <2>1, <2>2, StreamsKept DEF Unmoved
<1> QED
    BY <1>1 DEF StreamInv

\* What the Primary's stream sends leads on from where it stands.
LEMMA StreamSends ==
    ASSUME TypeInv, RoundInv, FinishStep \/ StreamStep
    PROVE  \E t \in Seq(Token), u \in Nat :
              /\ Feeds(t, SentPos, u) /\ SentPos' = u
              /\ \/ tcp' = Send(pm.conn, t)
                 \/ tcp' = tcp /\ u = SentPos
<1>0. /\ aof \in Seq(Cell) /\ Len(aof) \in Nat /\ pm.offset \in Nat
    BY DEF TypeInv, TypeOK, PrimaryManager
<1>1. PICK pos \in Nat :
          /\ pos = SentPos
          /\ \/ \E st : \E end, n \in Nat : AofSent(st, pos, end, n)
             \/ OnlineSent(pos)
             \/ tcp' = tcp /\ pm'.offset = pos /\ pm'.aofLeft = Closed
    <2>1. CASE StreamStep
        BY <2>1 DEF StreamStep
    <2>2. CASE FinishStep
        <3>1. SentPos = pm.offset
            BY <2>2 DEF FinishStep, RoundInv, RoundFile, SentPos
        <3>2. CASE \E n \in Nat : AofSent("CATCH_UP", pm.offset, Len(aof), n)
            BY <1>0, <3>1, <3>2
        <3>3. CASE OnlineSent(pm.offset)
            BY <1>0, <3>1, <3>3
        <3> QED
            BY <2>2, <3>2, <3>3 DEF FinishStep
    <2> QED
        BY <2>1, <2>2
<1>2. ASSUME NEW st, NEW end \in Nat, NEW n \in Nat, AofSent(st, pos, end, n)
      PROVE  \E t \in Seq(Token), u \in Nat :
                Feeds(t, pos, u) /\ SentPos' = u /\ tcp' = Send(pm.conn, t)
    <2>1. /\ pos + n <= end /\ end <= Len(aof) /\ pos + n \in Nat
          /\ pm'.aofPos = pos + n /\ pm'.aofLeft = end - pos - n
          /\ tcp' = Send(pm.conn, SubSeq(aof, pos + 1, pos + n))
        BY <1>2 DEF AofSent
    <2>2. PICK t : t = SubSeq(aof, pos + 1, pos + n)
        OBVIOUS
    <2>3. pos + n <= Len(aof)
        BY <1>0, <2>1
    <2>4. t \in Seq(Cell)
        BY <1>0, <2>2, <2>3, SubSeqType
    <2>5. t \in Seq(Token)
        <3>1. Cell \subseteq Token
            BY DEF Token
        <3> QED
            BY <2>4, <3>1, SeqMono
    <2>6. Feeds(t, pos, pos + n)
        BY <1>0, <2>2, <2>3, FeedsCells
    <2>7. SentPos' = pos + n
        BY <1>0, <2>1 DEF SentPos, Closed
    <2> QED
        BY <2>1, <2>2, <2>5, <2>6, <2>7
<1>3. ASSUME OnlineSent(pos)
      PROVE  \E t \in Seq(Token), u \in Nat :
                Feeds(t, pos, u) /\ SentPos' = u /\ tcp' = Send(pm.conn, t)
    <2>1. /\ pos = Len(aof) /\ pm'.offset = pos /\ pm'.aofLeft = Closed
          /\ tcp' = Send(pm.conn, <<[line |-> "ONLINE", off |-> pos]>>)
        BY <1>3 DEF OnlineSent
    <2>2. PICK line : line = [line |-> "ONLINE", off |-> pos]
        OBVIOUS
    <2>3. line \in Token
        BY <2>2 DEF Token, OnlineLine
    <2>4. <<line>> \in Seq(Token)
        BY <2>3
    <2>5. Boundary(pos)
        BY <1>0, <2>1 DEF Boundary
    <2>6. Feeds(<<line>>, pos, pos)
        BY <2>2, <2>5, FeedsOnline
    <2>7. SentPos' = pos
        BY <2>1 DEF SentPos
    <2> QED
        BY <2>1, <2>2, <2>4, <2>6, <2>7
<1>4. ASSUME tcp' = tcp, pm'.offset = pos, pm'.aofLeft = Closed
      PROVE  \E t \in Seq(Token), u \in Nat :
                Feeds(t, pos, u) /\ SentPos' = u /\ tcp' = tcp /\ u = pos
    <2>1. SentPos' = pos
        BY <1>4 DEF SentPos
    <2>2. Feeds(<<>>, pos, pos) /\ <<>> \in Seq(Token)
        BY FeedsNothing
    <2> QED
        BY <1>4, <2>1, <2>2
<1> QED
    BY <1>1, <1>2, <1>3, <1>4

\* StreamInv is kept by the Primary's stream.
LEMMA StreamsSent ==
    ASSUME TypeInv, TypeInv', LogInv, RoundInv, StreamInv, Grows,
           FinishStep \/ StreamStep
    PROVE  StreamInv'
<1>1. /\ pm.conn \in Replica /\ pm'.conn = pm.conn
      /\ \A q \in Replica : q # pm.conn => tcp'[q] = tcp[q]
      /\ rm' = rm /\ rs' = rs
    BY StreamTcp DEF FinishStep, StreamStep
<1>2. PICK q \in Replica : q = pm.conn
    BY <1>1
<1>3. ASSUME NEW r \in Replica, r # q PROVE Streams(r)'
    BY <1>1, <1>2, <1>3, StreamsKept
<1>4. PICK t \in Seq(Token), u \in Nat :
              /\ Feeds(t, SentPos, u) /\ SentPos' = u
              /\ \/ tcp' = Send(pm.conn, t)
                 \/ tcp' = tcp /\ u = SentPos
    BY StreamSends
<1>5. CASE tcp' = tcp /\ u = SentPos
    <2>1. Streams(q)'
        BY <1>1, <1>2, <1>4, <1>5, StreamsKept
    <2> QED
        BY <1>3, <2>1 DEF StreamInv
<1>6. CASE tcp' = Send(pm.conn, t)
    <2>1. tcp'[q].p2r = IF ReplicaClosed(q) THEN tcp[q].p2r ELSE tcp[q].p2r \o t
        BY <1>2, <1>6, SendEffect DEF TypeInv
    <2>2. CASE ~Following(q)
        <3>1. ~Following(q)' /\ rs'[q].buf = <<>>
            BY <1>1, <2>2 DEF Following, StreamInv, Streams
        <3>2. Streams(q)'
            BY <3>1 DEF Streams
        <3> QED
            BY <1>3, <3>2 DEF StreamInv
    <2>3. CASE Following(q)
        <3>1. tcp'[q].p2r = tcp[q].p2r \o t
            BY <2>1, <2>3 DEF Following, ReplicaClosed
        <3>2. PICK s \in Seq(Token) : s = tcp[q].p2r
            BY DEF TypeInv, TypeOK, TcpConn
        <3>3. PICK p : p = Input(q)
            OBVIOUS
        <3>4. Applied(q) /\ Buffered(q) /\ Fed(q) /\ Backed(q)
            BY <2>3 DEF StreamInv, Streams
        <3>5. Feeds(s, p, SentPos)
            BY <1>2, <3>2, <3>3, <3>4 DEF Fed
        <3>6. Feeds(s \o t, p, u)
            BY <1>4, <3>5, FeedsOn
        <3>7. PICK st \in Seq(Token) : st = s \o t
            BY <3>2, <1>4, ConcatFacts
        <3>8. Feeds(st, p, u)'
            BY <3>6, <3>7, FeedsStays DEF TypeInv
        <3>9. Input(q)' = p /\ tcp'[q].p2r = st
            BY <1>1, <3>1, <3>2, <3>3, <3>7 DEF Input
        <3>10. Fed(q)'
            BY <1>4, <3>8, <3>9 DEF Fed
        <3>11. Following(q)' /\ Applied(q)' /\ Buffered(q)' /\ Backed(q)'
            BY <1>1, <2>3, <3>4, StoreStays DEF Following
        <3>12. Streams(q)'
            BY <3>10, <3>11 DEF Streams
        <3> QED
            BY <1>3, <3>12 DEF StreamInv
    <2> QED
        BY <2>2, <2>3
<1> QED
    BY <1>4, <1>5, <1>6

\* Sums of offsets.
LEMMA Sums ==
    ASSUME NEW n \in Nat, NEW b \in Nat
    PROVE  /\ n + b \in Nat /\ n + b + 1 \in Nat /\ n + (b + 1) = n + b + 1
           /\ (n + b) + 0 = n + b
           /\ \A m \in Nat : n + b < m => n < m /\ n + b + 1 <= m
    OBVIOUS

\* What the invariant says of a Replica that follows and has input: the numbers
\* n and b stand for the lengths of its AOF and its input buffer.
LEMMA NextToken ==
    ASSUME TypeInv, StreamInv, NEW r \in Replica, Following(r), tcp[r].p2r # <<>>
    PROVE  \E n \in Nat, b \in Nat, u \in Nat :
              /\ n = Len(rs[r].aof) /\ b = Len(rs[r].buf)
              /\ b < CmdLen /\ n + b <= Len(aof)
              /\ \A i \in 1 .. b : rs[r].buf[i] = aof[n + i]
              /\ Boundary(n) /\ rs[r].db = hist[n + 1]
              /\ pm.conn = r => u = SentPos
              /\ \/ /\ Head(tcp[r].p2r) \in Cell /\ n + b < Len(aof)
                    /\ Head(tcp[r].p2r) = aof[n + b + 1]
                    /\ Feeds(Tail(tcp[r].p2r), n + b + 1, u)
                 \/ /\ Head(tcp[r].p2r) \in OnlineLine /\ Head(tcp[r].p2r).off = n + b
                    /\ Boundary(n + b) /\ Feeds(Tail(tcp[r].p2r), n + b, u)
<1>1. Applied(r) /\ Buffered(r) /\ Fed(r)
    BY DEF StreamInv, Streams
<1>2. PICK n \in Nat, b \in Nat : n = Len(rs[r].aof) /\ b = Len(rs[r].buf)
    <2>1. rs[r].aof \in Seq(Cell) /\ rs[r].buf \in Seq(Cell)
        BY DEF TypeInv, TypeOK, ReplicaStore
    <2> QED
        BY <2>1
<1>3. PICK s \in Seq(Token) : s = tcp[r].p2r
    BY DEF TypeInv, TypeOK, TcpConn
<1>4. PICK u \in Nat : Feeds(s, n + b, u) /\ (pm.conn = r => u = SentPos)
    BY <1>1, <1>2, <1>3 DEF Fed, Input
<1>5. n + b \in Nat
    BY Sums
<1>6. \/ /\ Head(s) \in Cell /\ n + b < Len(aof) /\ Head(s) = aof[n + b + 1]
         /\ Feeds(Tail(s), n + b + 1, u)
      \/ /\ Head(s) \in OnlineLine /\ Head(s).off = n + b /\ Boundary(n + b)
         /\ Feeds(Tail(s), n + b, u)
    BY <1>3, <1>4, <1>5, FeedsHead
<1>7. /\ b < CmdLen /\ n + b <= Len(aof)
      /\ \A i \in 1 .. b : rs[r].buf[i] = aof[n + i]
      /\ Boundary(n) /\ rs[r].db = hist[n + 1]
    BY <1>1, <1>2 DEF Applied, Buffered, Input
<1> QED
    BY <1>2, <1>3, <1>4, <1>6, <1>7

\* The stream goes on behind a token that was taken.
LEMMA FedOn ==
    ASSUME TypeInv, Grows, pm' = pm, NEW r \in Replica, tcp[r].p2r # <<>>,
           tcp'[r].p2r = Tail(tcp[r].p2r), NEW u \in Nat, NEW p \in Nat,
           pm.conn = r => u = SentPos, Feeds(Tail(tcp[r].p2r), p, u), Input(r)' = p
    PROVE  Fed(r)'
<1>1. PICK s \in Seq(Token) : s = Tail(tcp[r].p2r)
    <2>1. tcp[r].p2r \in Seq(Token)
        BY DEF TypeInv, TypeOK, TcpConn
    <2>2. Tail(tcp[r].p2r) \in Seq(Token)
        BY <2>1
    <2> QED
        BY <2>2
<1>2. Feeds(s, p, u)'
    BY <1>1, FeedsStays DEF TypeInv
<1>3. SentPos' = SentPos
    BY DEF SentPos
<1> QED
    BY <1>1, <1>2, <1>3 DEF Fed

\* A cell that does not complete a command is kept in the input buffer.
LEMMA CellStreams ==
    ASSUME TypeInv, TypeInv', LogInv, StreamInv, Grows, NEW r \in Replica, CellStep(r)
    PROVE  Streams(r)'
<1> DEFINE input == Append(rs[r].buf, Head(tcp[r].p2r))
<1>1. /\ PrimaryKept /\ Following(r) /\ tcp[r].p2r # <<>> /\ Head(tcp[r].p2r) \in Cell
      /\ Len(input) < CmdLen /\ rs'[r] = [rs[r] EXCEPT !.buf = input]
      /\ rm'[r] = rm[r] /\ tcp'[r].p2r = Tail(tcp[r].p2r)
    BY DEF CellStep, Follows, CellKept, TokenTaken, Following
<1>2. PICK n \in Nat, b \in Nat, u \in Nat :
              /\ n = Len(rs[r].aof) /\ b = Len(rs[r].buf)
              /\ b < CmdLen /\ n + b <= Len(aof)
              /\ \A i \in 1 .. b : rs[r].buf[i] = aof[n + i]
              /\ Boundary(n) /\ rs[r].db = hist[n + 1]
              /\ pm.conn = r => u = SentPos
              /\ \/ /\ Head(tcp[r].p2r) \in Cell /\ n + b < Len(aof)
                    /\ Head(tcp[r].p2r) = aof[n + b + 1]
                    /\ Feeds(Tail(tcp[r].p2r), n + b + 1, u)
                 \/ /\ Head(tcp[r].p2r) \in OnlineLine /\ Head(tcp[r].p2r).off = n + b
                    /\ Boundary(n + b) /\ Feeds(Tail(tcp[r].p2r), n + b, u)
    BY <1>1, NextToken
<1>3. /\ Head(tcp[r].p2r) = aof[n + b + 1] /\ n + b < Len(aof)
      /\ Feeds(Tail(tcp[r].p2r), n + b + 1, u)
    BY <1>1, <1>2, CellOrOnline
<1>4. rs[r] \in ReplicaStore /\ rs[r].buf \in Seq(Cell) /\ aof' = aof /\ hist' = hist /\ pm' = pm
    BY <1>1 DEF TypeInv, TypeOK, ReplicaStore, PrimaryKept
<1>5. /\ Len(input) = b + 1 /\ input[b + 1] = Head(tcp[r].p2r)
      /\ \A i \in 1 .. b : input[i] = rs[r].buf[i]
    BY <1>1, <1>2, <1>4
<1> HIDE DEF input
<1>6. /\ rs'[r].buf = input /\ rs'[r].aof = rs[r].aof /\ rs'[r].db = rs[r].db
      /\ rs'[r].snapDb = rs[r].snapDb
    BY <1>1, <1>4 DEF ReplicaStore
<1>7. Applied(r)' /\ Backed(r)'
    <2>1. Applied(r) /\ Backed(r)
        BY <1>1 DEF StreamInv, Streams
    <2>2. Applied(r)'
        BY <1>4, <1>6, <2>1 DEF Applied, Boundary
    <2>3. Backed(r)'
        BY <1>4, <1>6, <2>1 DEF Backed, Boundary, SnapshotAt
    <2> QED
        BY <2>2, <2>3
<1>8. Input(r)' = n + b + 1
    <2>1. Len(rs'[r].aof) = n /\ Len(rs'[r].buf) = b + 1
        BY <1>2, <1>5, <1>6
    <2> QED
        BY <2>1, Sums DEF Input
<1>9. Buffered(r)'
    <2>1. ASSUME NEW i \in 1 .. b + 1 PROVE input[i] = aof[n + i]
        <3>1. CASE i \in 1 .. b
            BY <1>2, <1>5, <3>1
        <3>2. CASE i = b + 1
            <4>1. n + (b + 1) = n + b + 1
                BY Sums
            <4> QED
                BY <1>3, <1>5, <3>2, <4>1
        <3> QED
            BY <1>2, <3>1, <3>2
    <2>2. n + b + 1 <= Len(aof)
        <3>1. Len(aof) \in Nat
            BY DEF TypeInv, TypeOK
        <3> QED
            BY <1>3, <3>1
    <2> QED
        BY <1>1, <1>2, <1>4, <1>5, <1>6, <1>8, <2>1, <2>2 DEF Buffered
<1>10. Fed(r)'
    <2>1. n + b + 1 \in Nat
        BY Sums
    <2> QED
        BY <1>1, <1>2, <1>3, <1>4, <1>8, <2>1, FedOn
<1>11. Following(r)'
    BY <1>1 DEF Following
<1> QED
    BY <1>7, <1>9, <1>10, <1>11 DEF Streams

\* The cell that completes a command: the engine, the AOF and the offset move to
\* the end of the command.
LEMMA CommandStreams ==
    ASSUME TypeInv, TypeInv', LogInv, StreamInv, Grows, NEW r \in Replica, CommandStep(r)
    PROVE  /\ Streams(r)' /\ Following(r)'
           /\ rm'[r].state = rm[r].state
           /\ Len(rs'[r].aof) > Len(rs[r].aof)
<1> DEFINE input == Append(rs[r].buf, Head(tcp[r].p2r))
           end == Len(rs[r].aof) + Len(input)
           next == Execute(rs[r].db, input[1].cmd)
           longer == rs[r].aof \o input
<1>1. /\ PrimaryKept /\ Following(r) /\ tcp[r].p2r # <<>> /\ Head(tcp[r].p2r) \in Cell
      /\ input = Encode(input[1].cmd)
      /\ rs'[r] = [rs[r] EXCEPT !.db = next, !.aof = longer, !.buf = <<>>]
      /\ rm'[r] = [rm[r] EXCEPT !.offset = end] /\ tcp'[r].p2r = Tail(tcp[r].p2r)
    BY DEF CommandStep, Follows, CommandDone, TokenTaken, Following
<1>2. PICK n \in Nat, b \in Nat, u \in Nat :
              /\ n = Len(rs[r].aof) /\ b = Len(rs[r].buf)
              /\ b < CmdLen /\ n + b <= Len(aof)
              /\ \A i \in 1 .. b : rs[r].buf[i] = aof[n + i]
              /\ Boundary(n) /\ rs[r].db = hist[n + 1]
              /\ pm.conn = r => u = SentPos
              /\ \/ /\ Head(tcp[r].p2r) \in Cell /\ n + b < Len(aof)
                    /\ Head(tcp[r].p2r) = aof[n + b + 1]
                    /\ Feeds(Tail(tcp[r].p2r), n + b + 1, u)
                 \/ /\ Head(tcp[r].p2r) \in OnlineLine /\ Head(tcp[r].p2r).off = n + b
                    /\ Boundary(n + b) /\ Feeds(Tail(tcp[r].p2r), n + b, u)
    BY <1>1, NextToken
<1>3. /\ Head(tcp[r].p2r) = aof[n + b + 1] /\ n + b < Len(aof)
      /\ Feeds(Tail(tcp[r].p2r), n + b + 1, u)
    BY <1>1, <1>2, CellOrOnline
<1>4. /\ rs[r] \in ReplicaStore /\ rs[r].buf \in Seq(Cell) /\ rs[r].aof \in Seq(Cell)
      /\ aof' = aof /\ hist' = hist /\ pm' = pm /\ rm[r] \in ReplicaManager
      /\ Len(aof) \in Nat /\ CmdLen \in Nat \ {0}
    <2>1. aof \in Seq(Cell) /\ rs[r] \in ReplicaStore /\ rm[r] \in ReplicaManager
        BY DEF TypeInv, TypeOK
    <2>2. rs[r].buf \in Seq(Cell) /\ rs[r].aof \in Seq(Cell)
        BY <2>1 DEF ReplicaStore
    <2>3. aof' = aof /\ hist' = hist /\ pm' = pm
        BY <1>1 DEF PrimaryKept
    <2> QED
        BY <2>1, <2>2, <2>3, EngineAssumption
<1>5. /\ Len(input) = b + 1 /\ input[b + 1] = Head(tcp[r].p2r) /\ input \in Seq(Cell)
      /\ \A i \in 1 .. b : input[i] = rs[r].buf[i]
    BY <1>1, <1>2, <1>4
<1>6. b + 1 = CmdLen
    <2>1. Len(Encode(input[1].cmd)) = CmdLen
        BY <1>4 DEF Encode
    <2> QED
        BY <1>1, <1>5, <2>1
<1> HIDE DEF input
<1>7. ASSUME NEW i \in 1 .. CmdLen PROVE input[i] = aof[n + i]
    <2>1. CASE i \in 1 .. b
        BY <1>2, <1>5, <2>1
    <2>2. CASE i = b + 1
        <3>1. n + (b + 1) = n + b + 1
            BY Sums
        <3> QED
            BY <1>3, <1>5, <2>2, <3>1
    <2> QED
        BY <1>2, <1>6, <2>1, <2>2
<1>8. CommandFrom(n)
    <2>1. n < Len(aof)
        BY <1>3, <1>4, Sums
    <2> QED
        BY <1>2, <2>1 DEF LogInv, Boundary
<1>9. input[1].cmd = aof[n + 1].cmd
    BY <1>4, <1>7
<1>10. next = hist[n + CmdLen + 1] /\ Boundary(n + CmdLen)
    BY <1>2, <1>8, <1>9 DEF CommandFrom
<1>11. /\ Len(longer) = n + CmdLen
       /\ \A i \in 1 .. n : longer[i] = rs[r].aof[i]
       /\ \A i \in 1 .. CmdLen : longer[n + i] = input[i]
    <2>1. PICK old \in Seq(Cell) : old = rs[r].aof
        BY <1>4
    <2>2. PICK new \in Seq(Cell) : new = input
        BY <1>5
    <2>3. n = Len(old) /\ CmdLen = Len(new)
        BY <1>2, <1>5, <1>6, <2>1, <2>2
    <2>4. /\ Len(old \o new) = Len(old) + Len(new)
          /\ \A i \in 1 .. Len(old) : (old \o new)[i] = old[i]
          /\ \A i \in 1 .. Len(new) : (old \o new)[Len(old) + i] = new[i]
        BY ConcatFacts
    <2> QED
        BY <2>1, <2>2, <2>3, <2>4
<1> HIDE DEF longer, next, end
<1>12. /\ rs'[r].buf = <<>> /\ rs'[r].aof = longer /\ rs'[r].db = next
       /\ rs'[r].snapDb = rs[r].snapDb
    BY <1>1, <1>4 DEF ReplicaStore
<1>13. rm'[r].state = rm[r].state
    BY <1>1, <1>4 DEF ReplicaManager
<1>14. Applied(r)'
    <2>1. Boundary(n + CmdLen)'
        BY <1>4, <1>10 DEF Boundary
    <2> QED
        BY <1>4, <1>10, <1>11, <1>12, <2>1 DEF Applied
<1>15. Input(r)' = n + b + 1
    <2>1. Len(rs'[r].aof) = n + (b + 1) /\ Len(rs'[r].buf) = 0
        BY <1>6, <1>11, <1>12
    <2>2. \A m \in Nat : m + 0 = m
        OBVIOUS
    <2> QED
        BY <2>1, <2>2, Sums DEF Input
<1>16. Buffered(r)'
    <2>1. n + b + 1 <= Len(aof)
        BY <1>3, <1>4
    <2>2. Len(rs'[r].buf) = 0
        BY <1>12
    <2>3. Len(rs'[r].buf) < CmdLen
        BY <1>4, <2>2
    <2>4. 1 .. Len(rs'[r].buf) = {}
        BY <2>2
    <2> QED
        BY <1>4, <1>15, <2>1, <2>3, <2>4 DEF Buffered
<1>17. Fed(r)'
    <2>1. n + b + 1 \in Nat
        BY Sums
    <2> QED
        BY <1>1, <1>2, <1>3, <1>4, <1>15, <2>1, FedOn
<1>18. Backed(r)'
    <2>1. PICK o \in Nat :
              /\ Boundary(o) /\ o <= n
              /\ rs[r].snapDb = SnapshotAt(o)
              /\ \A i \in o + 1 .. n : rs[r].aof[i] = aof[i]
        BY <1>1, <1>2 DEF StreamInv, Streams, Backed
    <2>2. ASSUME NEW i \in o + 1 .. n + CmdLen PROVE longer[i] = aof[i]
        <3>1. CASE i <= n
            <4>1. i \in 1 .. n /\ i \in o + 1 .. n
                BY <1>4, <3>1
            <4> QED
                BY <1>11, <2>1, <4>1
        <3>2. CASE i > n
            <4>1. PICK j \in 1 .. CmdLen : i = n + j
                <5>1. i - n \in 1 .. CmdLen /\ i = n + (i - n)
                    BY <1>4, <3>2
                <5> QED
                    BY <5>1
            <4> QED
                BY <1>7, <1>11, <4>1
        <3> QED
            BY <1>4, <3>1, <3>2
    <2>3. o <= n + CmdLen
        BY <1>4, <2>1
    <2>4. Boundary(o)' /\ SnapshotAt(o)' = SnapshotAt(o)
        BY <1>4, <2>1 DEF Boundary, SnapshotAt
    <2> QED
        BY <1>4, <1>11, <1>12, <2>1, <2>2, <2>3, <2>4 DEF Backed
<1>19. Following(r)'
    BY <1>1, <1>13 DEF Following
<1>20. Len(rs'[r].aof) > Len(rs[r].aof)
    BY <1>2, <1>4, <1>11, <1>12
<1> QED
    BY <1>13, <1>14, <1>16, <1>17, <1>18, <1>19, <1>20 DEF Streams

\* An ONLINE line moves nothing but the state.
LEMMA OnlineStreams ==
    ASSUME TypeInv, TypeInv', LogInv, StreamInv, Grows, NEW r \in Replica, OnlineStep(r)
    PROVE  Streams(r)'
<1>1. /\ PrimaryKept /\ Following(r) /\ tcp[r].p2r # <<>> /\ Head(tcp[r].p2r) \in OnlineLine
      /\ rs'[r] = rs[r] /\ rm'[r].state = "ONLINE" /\ tcp'[r].p2r = Tail(tcp[r].p2r)
    BY DEF OnlineStep, Follows, TokenTaken, Following
<1>2. PICK n \in Nat, b \in Nat, u \in Nat :
              /\ n = Len(rs[r].aof) /\ b = Len(rs[r].buf)
              /\ pm.conn = r => u = SentPos
              /\ Feeds(Tail(tcp[r].p2r), n + b, u)
    BY <1>1, NextToken, CellOrOnline
<1>3. pm' = pm
    BY <1>1 DEF PrimaryKept
<1>4. Input(r)' = n + b
    BY <1>1, <1>2 DEF Input
<1>5. Fed(r)'
    <2>1. n + b \in Nat
        BY Sums
    <2> QED
        BY <1>1, <1>2, <1>3, <1>4, <2>1, FedOn
<1>6. Applied(r)' /\ Buffered(r)' /\ Backed(r)'
    BY <1>1, StoreStays DEF StreamInv, Streams
<1>7. Following(r)'
    BY <1>1 DEF Following
<1> QED
    BY <1>5, <1>6, <1>7 DEF Streams

\* A chunk of the snapshot: after the last one the Replica stands at the offset
\* of the snapshot, where the Primary's stream stands too.
LEMMA ChunkStreams ==
    ASSUME TypeInv, TypeInv', SlotInv, LogInv, RoundInv, WireInv, FileInv, StreamInv, Grows,
           NEW r \in Replica, ChunkStep(r)
    PROVE  Streams(r)'
<1>1. /\ PrimaryKept /\ rm[r].state = "FULL_SYNC" /\ tcp' = tcp
      /\ ChunkWritten(r, Head(wire[r].pr)) \/ ChunkInstalled(r, Head(wire[r].pr))
    BY DEF ChunkStep, ChunkTaken
<1>2. rs[r].buf = <<>>
    BY <1>1 DEF StreamInv, Streams, Following
<1>3. CASE ChunkWritten(r, Head(wire[r].pr))
    <2> DEFINE more == rs[r].tmp \o Head(wire[r].pr)
    <2>1. rs'[r] = [rs[r] EXCEPT !.tmp = more] /\ rm'[r].state = "FULL_SYNC"
        BY <1>3 DEF ChunkWritten, Written
    <2> HIDE DEF more
    <2>2. rs[r] \in ReplicaStore
        BY DEF TypeInv, TypeOK
    <2>3. rs'[r].buf = rs[r].buf
        BY <2>1, <2>2 DEF ReplicaStore
    <2> QED
        BY <1>2, <2>1, <2>3, StreamsIdle
<1>4. CASE ChunkInstalled(r, Head(wire[r].pr))
    <2>0. rm'[r].state = "CATCH_UP"
        BY <1>4 DEF ChunkInstalled
    <2>1. PICK o \in Nat : o = rm[r].offset
        BY DEF TypeInv, TypeOK, ReplicaManager
    <2>2. /\ Boundary(o) /\ rm'[r].offset = o
          /\ pm.conn = r /\ pm.state = "FULL_SYNC" /\ pm.offset = o
          /\ tcp[r].p2r = <<>>
          /\ Holds(r)' /\ rs'[r].db = hist[o + 1] /\ rs'[r].buf = rs[r].buf
          /\ rs'[r].aof = ResetToOffset(rs[r].aof, o)
        BY <2>0, <2>1, ChunkStored
    <2>3. Len(rs'[r].aof) = o
        BY <2>2 DEF ResetToOffset
    <2>4. aof' = aof /\ hist' = hist /\ pm' = pm
        BY <1>1 DEF PrimaryKept
    <2>5. Boundary(o)'
        BY <2>2, <2>4 DEF Boundary
    <2>6. Applied(r)'
        BY <2>2, <2>3, <2>4, <2>5 DEF Applied
    <2>7. Len(rs'[r].buf) = 0 /\ Input(r)' = o
        BY <1>2, <2>2, <2>3 DEF Input
    <2>8. Buffered(r)'
        <3>1. 0 < CmdLen /\ 1 .. 0 = {}
            BY EngineAssumption
        <3>2. o <= Len(aof)
            BY <2>2 DEF Boundary
        <3> QED
            BY <2>4, <2>7, <3>1, <3>2 DEF Buffered
    <2>9. Fed(r)'
        <3>1. SentPos' = o
            BY <2>2, <2>4 DEF SentPos, RoundInv, RoundFile
        <3>2. Feeds(<<>>, o, o)
            BY FeedsNothing
        <3>3. Feeds(<<>>, o, o)'
            BY <2>4, <3>2 DEF Feeds, Leads, Boundary
        <3> QED
            BY <1>1, <2>2, <2>7, <3>1, <3>3 DEF Fed
    <2>10. Backed(r)'
        <3>1. rs'[r].snapDb = SnapshotAt(o)'
            BY <2>2 DEF Holds
        <3>2. o + 1 .. o = {} /\ o <= o
            OBVIOUS
        <3> QED
            BY <2>3, <2>5, <3>1, <3>2 DEF Backed
    <2> QED
        BY <2>0, <2>6, <2>8, <2>9, <2>10 DEF Streams, Following
<1> QED
    BY <1>1, <1>3, <1>4

\* Every step keeps StreamInv.
LEMMA StreamsStep ==
    ASSUME TypeInv, TypeInv', SlotInv, LogInv, FreshInv, CmInv, RoundInv, LineInv, WireInv,
           FileInv, StreamInv, Grows, AnyStep
    PROVE  StreamInv'
<1>0. TypeOK /\ pm \in PrimaryManager /\ rm \in [Replica -> ReplicaManager]
      /\ rs \in [Replica -> ReplicaStore] /\ tcp \in [Replica -> TcpConn]
    BY DEF TypeInv, TypeOK
<1>1. ASSUME UNCHANGED <<rm, rs>>,
             \A q \in Replica : tcp'[q].p2r = tcp[q].p2r \/ ~Following(q),
             \/ pm'.conn = NoConn
             \/ pm'.conn = pm.conn /\ SentPos' = SentPos
      PROVE  StreamInv'
    <2> SUFFICES ASSUME NEW q \in Replica PROVE Streams(q)'
        BY DEF StreamInv
    <2>1. q # NoConn
        BY ReplicationAssumption
    <2>2. CASE Following(q)
        BY <1>1, <2>1, <2>2, StreamsKept
    <2>3. CASE ~Following(q)
        <3>1. rs'[q].buf = <<>> /\ ~Following(q)'
            BY <1>1, <2>3 DEF StreamInv, Streams, Following
        <3> QED
            BY <3>1 DEF Streams
    <2> QED
        BY <2>2, <2>3
<1>2. ASSUME pm' = pm PROVE pm'.conn = pm.conn /\ SentPos' = SentPos
    BY <1>2 DEF SentPos
<1>3. CASE (\E c \in Command : ClientWrite(c)) \/ UNCHANGED vars
    BY <1>1, <1>2, <1>3 DEF ClientWrite, vars
<1>4. ASSUME NEW r \in Replica \cup {NoConn}, DropStep(r) PROVE StreamInv'
    <2>1. DropReplica(r) /\ UNCHANGED <<rm, rs>>
        BY <1>4 DEF DropStep
    <2>2. \A q \in Replica : tcp'[q].p2r = tcp[q].p2r
        BY <1>0, <2>1, DropReplicaEffect
    <2>3. CASE pm.conn # r
        BY <1>1, <1>2, <2>1, <2>2, <2>3 DEF DropReplica
    <2>4. CASE pm.conn = r
        <3>1. pm'.conn = NoConn
            BY <2>1, <2>4 DEF DropReplica, PrimaryStarted
        <3> QED
            BY <1>1, <2>1, <2>2, <3>1
    <2> QED
        BY <2>3, <2>4
<1>5. ASSUME NEW r \in Replica, NEW store, HangUpStep(r, store) PROVE StreamInv'
    <2>1. DropPrimary(r, store) /\ pm' = pm
        BY <1>5 DEF HangUpStep, PrimaryKept
    <2>2. Alone(r) /\ rm'[r].state = "DISCONNECTED"
        BY <1>0, <2>1, DropPrimaryEffect DEF Alone
    <2>3. rs'[r].buf = <<>>
        <3>1. rs'[r] = [store EXCEPT !.tmp = <<>>, !.buf = <<>>]
            BY <1>0, <2>1 DEF DropPrimary
        <3>2. rs'[r] \in ReplicaStore
            BY DEF TypeInv, TypeOK
        <3>3. "buf" \in DOMAIN store
            BY <3>1, <3>2 DEF ReplicaStore
        <3> QED
            BY <3>1, <3>3
    <2>4. Streams(r)'
        BY <2>2, <2>3, StreamsIdle
    <2> QED
        BY <2>1, <2>2, <2>4, StreamsAlone
<1>6. CASE PrimaryAccept \/ PrimaryReject
    <2>1. UNCHANGED <<pm, rm, rs, tcp>>
        BY <1>6 DEF PrimaryAccept, PrimaryReject
    <2> QED
        BY <1>1, <1>2, <2>1
<1>7. CASE PrimaryDisconnect
    <2>1. UNCHANGED <<rm, rs, tcp>> /\ pm' = [pm EXCEPT !.reader = Closed]
        BY <1>7 DEF PrimaryDisconnect
    <2>2. pm'.conn = pm.conn /\ SentPos' = SentPos
        BY <1>0, <2>1 DEF SentPos, PrimaryManager
    <2> QED
        BY <1>1, <2>1, <2>2
<1>8. CASE PrimaryEstablished \/ PrimarySendDone
    <2>1. UNCHANGED <<pm, rm, rs, tcp>>
        BY <1>0, <1>8, EstablishedEffect, SendDoneEffect
    <2> QED
        BY <1>1, <1>2, <2>1
<1>9. ASSUME NEW p \in Replica, NEW n \in Nat, NextChunkStep(p, n) \/ FirstChunkStep(p, n)
      PROVE  StreamInv'
    <2>1. /\ UNCHANGED <<rm, rs, tcp>>
          /\ pm'.conn = pm.conn /\ pm'.offset = pm.offset /\ pm'.aofLeft = pm.aofLeft
          /\ pm.state = "FULL_SYNC"
        BY <1>9 DEF NextChunkStep, FirstChunkStep, Polls, ChunkSent
    <2>2. SentPos' = SentPos
        BY <2>1 DEF SentPos, RoundInv, RoundFile
    <2> QED
        BY <1>1, <2>1, <2>2
<1>10. ASSUME NEW p \in Replica, AckStep(p) PROVE StreamInv'
    BY <1>1, <1>2, <1>10 DEF AckStep, AckTaken, Polls
<1>11. CASE FinishStep \/ StreamStep
    BY <1>11, StreamsSent
<1>12. ASSUME NEW r \in Replica, PingStep(r) PROVE StreamInv'
    <2>1. /\ UNCHANGED <<pm, rm, rs>>
          /\ \A q \in Replica : q # r => tcp'[q] = tcp[q]
          /\ tcp[r].r2p # <<>>
        BY <1>12 DEF PingStep
    <2>2. ~Following(r)
        BY <2>1 DEF LineInv, Lines, Following
    <2> QED
        BY <1>1, <1>2, <2>1, <2>2
<1>13. ASSUME NEW r \in Replica, PsyncStep(r) PROVE StreamInv'
    <2>1. /\ UNCHANGED <<rm, rs>> /\ pm'.conn = r
          /\ \A q \in Replica : q # r => tcp'[q] = tcp[q]
          /\ tcp[r].r2p # <<>>
        BY <1>13 DEF PsyncStep
    <2>2. ~Following(r)
        BY <2>1 DEF LineInv, Lines, Following
    <2>3. Streams(r)'
        <3>1. rs'[r].buf = <<>> /\ ~Following(r)'
            BY <2>1, <2>2 DEF StreamInv, Streams, Following
        <3> QED
            BY <3>1 DEF Streams
    <2>4. ASSUME NEW q \in Replica, q # r PROVE Streams(q)'
        BY <2>1, <2>4, StreamsKept
    <2> QED
        BY <2>3, <2>4 DEF StreamInv
<1>14. ASSUME NEW r \in Replica, ReplicaConnect(r) PROVE StreamInv'
    <2>1. /\ Alone(r) /\ pm' = pm /\ rm'[r].state = "HANDSHAKE"
          /\ rm[r].state = "DOWN" /\ rs'[r] = rs[r]
        BY <1>0, <1>14, ConnectEffect DEF PrimaryKept
    <2>2. rs'[r].buf = <<>>
        BY <2>1 DEF StreamInv, Streams, Following
    <2>3. Streams(r)'
        BY <2>1, <2>2, StreamsIdle
    <2> QED
        BY <2>1, <2>3, StreamsAlone
<1>15. ASSUME NEW r \in Replica, HandshakeStep(r) PROVE StreamInv'
    <2>1. /\ Alone(r) /\ pm' = pm /\ rm[r].state = "HANDSHAKE"
          /\ PongTaken(r) \/ ResyncTaken(r, Head(tcp[r].p2r))
        BY <1>15 DEF HandshakeStep, PrimaryKept
    <2>2. rs[r].buf = <<>>
        BY <2>1 DEF StreamInv, Streams, Following
    <2>3. rs'[r] = rs[r] \/ rs'[r] = [rs[r] EXCEPT !.tmp = <<>>]
        BY <2>1 DEF PongTaken, ResyncTaken
    <2>4. rs'[r].buf = <<>>
        BY <1>0, <2>2, <2>3 DEF ReplicaStore
    <2>5. rm'[r].state \notin {"CATCH_UP", "ONLINE"}
        BY <2>1 DEF PongTaken, ResyncTaken
    <2>6. Streams(r)'
        BY <2>4, <2>5, StreamsIdle
    <2> QED
        BY <2>1, <2>6, StreamsAlone
<1>16. ASSUME NEW r \in Replica, CellStep(r) \/ CommandStep(r) \/ OnlineStep(r)
       PROVE  StreamInv'
    <2>1. Alone(r) /\ pm' = pm
        BY <1>16 DEF CellStep, CommandStep, OnlineStep, Follows, PrimaryKept
    <2>2. Streams(r)'
        BY <1>16, CellStreams, CommandStreams, OnlineStreams
    <2> QED
        BY <2>1, <2>2, StreamsAlone
<1>17. ASSUME NEW r \in Replica,
              \/ ReplicaResolveRoute(r) \/ ReplicaRdmaConnect(r) \/ ReplicaEstablished(r)
              \/ ReplicaSendAck(r) \/ ReplicaSendDone(r) \/ FinishedStep(r) \/ BreakStep(r)
       PROVE  StreamInv'
    <2>1. UNCHANGED <<pm, rm, rs, tcp>>
        BY <1>17 DEF ReplicaResolveRoute, ReplicaRdmaConnect, ReplicaEstablished,
             ReplicaSendAck, ReplicaSendDone, FinishedStep, BreakStep, PrimaryKept, primaryVars
    <2> QED
        BY <1>1, <1>2, <2>1
<1>18. ASSUME NEW r \in Replica, ChunkStep(r) PROVE StreamInv'
    <2>1. Alone(r) /\ pm' = pm
        BY <1>18 DEF ChunkStep, PrimaryKept
    <2>2. Streams(r)'
        BY <1>18, ChunkStreams
    <2> QED
        BY <2>1, <2>2, StreamsAlone
<1>19. CASE PrimaryRestart
    <2>1. pm'.conn = NoConn /\ UNCHANGED <<rm, rs>>
        BY <1>19 DEF PrimaryRestart, PrimaryStarted
    <2>2. ASSUME NEW q \in Replica PROVE tcp'[q].p2r = tcp[q].p2r
        BY <1>0, <1>19, <2>2, RestartEffect
    <2> QED
        BY <1>1, <2>1, <2>2
<1> QED
    BY <1>3, <1>4, <1>5, <1>6, <1>7, <1>8, <1>9, <1>10, <1>11, <1>12, <1>13, <1>14, <1>15,
       <1>16, <1>17, <1>18, <1>19 DEF AnyStep

\* No Replica follows at first.
LEMMA StreamsInit == Init => StreamInv
<1> SUFFICES ASSUME Init, NEW r \in Replica PROVE Streams(r)
    BY DEF StreamInv
<1>1. ~Following(r)
    BY DEF Init, ReplicaStarted, Following
<1>2. PICK old : rs = [q \in Replica |-> [db |-> EmptyDb, aof |-> old[q], tmp |-> <<>>,
                                          snapDb |-> <<>>, buf |-> <<>>]]
    BY DEF Init
<1>3. rs[r].buf = <<>>
    BY <1>2
<1> QED
    BY <1>1, <1>3 DEF Streams

-----------------------------------------------------------------------------
(* The theorems.                                                            *)

\* The invariant of the whole of replication.
ReplicationInv == SyncInv /\ StreamInv

\* ReplicationInv holds in every state, and every step only adds to the log.
LEMMA ReplicationStep == ReplicationInv /\ [Next]_vars => ReplicationInv'
<1> SUFFICES ASSUME SyncInv, StreamInv, [Next]_vars PROVE SyncInv' /\ StreamInv'
    BY DEF ReplicationInv
<1>1. SyncInv'
    BY SyncStep
<1>2. AnyStep /\ Grows
    BY StepCases, LogStep DEF SyncInv
<1>3. StreamInv'
    BY <1>1, <1>2, StreamsStep DEF SyncInv
<1> QED
    BY <1>1, <1>3

\* ReplicationCorrect: ReplicationInv holds in every state.
LEMMA ReplicationCorrect == Spec => []ReplicationInv
<1>1. Init => ReplicationInv
    BY SyncInit, StreamsInit DEF ReplicationInv
<1> QED
    BY <1>1, ReplicationStep, PTL DEF Spec

\* ReplicasFollowTheLog: the engine of a Replica that has installed a snapshot is
\* exactly the engine the Primary had at the AOF offset the Replica has reached
\* (ReplicaPrefix), for every number of Replicas, every length of commands, blocks
\* and chunks, and whatever fails.
THEOREM ReplicasFollowTheLog == Spec => []ReplicaPrefix
<1>1. ReplicationInv => ReplicaPrefix
    <2> SUFFICES ASSUME ReplicationInv, NEW r \in Replica, Following(r)
                 PROVE  /\ Len(rs[r].aof) <= Len(aof)
                        /\ rs[r].db = hist[Len(rs[r].aof) + 1]
        BY DEF ReplicaPrefix
    <2>1. Applied(r)
        BY DEF ReplicationInv, StreamInv, Streams
    <2> QED
        BY <2>1 DEF Applied, Boundary
<1> QED
    BY <1>1, ReplicationCorrect, PTL

\* A command is not cut by an ONLINE line: between the offset of the last command
\* and the next one no other command ends.
LEMMA NoCutAtBoundary ==
    ASSUME TypeInv, LogInv, NEW n \in Nat, NEW b \in Nat, b < CmdLen,
           Boundary(n), Boundary(n + b)
    PROVE  b = 0
<1> SUFFICES ASSUME b > 0 PROVE FALSE
    OBVIOUS
<1>1. Len(aof) \in Nat /\ CmdLen \in Nat
    BY EngineAssumption DEF TypeInv, TypeOK
<1>2. n < Len(aof)
    <2>1. n + b <= Len(aof)
        BY DEF Boundary
    <2> QED
        BY <1>1, <2>1
<1>3. CommandFrom(n)
    BY <1>2 DEF Boundary, LogInv
<1>4. n + CmdLen <= Len(aof)
    BY <1>3 DEF CommandFrom
<1>5. n + b < Len(aof) /\ b + 1 \in 1 .. CmdLen /\ n + (b + 1) = n + b + 1
    BY <1>1, <1>4
<1>6. aof[n + b + 1].part = 1
    BY <1>5 DEF Boundary
<1>7. aof[n + (b + 1)] = [cmd |-> aof[n + 1].cmd, part |-> b + 1]
    BY <1>3, <1>5 DEF CommandFrom
<1>8. b + 1 = 1
    BY <1>5, <1>6, <1>7
<1> QED
    BY <1>8

\* OnlineIsAccepted: an ONLINE line that reaches the head of the input finds the
\* Replica between two commands and at the offset it names (OnlineAccepted).
THEOREM OnlineIsAccepted == Spec => []OnlineAccepted
<1>1. ReplicationInv => OnlineAccepted
    <2> SUFFICES ASSUME ReplicationInv, NEW r \in Replica,
                        ReplicaReads(r, {"CATCH_UP", "ONLINE"}),
                        Head(tcp[r].p2r) \in OnlineLine
                 PROVE  rs[r].buf = <<>> /\ Head(tcp[r].p2r).off = Len(rs[r].aof)
        BY DEF OnlineAccepted
    <2>1. Following(r) /\ tcp[r].p2r # <<>> /\ TypeInv /\ LogInv /\ StreamInv
        BY DEF ReplicaReads, Following, ReplicationInv, SyncInv
    <2>2. PICK n \in Nat, b \in Nat :
              /\ n = Len(rs[r].aof) /\ b = Len(rs[r].buf) /\ b < CmdLen
              /\ Boundary(n) /\ Boundary(n + b) /\ Head(tcp[r].p2r).off = n + b
        BY <2>1, NextToken, CellOrOnline
    <2>3. b = 0
        BY <2>1, <2>2, NoCutAtBoundary
    <2>4. rs[r].buf \in Seq(Cell)
        BY <2>1 DEF TypeInv, TypeOK, ReplicaStore
    <2>5. rs[r].buf = <<>>
        <3>1. \A s \in Seq(Cell) : Len(s) = 0 => s = <<>>
            OBVIOUS
        <3> QED
            BY <2>2, <2>3, <2>4, <3>1
    <2>6. n + 0 = n
        OBVIOUS
    <2> QED
        BY <2>2, <2>3, <2>5, <2>6
<1> QED
    BY <1>1, ReplicationCorrect, PTL

-----------------------------------------------------------------------------
(* Replication implements the replicated log.                               *)

\* What the refinement mapping makes of Replica r.
Position(r) == IF Following(r) THEN Len(rs[r].aof) ELSE -1
Reads(r) == IF rm[r].state = "ONLINE" THEN rs[r].db ELSE NotServing

positions == [r \in Replica |-> Position(r)]
reads == [r \in Replica |-> Reads(r)]

\* A step that no client can see.
LEMMA LogStutters ==
    ASSUME hist' = hist, positions' = positions, reads' = reads
    PROVE  UNCHANGED Log!absVars
    BY DEF Log!absVars, positions, reads, Position, Reads

\* A write of the Primary.
LEMMA LogCommits ==
    ASSUME Len(hist') > Len(hist), \A i \in 1 .. Len(hist) : hist'[i] = hist[i],
           positions' = positions, reads' = reads
    PROVE  Log!AbsNext
<1>1. Log!Commit
    BY DEF Log!Commit, positions, reads, Position, Reads
<1> QED
    BY <1>1 DEF Log!AbsNext

\* A Replica installs a snapshot of the log.
LEMMA LogInstalls ==
    ASSUME NEW r \in Replica, Position(r) = -1, Reads(r) = NotServing,
           NEW o \in 0 .. Len(hist) - 1,
           positions' = [positions EXCEPT ![r] = o], reads' = reads, hist' = hist
    PROVE  Log!AbsNext
<1>1. Log!Install(r)
    BY DEF Log!Install, positions, reads, Position, Reads
<1> QED
    BY <1>1 DEF Log!AbsNext

\* A Replica moves on along the log.
LEMMA LogAdvances ==
    ASSUME NEW r \in Replica, Position(r) # -1,
           NEW o \in Position(r) + 1 .. Len(hist) - 1,
           positions' = [positions EXCEPT ![r] = o], hist' = hist,
           reads' = IF Reads(r) = NotServing THEN reads
                    ELSE [reads EXCEPT ![r] = hist[o + 1]]
    PROVE  Log!AbsNext
<1>1. Log!Advance(r)
    BY DEF Log!Advance, positions, reads, Position, Reads
<1> QED
    BY <1>1 DEF Log!AbsNext

\* A Replica opens for reads.
LEMMA LogServes ==
    ASSUME NEW r \in Replica, Position(r) # -1, Reads(r) = NotServing,
           reads' = [reads EXCEPT ![r] = hist[Position(r) + 1]],
           positions' = positions, hist' = hist
    PROVE  Log!AbsNext
<1>1. Log!Serve(r)
    BY DEF Log!Serve, positions, reads, Position, Reads
<1> QED
    BY <1>1 DEF Log!AbsNext

\* A Replica is lost.
LEMMA LogLoses ==
    ASSUME NEW r \in Replica, Position(r) # -1,
           positions' = [positions EXCEPT ![r] = -1],
           reads' = [reads EXCEPT ![r] = NotServing], hist' = hist
    PROVE  Log!AbsNext
<1>1. Log!Lose(r)
    BY DEF Log!Lose, positions, reads, Position, Reads
<1> QED
    BY <1>1 DEF Log!AbsNext

\* A step that leaves what every Replica has applied as it is.
LEMMA NoneMoves ==
    ASSUME \A q \in Replica : Position(q)' = Position(q) /\ Reads(q)' = Reads(q)
    PROVE  positions' = positions /\ reads' = reads
    BY DEF positions, reads

\* A step of Replica r alone.
LEMMA OneMoves ==
    ASSUME NEW r \in Replica, Alone(r), PrimaryKept, NEW p, NEW d,
           Position(r)' = p, Reads(r)' = d
    PROVE  /\ hist' = hist
           /\ positions' = [positions EXCEPT ![r] = p]
           /\ reads' = [reads EXCEPT ![r] = d]
           /\ p = Position(r) => positions' = positions
           /\ d = Reads(r) => reads' = reads
<1>1. ASSUME NEW q \in Replica, q # r
      PROVE  Position(q)' = Position(q) /\ Reads(q)' = Reads(q)
    <2>1. rm'[q] = rm[q] /\ rs'[q] = rs[q]
        BY <1>1 DEF Alone, Unmoved
    <2> QED
        BY <2>1 DEF Position, Reads, Following
<1>2. hist' = hist
    BY DEF PrimaryKept
<1> HIDE DEF Position, Reads
<1>3. positions' = [q \in Replica |-> Position(q)'] /\ reads' = [q \in Replica |-> Reads(q)']
    BY DEF positions, reads
<1>4. \A q \in Replica : Position(q)' = [positions EXCEPT ![r] = p][q]
    BY <1>1 DEF positions
<1>5. \A q \in Replica : Reads(q)' = [reads EXCEPT ![r] = d][q]
    BY <1>1 DEF reads
<1> QED
    BY <1>2, <1>3, <1>4, <1>5 DEF positions, reads

\* Where a Replica stands in the log, when it follows.
Place(r) ==
    /\ Following(r) => /\ Position(r) = Len(rs[r].aof)
                       /\ Position(r) \in 0 .. Len(hist) - 1
                       /\ rs[r].db = hist[Position(r) + 1]
    /\ Position(r) = -1 <=> ~Following(r)
    /\ Reads(r) = NotServing <=> rm[r].state # "ONLINE"
    /\ Len(hist) \in Nat

\* What the invariant says of it.
LEMMA Placed == ReplicationInv => \A r \in Replica : Place(r)
<1> SUFFICES ASSUME ReplicationInv, NEW r \in Replica PROVE Place(r)
    OBVIOUS
<1>1. TypeInv /\ LogInv /\ Streams(r)
    BY DEF ReplicationInv, SyncInv, StreamInv
<1>2. /\ rs[r] \in ReplicaStore /\ rs[r].aof \in Seq(Cell) /\ rs[r].db \in Database
      /\ aof \in Seq(Cell) /\ hist \in Seq(Database)
    BY <1>1 DEF TypeInv, TypeOK, ReplicaStore
<1>3. Len(rs[r].aof) \in Nat /\ Len(aof) \in Nat /\ Len(hist) \in Nat
    BY <1>2
<1>4. Len(hist) = Len(aof) + 1
    BY <1>1 DEF LogInv
<1>5. ASSUME Following(r)
      PROVE  /\ Position(r) = Len(rs[r].aof) /\ Position(r) \in 0 .. Len(hist) - 1
             /\ rs[r].db = hist[Position(r) + 1]
    <2>1. Len(rs[r].aof) <= Len(aof) /\ rs[r].db = hist[Len(rs[r].aof) + 1]
        BY <1>1, <1>5 DEF Streams, Applied, Boundary
    <2>2. Position(r) = Len(rs[r].aof)
        BY <1>5 DEF Position
    <2>3. \A n, m \in Nat : n <= m => n \in 0 .. (m + 1) - 1
        OBVIOUS
    <2> QED
        BY <1>3, <1>4, <2>1, <2>2, <2>3
<1>6. -1 \notin Nat
    OBVIOUS
<1>7. Position(r) = -1 <=> ~Following(r)
    BY <1>3, <1>6 DEF Position
<1>8. Reads(r) = NotServing <=> rm[r].state # "ONLINE"
    BY <1>2, ReplicationAssumption DEF Reads
<1> QED
    BY <1>3, <1>5, <1>7, <1>8 DEF Place

\* The same behind a step.
LEMMA PlacedNext == ReplicationInv' => (\A r \in Replica : Place(r))'
    BY Placed, PTL

\* A step of a Replica that keeps its state, or is not followed before or after.
LEMMA SeenAlone ==
    ASSUME NEW r \in Replica, Alone(r), PrimaryKept,
           Position(r)' = Position(r), Reads(r)' = Reads(r)
    PROVE  UNCHANGED Log!absVars
<1>1. PICK p, d : p = Position(r) /\ d = Reads(r)
    OBVIOUS
<1> QED
    BY <1>1, OneMoves, LogStutters

\* Every step of replication is a step of the replicated log, or none.
LEMMA Simulation ==
    ASSUME ReplicationInv, ReplicationInv', Grows, AnyStep
    PROVE  [Log!AbsNext]_(Log!absVars)
<1>0. /\ TypeOK /\ TypeInv /\ TypeInv' /\ SlotInv /\ LogInv /\ RoundInv /\ WireInv /\ FileInv
      /\ LogInv' /\ StreamInv
      /\ rm \in [Replica -> ReplicaManager] /\ rs \in [Replica -> ReplicaStore]
      /\ \A r \in Replica : Place(r) /\ Place(r)'
    BY Placed, PlacedNext DEF ReplicationInv, SyncInv, TypeInv, TypeOK
<1>1. ASSUME UNCHANGED <<rm, rs>> PROVE positions' = positions /\ reads' = reads
    BY <1>1, NoneMoves DEF Position, Reads, Following
<1>2. ASSUME UNCHANGED <<hist, rm, rs>> PROVE UNCHANGED Log!absVars
    BY <1>1, <1>2, LogStutters
<1>3. ASSUME NEW c \in Command, ClientWrite(c) PROVE Log!AbsNext
    <2>1. UNCHANGED <<rm, rs>> /\ aof' = aof \o Encode(c)
        BY <1>3 DEF ClientWrite
    <2>2. aof \in Seq(Cell) /\ Encode(c) \in Seq(Cell) /\ CmdLen \in Nat \ {0}
        BY <1>0, EncodeType, EngineAssumption DEF TypeOK
    <2>3. Len(Encode(c)) = CmdLen
        BY <2>2 DEF Encode
    <2>4. Len(aof') > Len(aof)
        BY <2>1, <2>2, <2>3, ConcatFacts
    <2>5. Len(hist) = Len(aof) + 1 /\ Len(hist') = Len(aof') + 1
        BY <1>0 DEF LogInv
    <2>6. Len(aof) \in Nat /\ Len(aof') \in Nat
        BY <1>0 DEF TypeInv, TypeOK
    <2>7. Len(hist') > Len(hist)
        <3>1. \A n, m \in Nat : n > m => n + 1 > m + 1
            OBVIOUS
        <3> QED
            BY <2>4, <2>5, <2>6, <3>1
    <2>8. \A i \in 1 .. Len(hist) : hist'[i] = hist[i]
        BY <2>5 DEF Grows
    <2> QED
        BY <1>1, <2>1, <2>7, <2>8, LogCommits
<1>4. CASE \/ UNCHANGED vars \/ \E r \in Replica \cup {NoConn} : DropStep(r)
           \/ PrimaryAccept \/ PrimaryReject \/ PrimaryDisconnect \/ PrimaryRestart
           \/ FinishStep \/ StreamStep
    <2>1. UNCHANGED <<hist, rm, rs>>
        BY <1>4 DEF vars, DropStep, PrimaryAccept, PrimaryReject, PrimaryDisconnect,
            PrimaryRestart, FinishStep, StreamStep
    <2> QED
        BY <1>2, <2>1
<1>5. CASE \/ PrimaryEstablished \/ PrimarySendDone
           \/ \E p \in Replica, n \in Nat : NextChunkStep(p, n) \/ FirstChunkStep(p, n)
           \/ \E p \in Replica : AckStep(p)
    <2>1. UNCHANGED <<hist, rm, rs>>
        BY <1>5 DEF PrimaryEstablished, PrimarySendDone, NextChunkStep, FirstChunkStep,
            AckStep, Polls, replicaVars
    <2> QED
        BY <1>2, <2>1
<1>6. CASE \E r \in Replica :
              \/ PingStep(r) \/ PsyncStep(r)
              \/ ReplicaResolveRoute(r) \/ ReplicaRdmaConnect(r) \/ ReplicaEstablished(r)
              \/ FinishedStep(r) \/ ReplicaSendAck(r) \/ ReplicaSendDone(r) \/ BreakStep(r)
    <2>1. UNCHANGED <<hist, rm, rs>>
        BY <1>6 DEF PingStep, PsyncStep, ReplicaResolveRoute, ReplicaRdmaConnect,
            ReplicaEstablished, FinishedStep, ReplicaSendAck, ReplicaSendDone, BreakStep,
            PrimaryKept, primaryVars
    <2> QED
        BY <1>2, <2>1
<1>7. ASSUME NEW r \in Replica, NEW store, HangUpStep(r, store)
      PROVE  [Log!AbsNext]_(Log!absVars)
    <2>1. Alone(r) /\ PrimaryKept /\ rm'[r].state = "DISCONNECTED"
        BY <1>0, <1>7, DropPrimaryEffect DEF Alone, HangUpStep
    <2>2. Position(r)' = -1 /\ Reads(r)' = NotServing
        BY <2>1 DEF Position, Reads, Following
    <2>3. CASE Following(r)
        <3>1. Position(r) # -1
            BY <1>0, <2>3 DEF Place
        <3> QED
            BY <2>1, <2>2, <3>1, OneMoves, LogLoses
    <2>4. CASE ~Following(r)
        <3>1. Position(r) = -1 /\ Reads(r) = NotServing
            BY <2>4 DEF Position, Reads, Following
        <3> QED
            BY <2>1, <2>2, <3>1, SeenAlone
    <2> QED
        BY <2>3, <2>4
<1>8. ASSUME NEW r \in Replica, ReplicaConnect(r) \/ HandshakeStep(r)
      PROVE  UNCHANGED Log!absVars
    <2>1. Alone(r) /\ PrimaryKept /\ ~Following(r) /\ ~Following(r)'
        <3>1. CASE ReplicaConnect(r)
            BY <1>0, <3>1, ConnectEffect DEF Following
        <3>2. CASE HandshakeStep(r)
            BY <3>2 DEF HandshakeStep, PongTaken, ResyncTaken, Following
        <3> QED
            BY <1>8, <3>1, <3>2
    <2>2. /\ Position(r) = -1 /\ Position(r)' = -1
          /\ Reads(r) = NotServing /\ Reads(r)' = NotServing
        BY <2>1 DEF Position, Reads, Following
    <2> QED
        BY <2>1, <2>2, SeenAlone
<1>9. ASSUME NEW r \in Replica, CellStep(r) PROVE UNCHANGED Log!absVars
    <2> DEFINE input == Append(rs[r].buf, Head(tcp[r].p2r))
    <2>1. Alone(r) /\ PrimaryKept /\ rm'[r] = rm[r] /\ rs'[r] = [rs[r] EXCEPT !.buf = input]
        BY <1>9 DEF CellStep, Follows, CellKept
    <2> HIDE DEF input
    <2>2. rs'[r].aof = rs[r].aof /\ rs'[r].db = rs[r].db
        BY <1>0, <2>1 DEF ReplicaStore
    <2>3. Position(r)' = Position(r) /\ Reads(r)' = Reads(r)
        BY <2>1, <2>2 DEF Position, Reads, Following
    <2> QED
        BY <2>1, <2>3, SeenAlone
<1>10. ASSUME NEW r \in Replica, CommandStep(r) PROVE Log!AbsNext
    <2>1. Alone(r) /\ PrimaryKept /\ Following(r)
        BY <1>10 DEF CommandStep, Follows, Following
    <2>2. /\ Following(r)' /\ rm'[r].state = rm[r].state
          /\ Len(rs'[r].aof) > Len(rs[r].aof)
        BY <1>0, <1>10, CommandStreams
    <2>3. PICK o : o = Position(r)'
        OBVIOUS
    <2>4. o = Len(rs'[r].aof) /\ o \in 0 .. Len(hist') - 1 /\ rs'[r].db = hist'[o + 1]
        BY <1>0, <2>2, <2>3 DEF Place
    <2>5. hist' = hist
        BY <2>1 DEF PrimaryKept
    <2>6. Position(r) = Len(rs[r].aof) /\ Position(r) # -1 /\ Len(rs[r].aof) \in Nat
        BY <1>0, <2>1 DEF Place, ReplicaStore
    <2>7. o \in Position(r) + 1 .. Len(hist) - 1
        <3>1. Len(hist) \in Nat
            BY <1>0 DEF Place
        <3> QED
            BY <2>2, <2>4, <2>5, <2>6, <3>1
    <2>8. PICK d : d = Reads(r)'
        OBVIOUS
    <2>9. CASE rm[r].state = "ONLINE"
        <3>1. d = hist[o + 1] /\ Reads(r) # NotServing
            BY <1>0, <2>2, <2>4, <2>5, <2>8, <2>9 DEF Reads, Place
        <3>2. positions' = [positions EXCEPT ![r] = o] /\ reads' = [reads EXCEPT ![r] = d]
            BY <2>1, <2>3, <2>8, OneMoves
        <3>3. reads' = IF Reads(r) = NotServing THEN reads
                       ELSE [reads EXCEPT ![r] = hist[o + 1]]
            BY <3>1, <3>2
        <3> QED
            BY <2>5, <2>6, <2>7, <3>2, <3>3, LogAdvances
    <2>10. CASE rm[r].state # "ONLINE"
        <3>1. d = NotServing /\ Reads(r) = NotServing
            BY <2>2, <2>8, <2>10 DEF Reads
        <3>2. positions' = [positions EXCEPT ![r] = o] /\ reads' = reads
            BY <2>1, <2>3, <2>8, <3>1, OneMoves
        <3>3. reads' = IF Reads(r) = NotServing THEN reads
                       ELSE [reads EXCEPT ![r] = hist[o + 1]]
            BY <3>1, <3>2
        <3> QED
            BY <2>5, <2>6, <2>7, <3>2, <3>3, LogAdvances
    <2> QED
        BY <2>9, <2>10
<1>11. ASSUME NEW r \in Replica, OnlineStep(r) PROVE [Log!AbsNext]_(Log!absVars)
    <2>1. /\ Alone(r) /\ PrimaryKept /\ Following(r) /\ rs'[r] = rs[r] /\ rm'[r].state = "ONLINE"
        BY <1>11 DEF OnlineStep, Follows, Following
    <2>2. Position(r)' = Position(r) /\ Reads(r)' = rs[r].db
        BY <2>1 DEF Position, Reads, Following
    <2>3. CASE rm[r].state = "ONLINE"
        <3>1. Reads(r) = rs[r].db
            BY <2>3 DEF Reads
        <3> QED
            BY <2>1, <2>2, <3>1, SeenAlone
    <2>4. CASE rm[r].state # "ONLINE"
        <3>1. /\ Reads(r) = NotServing /\ Position(r) # -1
              /\ rs[r].db = hist[Position(r) + 1]
            BY <1>0, <2>1, <2>4 DEF Place
        <3>2. PICK p, d : p = Position(r) /\ d = rs[r].db
            OBVIOUS
        <3>3. hist' = hist /\ positions' = positions /\ reads' = [reads EXCEPT ![r] = d]
            BY <2>1, <2>2, <3>2, OneMoves
        <3> QED
            BY <3>1, <3>2, <3>3, LogServes
    <2> QED
        BY <2>3, <2>4
<1>12. ASSUME NEW r \in Replica, ChunkStep(r) PROVE [Log!AbsNext]_(Log!absVars)
    <2>1. Alone(r) /\ PrimaryKept /\ rm[r].state = "FULL_SYNC"
        BY <1>12 DEF ChunkStep, ChunkTaken
    <2>2. Position(r) = -1 /\ Reads(r) = NotServing
        BY <2>1 DEF Position, Reads, Following
    <2>3. rm'[r].state \in {"FULL_SYNC", "CATCH_UP"}
        BY <1>0, <1>12, ChunkStored
    <2>4. Reads(r)' = NotServing
        BY <2>3 DEF Reads
    <2>5. CASE rm'[r].state = "FULL_SYNC"
        <3>1. Position(r)' = -1
            BY <2>5 DEF Position, Following
        <3> QED
            BY <2>1, <2>2, <2>4, <3>1, SeenAlone
    <2>6. CASE rm'[r].state = "CATCH_UP"
        <3>1. Following(r)'
            BY <2>6 DEF Following
        <3>2. PICK o : o = Position(r)'
            OBVIOUS
        <3>3. hist' = hist
            BY <2>1 DEF PrimaryKept
        <3>4. o \in 0 .. Len(hist) - 1
            BY <1>0, <3>1, <3>2, <3>3 DEF Place
        <3>5. positions' = [positions EXCEPT ![r] = o] /\ reads' = reads
            BY <2>1, <2>2, <2>4, <3>2, OneMoves
        <3> QED
            BY <2>2, <3>3, <3>4, <3>5, LogInstalls
    <2> QED
        BY <2>3, <2>5, <2>6
<1> QED
    BY <1>3, <1>4, <1>5, <1>6, <1>7, <1>8, <1>9, <1>10, <1>11, <1>12 DEF AnyStep

\* ImplementsLog: replication implements the replicated log (Refines): whatever the
\* clients of a Replica read is a state the Primary has had, and while the Replica
\* is connected these states only go forward along the Primary's history.
THEOREM ImplementsLog == Spec => Refines
<1>1. Init => Log!AbsInit
    <2> SUFFICES ASSUME Init PROVE Log!AbsInit
        OBVIOUS
    <2>1. hist = <<EmptyDb>> /\ \A r \in Replica : rm[r].state = "DOWN"
        BY DEF Init, ReplicaStarted
    <2>2. Len(hist) = 1
        BY <2>1
    <2>3. \A r \in Replica : ~Following(r)
        BY <2>1 DEF Following
    <2> QED
        BY <2>1, <2>2, <2>3 DEF Log!AbsInit
<1>2. ReplicationInv /\ ReplicationInv' /\ [Next]_vars => [Log!AbsNext]_(Log!absVars)
    <2> SUFFICES ASSUME ReplicationInv, ReplicationInv', [Next]_vars
                 PROVE  [Log!AbsNext]_(Log!absVars)
        OBVIOUS
    <2>1. AnyStep /\ Grows
        BY StepCases, LogStep DEF ReplicationInv, SyncInv
    <2> QED
        BY <2>1, Simulation
<1> QED
    BY <1>1, <1>2, ReplicationCorrect, PTL DEF Spec, Refines, Log!AbsSpec

-----------------------------------------------------------------------------
(* Recovery from the files of a Replica.                                    *)

\* Between two offsets at which commands begin there is room for a command.
LEMMA WholeCommands ==
    ASSUME TypeInv, LogInv, NEW n \in Nat, NEW m \in Nat, Boundary(n), Boundary(m), n < m
    PROVE  n + CmdLen <= m /\ CommandFrom(n)
<1>1. Len(aof) \in Nat /\ CmdLen \in Nat
    BY EngineAssumption DEF TypeInv, TypeOK
<1>2. n < Len(aof)
    BY <1>1 DEF Boundary
<1>3. CommandFrom(n)
    BY <1>2 DEF Boundary, LogInv
<1>4. n + CmdLen <= m
    <2> SUFFICES ASSUME m < n + CmdLen PROVE FALSE
        BY <1>1
    <2>1. PICK b \in Nat : m = n + b
        <3>1. m - n \in Nat /\ m = n + (m - n)
            OBVIOUS
        <3> QED
            BY <3>1
    <2>2. b < CmdLen /\ b # 0
        BY <1>1, <2>1
    <2> QED
        BY <2>1, <2>2, NoCutAtBoundary
<1> QED
    BY <1>3, <1>4

\* A file that is the Primary's AOF from an offset on replays to the Primary's
\* engine at the end of the file.
LEMMA ReplaysTheLog ==
    ASSUME TypeInv, LogInv, NEW file \in Seq(Cell), NEW o \in Nat, o <= Len(file),
           Boundary(o), Boundary(Len(file)),
           \A i \in o + 1 .. Len(file) : file[i] = aof[i]
    PROVE  Replay(hist[o + 1], file, o) = [db |-> hist[Len(file) + 1], pos |-> Len(file)]
<1> DEFINE L == Len(file)
           S == {n \in o .. L : Boundary(n)}
           h == [n \in S |-> hist[n + 1]]
<1>1. /\ L \in Nat /\ Len(aof) \in Nat /\ CmdLen \in Nat \ {0}
      /\ aof \in Seq(Cell) /\ hist \in Seq(Database) /\ Len(hist) = Len(aof) + 1
    BY EngineAssumption DEF TypeInv, TypeOK, LogInv
<1>2. S \subseteq 0 .. L /\ o \in S
    BY <1>1
<1>3. ASSUME NEW n \in S PROVE hist[n + 1] \in Database
    <2>1. n \in Nat /\ n <= Len(aof)
        BY <1>1 DEF Boundary
    <2>2. n + 1 \in 1 .. Len(hist)
        BY <1>1, <2>1
    <2> QED
        BY <1>1, <2>2
<1>4. h \in [S -> Database]
    BY <1>3
<1>5. ASSUME NEW n \in S, n < L
      PROVE  /\ CommandAt(file, n)
             /\ ExecStatus(h[n], file[n + 1].cmd) = "OK"
             /\ n + CmdLen \in S
             /\ h[n + CmdLen] = Execute(h[n], file[n + 1].cmd)
    <2>1. n \in Nat /\ o <= n /\ Boundary(n)
        BY <1>1
    <2>2. n + CmdLen <= L /\ CommandFrom(n)
        BY <1>1, <1>5, <2>1, WholeCommands
    <2>3. PICK c : c = aof[n + 1].cmd
        OBVIOUS
    <2>4. /\ \A i \in 1 .. CmdLen : aof[n + i] = [cmd |-> c, part |-> i]
          /\ c \in Command
          /\ ExecStatus(hist[n + 1], c) = "OK"
          /\ hist[n + CmdLen + 1] = Execute(hist[n + 1], c)
          /\ Boundary(n + CmdLen)
        BY <2>2, <2>3 DEF CommandFrom
    <2>5. ASSUME NEW i \in 1 .. CmdLen PROVE file[n + i] = [cmd |-> c, part |-> i]
        <3>1. n + i \in o + 1 .. L
            BY <1>1, <2>1, <2>2
        <3> QED
            BY <2>4, <3>1
    <2>6. file[n + 1] = [cmd |-> c, part |-> 1]
        BY <1>1, <2>5
    <2>7. file[n + 1].cmd = c /\ file[n + 1] # Hole
        <3>1. file[n + 1].cmd = c
            BY <2>6
        <3>2. DOMAIN file[n + 1] = {"cmd", "part"} /\ DOMAIN Hole = {"hole"}
            BY <2>6 DEF Hole
        <3>3. "cmd" \in {"cmd", "part"} /\ "cmd" \notin {"hole"}
            OBVIOUS
        <3> QED
            BY <3>1, <3>2, <3>3
    <2>8. SubSeq(file, n + 1, n + CmdLen) = Encode(c)
        <3> DEFINE t == SubSeq(file, n + 1, n + CmdLen)
        <3>1. t = [i \in 1 .. CmdLen |-> file[n + i]]
            BY <1>1, <2>1, <2>2, SubSeqType
        <3> QED
            BY <2>5, <3>1 DEF Encode
    <2>9. CommandAt(file, n)
        BY <2>2, <2>7, <2>8 DEF CommandAt
    <2>10. n + CmdLen \in S
        BY <1>1, <2>1, <2>2, <2>4
    <2>11. h[n] = hist[n + 1] /\ h[n + CmdLen] = hist[n + CmdLen + 1]
        BY <2>10
    <2> QED
        BY <2>4, <2>7, <2>9, <2>10, <2>11
<1> HIDE DEF h
<1>6. L \in S /\ Replay(h[o], file, o) = [db |-> h[L], pos |-> L]
    <2> HIDE DEF S
    <2>1. Recoverable(file, o, S, h)
        BY <1>2, <1>4, <1>5 DEF Recoverable
    <2> QED
        BY <2>1, ReplayRecovers
<1>7. h[o] = hist[o + 1] /\ h[L] = hist[L + 1]
    BY <1>2, <1>6 DEF h
<1> QED
    BY <1>6, <1>7

\* ReplicasArePromotable: the files of a Replica that follows recover to its
\* engine: snapshot.db loads, and the AOF behind its checkpoint replays to the
\* end of the file (Promotable).
THEOREM ReplicasArePromotable == Spec => []Promotable
<1>1. ReplicationInv => Promotable
    <2> SUFFICES ASSUME ReplicationInv, NEW r \in Replica, Following(r)
                 PROVE  /\ Loadable(rs[r].snapDb)
                        /\ LET s == rs[r].snapDb[1]
                           IN  Replay(s.db, rs[r].aof, s.off)
                                   = [db |-> rs[r].db, pos |-> Len(rs[r].aof)]
        BY DEF Promotable
    <2>1. TypeInv /\ LogInv /\ Applied(r) /\ Backed(r)
        BY DEF ReplicationInv, SyncInv, StreamInv, Streams
    <2>2. PICK file \in Seq(Cell) : file = rs[r].aof
        BY <2>1 DEF TypeInv, TypeOK, ReplicaStore
    <2>3. PICK o \in Nat :
              /\ Boundary(o) /\ o <= Len(file)
              /\ rs[r].snapDb = SnapshotAt(o)
              /\ \A i \in o + 1 .. Len(file) : file[i] = aof[i]
        BY <2>1, <2>2 DEF Backed
    <2>4. Boundary(Len(file)) /\ rs[r].db = hist[Len(file) + 1]
        BY <2>1, <2>2 DEF Applied
    <2>5. Replay(hist[o + 1], file, o) = [db |-> hist[Len(file) + 1], pos |-> Len(file)]
        BY <2>1, <2>3, <2>4, ReplaysTheLog
    <2>6. PICK d : d = hist[o + 1]
        OBVIOUS
    <2>7. SnapshotAt(o) = [i \in 1 .. SnapSize |-> [db |-> d, off |-> o, part |-> i]]
        BY <2>6 DEF SnapshotAt, SnapshotOf
    <2>8. SnapSize \in Nat /\ SnapSize > 0 /\ 1 \in 1 .. SnapSize
        BY ReplicationAssumption
    <2>9. /\ SnapshotAt(o) # <<>>
          /\ SnapshotAt(o)[1].db = d /\ SnapshotAt(o)[1].off = o
        BY <2>7, <2>8
    <2>10. Loadable(rs[r].snapDb)
        BY <2>3, <2>6, <2>9 DEF Loadable, SnapshotAt
    <2> QED
        BY <2>2, <2>3, <2>4, <2>5, <2>6, <2>9, <2>10
<1> QED
    BY <1>1, ReplicationCorrect, PTL
=============================================================================
