-------------------------- MODULE ReplicationProof --------------------------
(***************************************************************************)
(* Theorems about Replication, for every value of its constants: the       *)
(* types and the bounds of the readers, the synchronisation slot, and the  *)
(* invariants of the connections on which ReplicationSyncProof builds.     *)
(***************************************************************************)
EXTENDS Replication, TLAPS

-----------------------------------------------------------------------------
(* Facts about the operators.                                               *)

\* Bounds of the smaller of two lengths: a read never exceeds buffer or rest.
LEMMA Min2Nat ==
    ASSUME NEW a \in Nat, NEW b \in Nat
    PROVE  /\ Min2(a, b) \in Nat
           /\ Min2(a, b) <= a
           /\ Min2(a, b) <= b
    BY DEF Min2

\* A block of a file is a file of the same kind.
LEMMA SubSeqType ==
    ASSUME NEW S, NEW s \in Seq(S), NEW i \in Nat, NEW n \in Nat,
           i + n <= Len(s)
    PROVE  SubSeq(s, i + 1, i + n) \in Seq(S)
<1>1. \A k \in 1 .. n : s[i + k] \in S
    OBVIOUS
<1> QED
    BY <1>1

\* A saved snapshot is a sequence of SnapSize cells.
LEMMA SnapshotOfType ==
    ASSUME NEW d \in Database, NEW o \in Nat
    PROVE  /\ SnapshotOf(d, o) \in Seq(SnapCell)
           /\ Len(SnapshotOf(d, o)) = SnapSize
    BY ReplicationAssumption DEF SnapshotOf, SnapCell

\* An encoded command is CmdLen cells long.
LEMMA EncodeType ==
    ASSUME NEW c \in Command
    PROVE  Encode(c) \in Seq(Cell)
    BY EngineAssumption DEF Encode, Cell

\* A write command leaves an engine.
LEMMA ExecuteType ==
    ASSUME NEW d \in Database, NEW c \in Command
    PROVE  Execute(d, c) \in Database
    BY DEF Execute, Database, Command

\* kvs_aof_reset_to_offset leaves a file of exactly the offset's length.
LEMMA ResetType ==
    ASSUME NEW f \in Seq(Cell), NEW o \in Nat
    PROVE  ResetToOffset(f, o) \in Seq(Cell)
<1>1. \A i \in 1 .. o : (IF i <= Len(f) THEN f[i] ELSE Hole) \in Cell
    BY DEF Cell
<1> QED
    BY <1>1 DEF ResetToOffset

-----------------------------------------------------------------------------
(* Types of what the handlers share.                                        *)

\* The empty sequence has every queue type.
LEMMA EmptyQueues ==
    /\ <<>> \in Seq({"PING", "PSYNC"})
    /\ <<>> \in Seq(Token)
    /\ <<>> \in Seq(Cell)
    /\ <<>> \in Seq(SnapCell)
    /\ <<>> \in Seq(CmEvent)
    OBVIOUS

\* A CM event delivered to a Replica keeps the type of rr.
LEMMA NotifyReplicaType ==
    ASSUME TypeOK, NEW q, NEW e \in CmEvent
    PROVE  NotifyReplica(q, e) \in [Replica -> ReplicaRdma]
<1>1. rr \in [Replica -> ReplicaRdma]
    BY DEF TypeOK
<1>2. CASE q \in Replica
    <2>1. Append(rr[q].cm, e) \in Seq(CmEvent)
        BY <1>1, <1>2 DEF ReplicaRdma
    <2> QED
        BY <1>1, <1>2, <2>1 DEF NotifyReplica, ReplicaRdma
<1>3. CASE q \notin Replica
    BY <1>1, <1>3 DEF NotifyReplica
<1> QED
    BY <1>2, <1>3

\* A CM event delivered to the Primary keeps the type of pr.
LEMMA NotifyPrimaryType ==
    ASSUME TypeOK, NEW r, NEW e \in CmEvent
    PROVE  NotifyPrimary(r, e) \in PrimaryRdma
<1>1. pr \in PrimaryRdma
    BY DEF TypeOK
<1>2. Append(pr.cm, e) \in Seq(CmEvent)
    BY <1>1 DEF PrimaryRdma
<1> QED
    BY <1>1, <1>2 DEF NotifyPrimary, PrimaryRdma

\* A cut connection carries nothing.
LEMMA EmptyWireType == EmptyWire \in Wire
    BY DEF EmptyWire, Wire

\* Cutting a connection keeps the type of wire.
LEMMA CutWireType ==
    ASSUME TypeOK, NEW q
    PROVE  CutWire(q) \in [Replica -> Wire]
    BY EmptyWireType DEF TypeOK, CutWire

\* The reset rdma_sync has its type.
LEMMA NoRdmaType ==
    /\ NoPrimaryRdma \in PrimaryRdma
    /\ NoReplicaRdma \in ReplicaRdma
    BY DEF NoPrimaryRdma, PrimaryRdma, NoReplicaRdma, ReplicaRdma

\* A manager after kvs_replication_init has its type.
LEMMA PrimaryStartedType ==
    ASSUME NEW o \in Nat
    PROVE  /\ PrimaryStarted(o) \in PrimaryManager
           /\ PrimaryStarted(o).offset = o
           /\ PrimaryStarted(o).reader = Closed
           /\ PrimaryStarted(o).aofLeft = Closed
    BY DEF PrimaryStarted, PrimaryManager, ManagerState, Closed

\* ntyco_send_all keeps the type of tcp.
LEMMA SendType ==
    ASSUME TypeOK, NEW r, NEW t \in Seq(Token)
    PROVE  Send(r, t) \in [Replica -> TcpConn]
<1>1. tcp \in [Replica -> TcpConn]
    BY DEF TypeOK
<1>2. CASE r \in Replica
    <2>1. tcp[r].p2r \o t \in Seq(Token)
        BY <1>1, <1>2 DEF TcpConn
    <2> QED
        BY <1>1, <1>2, <2>1 DEF Send, TcpConn
<1>3. CASE r \notin Replica
    BY <1>1, <1>3 DEF Send
<1> QED
    BY <1>2, <1>3

\* Closing the Primary's end keeps types and reader bounds.
LEMMA DropReplicaType ==
    ASSUME TypeOK, ReadersInBounds, NEW r, DropReplica(r),
           UNCHANGED <<aof, snapFile>>
    PROVE  /\ pm' \in PrimaryManager
           /\ pr' \in PrimaryRdma
           /\ rr' \in [Replica -> ReplicaRdma]
           /\ tcp' \in [Replica -> TcpConn]
           /\ wire' \in [Replica -> Wire]
           /\ ReadersInBounds'
<1>1. tcp' \in [Replica -> TcpConn]
    <2>1. tcp \in [Replica -> TcpConn]
        BY DEF TypeOK
    <2>2. tcp' = [tcp EXCEPT ![r].primary = "closed", ![r].r2p = <<>>]
        BY DEF DropReplica
    <2> QED
        BY <2>1, <2>2, EmptyQueues DEF TcpConn
<1>2. CASE pm.conn = r
    <2>1. pm.offset \in Nat /\ pm.offset <= Len(aof)
        BY DEF TypeOK, PrimaryManager, ReadersInBounds
    <2>2. pm' = PrimaryStarted(pm.offset)
        BY <1>2 DEF DropReplica
    <2>3. pm' \in PrimaryManager /\ ReadersInBounds'
        BY <2>1, <2>2, PrimaryStartedType DEF ReadersInBounds
    <2>4. /\ pr' = NoPrimaryRdma
          /\ rr' = NotifyReplica(pr.conn, "DISCONNECTED")
          /\ wire' = CutWire(pr.conn)
        BY <1>2 DEF DropReplica
    <2> QED
        BY <1>1, <2>3, <2>4, NoRdmaType, NotifyReplicaType, CutWireType
        DEF CmEvent
<1>3. CASE pm.conn # r
    BY <1>1, <1>3 DEF DropReplica, TypeOK, ReadersInBounds
<1> QED
    BY <1>2, <1>3

\* Closing the Replica's end keeps types.
LEMMA DropPrimaryType ==
    ASSUME TypeOK, NEW r \in Replica, NEW store \in ReplicaStore,
           DropPrimary(r, store)
    PROVE  /\ pr' \in PrimaryRdma
           /\ rm' \in [Replica -> ReplicaManager]
           /\ rr' \in [Replica -> ReplicaRdma]
           /\ rs' \in [Replica -> ReplicaStore]
           /\ tcp' \in [Replica -> TcpConn]
           /\ wire' \in [Replica -> Wire]
<1>1. pr' \in PrimaryRdma
    BY NotifyPrimaryType DEF DropPrimary, CmEvent
<1>2. rm' \in [Replica -> ReplicaManager]
    <2>1. /\ rm \in [Replica -> ReplicaManager]
          /\ rm' = [rm EXCEPT ![r].state = "DISCONNECTED", ![r].syncId = 0,
                              ![r].writer = Closed]
        BY DEF DropPrimary, TypeOK
    <2> DEFINE dropped == [rm[r] EXCEPT !.state = "DISCONNECTED", !.syncId = 0,
                                        !.writer = Closed]
    <2>2. rm[r] \in ReplicaManager
        BY <2>1
    <2>3. dropped \in ReplicaManager
        BY <2>2 DEF ReplicaManager, ManagerState, Closed
    <2>4. rm' = [rm EXCEPT ![r] = dropped]
        BY <2>1
    <2> HIDE DEF dropped
    <2> QED
        BY <2>1, <2>3, <2>4
<1>3. rr' \in [Replica -> ReplicaRdma]
    <2>1. /\ rr \in [Replica -> ReplicaRdma]
          /\ rr' = [rr EXCEPT ![r] = NoReplicaRdma]
        BY DEF DropPrimary, TypeOK
    <2> QED
        BY <2>1, NoRdmaType
<1>4. rs' \in [Replica -> ReplicaStore]
    <2>1. [store EXCEPT !.tmp = <<>>, !.buf = <<>>] \in ReplicaStore
        BY EmptyQueues DEF ReplicaStore
    <2>2. /\ rs \in [Replica -> ReplicaStore]
          /\ rs' = [rs EXCEPT ![r] = [store EXCEPT !.tmp = <<>>, !.buf = <<>>]]
        BY DEF DropPrimary, TypeOK
    <2> QED
        BY <2>1, <2>2
<1>5. tcp' \in [Replica -> TcpConn]
    <2>1. /\ tcp \in [Replica -> TcpConn]
          /\ tcp' = [tcp EXCEPT ![r].p2r = <<>>]
        BY DEF DropPrimary, TypeOK
    <2> QED
        BY <2>1, EmptyQueues DEF TcpConn
<1>6. wire' \in [Replica -> Wire]
    <2>1. /\ wire \in [Replica -> Wire]
          /\ wire' = [wire EXCEPT ![r] = EmptyWire]
        BY DEF DropPrimary, TypeOK
    <2> QED
        BY <2>1, EmptyWireType
<1> QED
    BY <1>1, <1>2, <1>3, <1>4, <1>5, <1>6

\* One block of the AOF: a legal read, and the reader stays in bounds.
LEMMA SendAofType ==
    ASSUME TypeOK, NEW state \in ManagerState, NEW pos \in Nat,
           NEW end \in Nat, pos <= end, end <= Len(aof),
           pm.offset <= Len(aof),
           SendAof(state, pos, end), UNCHANGED <<aof, snapFile>>
    PROVE  /\ pm' \in PrimaryManager
           /\ tcp' \in [Replica -> TcpConn]
           /\ ReadersInBounds'
<1> DEFINE n == Min2(ReadCap, end - pos)
<1>1. n \in Nat /\ n <= end - pos
    <2>1. end - pos \in Nat /\ ReadCap \in Nat
        BY ReplicationAssumption
    <2> QED
        BY <2>1, Min2Nat
<1>2. pm' = [pm EXCEPT !.state = state, !.reader = Closed,
                       !.aofPos = pos + n, !.aofLeft = end - pos - n]
    BY DEF SendAof
<1>3. /\ end - pos - n \in Nat
      /\ pos + n \in Nat
      /\ pos + n + (end - pos - n) <= Len(aof)
    BY <1>1 DEF TypeOK
<1> HIDE DEF n
<1>4. pm' \in PrimaryManager
    BY <1>2, <1>3 DEF TypeOK, PrimaryManager, Closed
<1>5. ReadersInBounds'
    BY <1>2, <1>3 DEF ReadersInBounds, TypeOK, PrimaryManager
<1>6. SubSeq(aof, pos + 1, pos + n) \in Seq(Token)
    <2>1. aof \in Seq(Token)
        BY DEF TypeOK, Token
    <2>2. pos + n <= Len(aof)
        BY <1>1 DEF TypeOK
    <2> QED
        BY <1>1, <2>1, <2>2, SubSeqType
<1>7. tcp' = Send(pm.conn, SubSeq(aof, pos + 1, pos + n))
    BY DEF SendAof, n
<1> QED
    BY <1>4, <1>5, <1>6, <1>7, SendType

\* Announcing ONLINE keeps types and reader bounds.
LEMMA SendOnlineType ==
    ASSUME TypeOK, NEW pos \in Nat, pos <= Len(aof), SendOnline(pos),
           UNCHANGED <<aof, snapFile>>
    PROVE  /\ pm' \in PrimaryManager
           /\ tcp' \in [Replica -> TcpConn]
           /\ ReadersInBounds'
<1>1. pm' = [pm EXCEPT !.state = "ONLINE", !.reader = Closed, !.offset = pos,
                       !.aofPos = 0, !.aofLeft = Closed]
    BY DEF SendOnline
<1>2. pm' \in PrimaryManager
    BY <1>1 DEF TypeOK, PrimaryManager, ManagerState, Closed
<1>3. ReadersInBounds'
    BY <1>1 DEF ReadersInBounds, TypeOK, PrimaryManager
<1>4. <<[line |-> "ONLINE", off |-> pos]>> \in Seq(Token)
    BY DEF Token, OnlineLine
<1> QED
    BY <1>2, <1>3, <1>4, SendType DEF SendOnline

\* One chunk of the snapshot file: base and net are well-typed variants of pr
\* and wire.
LEMMA SendChunkType ==
    ASSUME TypeOK, ReadersInBounds, pm.reader # Closed,
           NEW base \in PrimaryRdma, NEW net \in [Replica -> Wire],
           SendChunk(base, net), UNCHANGED <<aof, snapFile>>
    PROVE  /\ pm' \in PrimaryManager
           /\ pr' \in PrimaryRdma
           /\ wire' \in [Replica -> Wire]
           /\ ReadersInBounds'
<1> DEFINE n == Min2(ChunkCap, pm.reader)
<1>1. /\ pm \in PrimaryManager
      /\ pm.reader \in Nat
      /\ pm.fileSize \in Nat
      /\ pm.fileSize - pm.reader \in Nat
      /\ pm.fileSize = Len(snapFile)
    BY DEF TypeOK, PrimaryManager, ReadersInBounds, Closed
<1>2. n \in Nat /\ n <= pm.reader
    BY <1>1, Min2Nat, ReplicationAssumption
<1>3. NextChunk \in Seq(SnapCell)
    <2>1. NextChunk = SubSeq(snapFile, (pm.fileSize - pm.reader) + 1,
                             (pm.fileSize - pm.reader) + n)
        BY DEF NextChunk
    <2>2. (pm.fileSize - pm.reader) + n <= Len(snapFile)
        BY <1>1, <1>2
    <2>3. snapFile \in Seq(SnapCell)
        BY DEF TypeOK
    <2> HIDE DEF n
    <2> QED
        BY <1>1, <1>2, <2>1, <2>2, <2>3, SubSeqType
<1>4. /\ pm' = [pm EXCEPT !.reader = pm.reader - n]
      /\ pr' = [base EXCEPT !.sent = base.sent + n, !.sendPending = TRUE]
      /\ wire' = IF rr[pr.conn].conn
                 THEN [net EXCEPT ![pr.conn].pr = Append(@, NextChunk)]
                 ELSE net
    BY DEF SendChunk
<1> HIDE DEF n
<1>5. pm' \in PrimaryManager
    BY <1>1, <1>2, <1>4, SMTT(30) DEF PrimaryManager
<1>6. pr' \in PrimaryRdma
    <2>1. base.sent + n \in Nat
        BY <1>2 DEF PrimaryRdma
    <2> QED
        BY <1>4, <2>1 DEF PrimaryRdma
<1>7. wire' \in [Replica -> Wire]
    <2>1. CASE pr.conn \in Replica
        <3>1. Append(net[pr.conn].pr, NextChunk) \in Seq(Seq(SnapCell))
            BY <1>3, <2>1 DEF Wire
        <3> QED
            BY <1>4, <2>1, <3>1 DEF Wire
    <2>2. CASE pr.conn \notin Replica
        BY <1>4, <2>2
    <2> QED
        BY <2>1, <2>2
<1>8. ReadersInBounds'
    <2>1. /\ pm'.reader = pm.reader - n
          /\ pm'.offset = pm.offset
          /\ pm'.fileSize = pm.fileSize
          /\ pm'.aofPos = pm.aofPos
          /\ pm'.aofLeft = pm.aofLeft
        BY <1>1, <1>4 DEF PrimaryManager
    <2>2. pm.reader - n <= pm.fileSize
        BY <1>1, <1>2
    <2> QED
        BY <1>1, <2>1, <2>2 DEF ReadersInBounds
<1> QED
    BY <1>5, <1>6, <1>7, <1>8

-----------------------------------------------------------------------------
(* Type correctness.  TypeOK alone is not inductive: that a block of the    *)
(* AOF or of the snapshot file is made of cells needs ReadersInBounds, and  *)
(* that the first chunk is read from an open file needs ReaderOpen.         *)

\* The snapshot file stays open until the Primary asks for the end of the
\* transfer, and a connection that is not held has left no trace.
ReaderOpen ==
    /\ pr.conn = NoConn => pr = NoPrimaryRdma
    /\ pm.state = "FULL_SYNC" /\ ~pr.discPending => pm.reader # Closed

TypeInv == TypeOK /\ ReadersInBounds /\ ReaderOpen

\* The invariant holds initially.
LEMMA TypeInit == Init => TypeInv
<1> SUFFICES ASSUME Init PROVE TypeInv
    OBVIOUS
<1>1. EmptyDb \in Database
    BY DEF EmptyDb, Database
<1>2. db \in Database /\ hist \in Seq(Database)
    BY <1>1 DEF Init
<1>3. aof \in Seq(Cell) /\ snapFile \in Seq(SnapCell) /\ listenQ \in Seq(Replica)
    BY DEF Init
<1>4. pm \in PrimaryManager /\ ReadersInBounds
    BY PrimaryStartedType DEF Init, ReadersInBounds
<1>5. pr \in PrimaryRdma /\ rr \in [Replica -> ReplicaRdma]
    BY NoRdmaType DEF Init
<1>6. rm \in [Replica -> ReplicaManager]
    BY DEF Init, ReplicaStarted, ReplicaManager, ManagerState, Closed
<1>7. rs \in [Replica -> ReplicaStore]
    <2>1. PICK old \in [Replica -> OldAof] :
              rs = [r \in Replica |->
                      [db |-> EmptyDb, aof |-> old[r], tmp |-> <<>>,
                       snapDb |-> <<>>, buf |-> <<>>]]
        BY DEF Init
    <2>2. \A r \in Replica : old[r] \in Seq(Cell)
        BY ReplicationAssumption
    <2> QED
        BY <1>1, <2>1, <2>2, EmptyQueues DEF ReplicaStore
<1>8. tcp \in [Replica -> TcpConn] /\ wire \in [Replica -> Wire]
    BY EmptyQueues, EmptyWireType DEF Init, TcpConn
<1>9. syncCount \in Nat /\ faults \in Nat
    BY DEF Init
<1>10. ReaderOpen
    BY DEF Init, ReaderOpen, PrimaryStarted
<1> QED
    BY <1>10, <1>2, <1>3, <1>4, <1>5, <1>6, <1>7, <1>8, <1>9 DEF TypeInv, TypeOK

\* A client's write only lengthens the AOF, so open readers stay in bounds.
LEMMA TypeClientWrite ==
    ASSUME TypeInv, NEW c \in Command, ClientWrite(c)
    PROVE  TypeOK' /\ ReadersInBounds'
<1>1. db \in Database /\ aof \in Seq(Cell) /\ hist \in Seq(Database)
    BY DEF TypeInv, TypeOK
<1>2. Execute(db, c) \in Database /\ Encode(c) \in Seq(Cell)
    BY <1>1, ExecuteType, EncodeType
<1>3. db' \in Database /\ aof' \in Seq(Cell)
    BY <1>1, <1>2 DEF ClientWrite
<1>4. hist' \in Seq(Database)
    <2> DEFINE new == [i \in 1 .. CmdLen |->
                         IF i = CmdLen THEN Execute(db, c) ELSE db]
    <2>1. new \in Seq(Database)
        BY <1>1, <1>2, EngineAssumption
    <2> HIDE DEF new
    <2>2. hist' = hist \o new
        BY DEF ClientWrite, new
    <2> QED
        BY <1>1, <2>1, <2>2
<1>5. Len(aof') >= Len(aof)
    <2>1. Len(aof') = Len(aof) + Len(Encode(c))
        BY <1>1, <1>2 DEF ClientWrite
    <2> QED
        BY <1>1, <1>2, <2>1
<1>6. ReadersInBounds'
    <2>1. /\ pm' = pm
          /\ snapFile' = snapFile
          /\ pm.offset \in Nat
          /\ pm.aofPos + pm.aofLeft \in Int
          /\ Len(aof) \in Nat /\ Len(aof') \in Nat
        BY <1>1, <1>3 DEF ClientWrite, TypeInv, TypeOK, PrimaryManager, Closed
    <2> QED
        BY <1>5, <2>1 DEF TypeInv, ReadersInBounds
<1> QED
    BY <1>3, <1>4, <1>6 DEF TypeInv, TypeOK, ClientWrite

\* Control lines of the Primary keep the invariant.
LEMMA TypePrimaryConnStep ==
    ASSUME TypeInv, NEW r \in Replica, PrimaryConnStep(r)
    PROVE  TypeOK' /\ ReadersInBounds'
<1> USE DEF TypeInv
<1>0. tcp \in [Replica -> TcpConn] /\ aof \in Seq(Cell) /\ db \in Database
    BY DEF TypeOK
<1>1. CASE PrimaryPing(r)
    <2>1. tcp[r].r2p # <<>>
        BY <1>1 DEF PrimaryPing, PrimaryReads
    <2>2. /\ Tail(tcp[r].r2p) \in Seq({"PING", "PSYNC"})
          /\ Append(tcp[r].p2r, Pong) \in Seq(Token)
        BY <1>0, <2>1 DEF TcpConn, Token
    <2>3. tcp' \in [Replica -> TcpConn]
        BY <1>0, <1>1, <2>2 DEF PrimaryPing, TcpConn
    <2> QED
        BY <1>1, <2>3
        DEF PrimaryPing, TypeOK, ReadersInBounds, primaryVars, replicaVars
<1>2. CASE PrimaryPsync(r)
    <2>1. CASE Busy
        <3>1. DropReplica(r) /\ UNCHANGED <<aof, snapFile>>
            BY <1>2, <2>1 DEF PrimaryPsync
        <3> QED
            BY <1>2, <2>1, <3>1, DropReplicaType DEF PrimaryPsync, TypeOK
    <2>2. CASE ~Busy
        <3>1. tcp[r].r2p # <<>>
            BY <1>2 DEF PrimaryPsync, PrimaryReads
        <3> DEFINE line == [line |-> "FULLRESYNC_RDMA", off |-> Len(aof),
                            size |-> SnapSize, id |-> syncCount + 1]
        <3>2. line \in Token
            BY <1>0, ReplicationAssumption DEF Token, FullResync, TypeOK
        <3> HIDE DEF line
        <3>3. /\ Tail(tcp[r].r2p) \in Seq({"PING", "PSYNC"})
              /\ Append(tcp[r].p2r, line) \in Seq(Token)
            BY <1>0, <3>1, <3>2 DEF TcpConn
        <3>4. tcp' = [tcp EXCEPT ![r].r2p = Tail(@),
                                 ![r].p2r = IF ReplicaClosed(r) THEN @
                                            ELSE Append(@, line)]
            BY <1>2, <2>2 DEF PrimaryPsync, line
        <3>5. tcp' \in [Replica -> TcpConn]
            BY <1>0, <3>3, <3>4 DEF TcpConn
        <3>6. /\ snapFile' = SnapshotOf(db, Len(aof))
              /\ syncCount' = syncCount + 1
              /\ pm' = [pm EXCEPT !.state = "FULL_SYNC", !.conn = r,
                                  !.syncId = syncCount + 1,
                                  !.offset = Len(aof), !.fileSize = SnapSize,
                                  !.reader = SnapSize,
                                  !.aofPos = 0, !.aofLeft = Closed]
            BY <1>2, <2>2 DEF PrimaryPsync
        <3>7. pm' \in PrimaryManager
            <4>1. pm \in PrimaryManager /\ syncCount + 1 \in Nat
                  /\ Len(aof) \in Nat /\ SnapSize \in Nat
                BY <1>0, ReplicationAssumption DEF TypeOK
            <4> QED
                BY <3>6, <4>1 DEF PrimaryManager, ManagerState, Closed
        <3>8. snapFile' \in Seq(SnapCell) /\ Len(snapFile') = SnapSize
            <4>1. Len(aof) \in Nat
                BY <1>0
            <4> QED
                BY <1>0, <3>6, <4>1, SnapshotOfType
        <3>9. ReadersInBounds'
            <4>1. /\ pm'.offset = Len(aof) /\ pm'.aofLeft = Closed
                  /\ pm'.fileSize = SnapSize /\ pm'.reader = SnapSize
                BY <3>6 DEF TypeOK, PrimaryManager
            <4>2. aof' = aof
                BY <1>2 DEF PrimaryPsync
            <4> QED
                BY <1>0, <3>8, <4>1, <4>2, ReplicationAssumption
                DEF ReadersInBounds
        <3> QED
            BY <1>2, <2>2, <3>5, <3>6, <3>7, <3>8, <3>9
            DEF PrimaryPsync, TypeOK
    <2> QED
        BY <2>1, <2>2
<1>3. CASE PrimaryPeerClosed(r)
    BY <1>3, DropReplicaType DEF PrimaryPeerClosed, TypeOK
<1> QED
    BY <1>1, <1>2, <1>3 DEF PrimaryConnStep

\* The full-sync steps of the Primary keep the invariant.
LEMMA TypePrimaryFullSync ==
    ASSUME TypeInv,
           \/ PrimaryAccept \/ PrimaryReject
           \/ PrimaryEstablished \/ PrimaryDisconnected \/ PrimaryCmError
           \/ PrimarySendNext \/ PrimaryDisconnect \/ PrimarySendDone
           \/ PrimaryRecv
    PROVE  TypeOK' /\ ReadersInBounds'
<1> USE DEF TypeInv
<1>0. /\ pr \in PrimaryRdma /\ pm \in PrimaryManager
      /\ listenQ \in Seq(Replica) /\ wire \in [Replica -> Wire]
    BY DEF TypeOK
<1>1. CASE PrimaryAccept
    <2>1. listenQ # <<>>
        BY <1>1 DEF PrimaryAccept
    <2>2. Head(listenQ) \in Replica /\ Tail(listenQ) \in Seq(Replica)
        BY <1>0, <2>1
    <2>3. PICK events \in {<<"ESTABLISHED">>, <<"ERROR">>,
                           <<"ESTABLISHED", "DISCONNECTED">>} :
              pr' = [NoPrimaryRdma EXCEPT !.conn = Head(listenQ),
                                          !.recvPosted = TRUE, !.cm = events]
        BY <1>1 DEF PrimaryAccept
    <2>4. events \in Seq(CmEvent)
        <3>1. /\ <<"ESTABLISHED">> \in Seq(CmEvent)
              /\ <<"ERROR">> \in Seq(CmEvent)
              /\ <<"ESTABLISHED", "DISCONNECTED">> \in Seq(CmEvent)
            BY DEF CmEvent
        <3> HIDE DEF CmEvent
        <3> QED
            BY <2>3, <3>1, Zenon
    <2>5. pr' \in PrimaryRdma
        BY <2>2, <2>3, <2>4, NoRdmaType DEF PrimaryRdma
    <2>6. rr' \in [Replica -> ReplicaRdma]
        BY <1>1, NotifyReplicaType DEF PrimaryAccept, CmEvent
    <2> QED
        BY <1>1, <2>2, <2>5, <2>6 DEF PrimaryAccept, TypeOK, ReadersInBounds
<1>2. CASE PrimaryReject
    <2>1. listenQ # <<>>
        BY <1>2 DEF PrimaryReject
    <2>2. Tail(listenQ) \in Seq(Replica)
        BY <1>0, <2>1
    <2>3. rr' \in [Replica -> ReplicaRdma]
        BY <1>2, NotifyReplicaType DEF PrimaryReject, CmEvent
    <2> QED
        BY <1>2, <2>2, <2>3 DEF PrimaryReject, TypeOK, ReadersInBounds
<1>3. CASE PrimaryEstablished
    <2>1. pr.cm # <<>>
        BY <1>3 DEF PrimaryEstablished, PrimaryCmEvent
    <2>2. Tail(pr.cm) \in Seq(CmEvent)
        BY <1>0, <2>1 DEF PrimaryRdma
    <2>3. pr' \in PrimaryRdma
        BY <1>0, <1>3, <2>2 DEF PrimaryEstablished, PrimaryRdma
    <2> QED
        BY <1>3, <2>3
        DEF PrimaryEstablished, TypeOK, ReadersInBounds, replicaVars
<1>4. CASE PrimaryDisconnected
    <2>0. UNCHANGED <<db, aof, hist, snapFile, syncCount, listenQ, rm, rs, faults>>
        BY <1>4 DEF PrimaryDisconnected
    <2>1. CASE TransferComplete
        <3>1. pr' = NoPrimaryRdma /\ wire' = CutWire(pr.conn) /\ rr' = rr
            BY <1>4, <2>1 DEF PrimaryDisconnected
        <3>2. /\ pm.offset \in Nat /\ pm.offset <= Len(aof)
              /\ Len(aof) \in Nat
            BY DEF TypeOK, PrimaryManager, ReadersInBounds
        <3>3. /\ pm' \in PrimaryManager
              /\ tcp' \in [Replica -> TcpConn]
              /\ ReadersInBounds'
            <4>1. CASE Len(aof) > pm.offset
                <5>1. SendAof("CATCH_UP", pm.offset, Len(aof))
                    BY <1>4, <2>1, <4>1 DEF PrimaryDisconnected
                <5> QED
                    BY <2>0, <3>2, <5>1, SendAofType DEF ManagerState
            <4>2. CASE ~(Len(aof) > pm.offset)
                <5>1. SendOnline(pm.offset)
                    BY <1>4, <2>1, <4>2 DEF PrimaryDisconnected
                <5> QED
                    BY <2>0, <3>2, <5>1, SendOnlineType
            <4> QED
                BY <4>1, <4>2
        <3> QED
            BY <2>0, <3>1, <3>3, NoRdmaType, CutWireType DEF TypeOK
    <2>2. CASE ~TransferComplete
        <3>1. DropReplica(pm.conn)
            BY <1>4, <2>2 DEF PrimaryDisconnected
        <3> QED
            BY <2>0, <3>1, DropReplicaType DEF TypeOK
    <2> QED
        BY <2>1, <2>2
<1>5. CASE PrimaryCmError
    BY <1>5, DropReplicaType DEF PrimaryCmError, TypeOK
<1>6. CASE PrimarySendNext
    <2>1. /\ pm.reader # Closed
          /\ SendChunk(pr, wire)
          /\ UNCHANGED <<db, aof, hist, snapFile, syncCount, listenQ, rm, rr,
                          rs, tcp, faults>>
        BY <1>6 DEF PrimarySendNext, ChunkSettled, replicaVars
    <2> QED
        BY <1>0, <2>1, SendChunkType DEF TypeOK
<1>7. CASE PrimaryDisconnect
    <2>1. Append(pr.cm, "DISCONNECTED") \in Seq(CmEvent)
        BY <1>0 DEF PrimaryRdma, CmEvent
    <2>2. pr' \in PrimaryRdma
        BY <1>0, <1>7, <2>1 DEF PrimaryDisconnect, PrimaryRdma
    <2>3. pm' \in PrimaryManager
        BY <1>0, <1>7 DEF PrimaryDisconnect, PrimaryManager, Closed
    <2>4. ReadersInBounds'
        BY <1>0, <1>7 DEF PrimaryDisconnect, PrimaryManager, ReadersInBounds
    <2>5. rr' \in [Replica -> ReplicaRdma]
        BY <1>7, NotifyReplicaType DEF PrimaryDisconnect, CmEvent
    <2> QED
        BY <1>7, <2>2, <2>3, <2>4, <2>5 DEF PrimaryDisconnect, TypeOK
<1>8. CASE PrimarySendDone
    <2>1. pr' \in PrimaryRdma
        BY <1>0, <1>8 DEF PrimarySendDone, PrimaryRdma
    <2> QED
        BY <1>8, <2>1
        DEF PrimarySendDone, TypeOK, ReadersInBounds, replicaVars
<1>9. CASE PrimaryRecv
    <2> DEFINE net == [wire EXCEPT ![pr.conn].rp = Tail(@)]
    <2>0. /\ UNCHANGED <<db, aof, hist, snapFile, syncCount, listenQ, rm, rs,
                         faults>>
          /\ wire[pr.conn].rp # <<>>
        BY <1>9 DEF PrimaryRecv
    <2>1. net \in [Replica -> Wire]
        <3>1. CASE pr.conn \in Replica
            <4>1. Tail(wire[pr.conn].rp) \in Seq(RdmaMessage)
                BY <1>0, <2>0, <3>1 DEF Wire
            <4> QED
                BY <1>0, <3>1, <4>1 DEF Wire
        <3>2. CASE pr.conn \notin Replica
            BY <1>0, <3>2
        <3> QED
            BY <3>1, <3>2
    <2> HIDE DEF net
    <2>2. CASE DropReplica(pm.conn)
        BY <2>0, <2>2, DropReplicaType DEF TypeOK
    <2>3. CASE /\ pr' = [pr EXCEPT !.acked = pr.sent]
               /\ wire' = net
               /\ UNCHANGED <<pm, rr, tcp>>
        <3>1. pr' \in PrimaryRdma
            BY <1>0, <2>3 DEF PrimaryRdma
        <3> QED
            BY <2>0, <2>1, <2>3, <3>1 DEF TypeOK, ReadersInBounds
    <2>4. CASE SendChunk(pr, net) /\ UNCHANGED <<rr, tcp>>
        <3>1. pm.reader # Closed
            BY <1>9 DEF PrimaryRecv, PrimaryData, ReaderOpen
        <3> QED
            BY <1>0, <2>0, <2>1, <2>4, <3>1, SendChunkType DEF TypeOK
    <2> QED
        BY <1>9, <2>2, <2>3, <2>4 DEF PrimaryRecv, net
<1> QED
    BY <1>1, <1>2, <1>3, <1>4, <1>5, <1>6, <1>7, <1>8, <1>9

\* The AOF streaming steps of the Primary keep the invariant.
LEMMA TypePrimaryStreams ==
    ASSUME TypeInv,
           PrimarySendAof \/ PrimaryNextRound \/ PrimaryCaughtUp \/ PrimaryResume
    PROVE  TypeOK' /\ ReadersInBounds'
<1>0. /\ pm \in PrimaryManager /\ aof \in Seq(Cell)
      /\ PrimaryStreams
    BY DEF TypeInv, TypeOK, PrimarySendAof, PrimaryNextRound, PrimaryCaughtUp,
           PrimaryResume
<1>1. /\ UNCHANGED <<db, aof, hist, snapFile, syncCount, pr, listenQ, rm, rr, rs,
                     wire, faults>>
      /\ pm.state \in ManagerState
      /\ pm.aofPos \in Nat /\ pm.offset \in Nat /\ Len(aof) \in Nat
      /\ pm.aofLeft \in Nat \cup {Closed}
      /\ pm.offset <= Len(aof)
      /\ pm.aofLeft # Closed => pm.aofPos + pm.aofLeft <= Len(aof)
    BY <1>0 DEF PrimaryStreams, replicaVars, PrimaryManager, TypeInv,
                ReadersInBounds
<1> SUFFICES /\ pm' \in PrimaryManager
             /\ tcp' \in [Replica -> TcpConn]
             /\ ReadersInBounds'
    BY <1>1 DEF TypeInv, TypeOK
<1>2. TypeOK
    BY DEF TypeInv
<1>3. CASE PrimarySendAof
    <2>1. /\ SendAof(pm.state, pm.aofPos, pm.aofPos + pm.aofLeft)
          /\ pm.aofLeft > 0
        BY <1>3 DEF PrimarySendAof
    <2>2. /\ pm.aofPos + pm.aofLeft \in Nat
          /\ pm.aofPos <= pm.aofPos + pm.aofLeft
          /\ pm.aofPos + pm.aofLeft <= Len(aof)
        BY <1>1, <2>1 DEF Closed
    <2> QED
        BY <1>1, <1>2, <2>1, <2>2, SendAofType
<1>4. CASE PrimaryNextRound
    <2>1. SendAof(pm.state, pm.aofPos, Len(aof)) /\ pm.aofPos <= Len(aof)
        BY <1>1, <1>4 DEF PrimaryNextRound
    <2> QED
        BY <1>1, <1>2, <2>1, SendAofType
<1>5. CASE PrimaryCaughtUp
    <2>1. CASE pm.state = "ONLINE"
        <3>1. /\ pm' = [pm EXCEPT !.offset = pm.aofPos, !.aofPos = 0,
                                  !.aofLeft = Closed]
              /\ tcp' = tcp
              /\ pm.aofPos = Len(aof)
            BY <1>5, <2>1 DEF PrimaryCaughtUp
        <3>2. pm' \in PrimaryManager
            BY <1>0, <1>1, <3>1 DEF PrimaryManager, Closed
        <3>3. ReadersInBounds'
            BY <1>0, <1>1, <3>1 DEF PrimaryManager, ReadersInBounds, TypeInv
        <3> QED
            BY <1>2, <3>1, <3>2, <3>3 DEF TypeOK
    <2>2. CASE pm.state # "ONLINE"
        <3>1. SendOnline(pm.aofPos) /\ pm.aofPos <= Len(aof)
            BY <1>1, <1>5, <2>2 DEF PrimaryCaughtUp
        <3> QED
            BY <1>1, <1>2, <3>1, SendOnlineType
    <2> QED
        BY <2>1, <2>2
<1>6. CASE PrimaryResume
    <2>1. SendAof("ONLINE", pm.offset, Len(aof))
        BY <1>6 DEF PrimaryResume
    <2> QED
        BY <1>1, <1>2, <2>1, SendAofType DEF ManagerState
<1> QED
    BY <1>3, <1>4, <1>5, <1>6

\* What a Replica step leaves alone keeps its type.
LEMMA TypeReplicaDrop ==
    ASSUME TypeInv, NEW r \in Replica, NEW store \in ReplicaStore,
           DropPrimary(r, store),
           UNCHANGED <<db, aof, hist, snapFile, syncCount, pm, listenQ>>,
           faults' \in Nat
    PROVE  TypeOK' /\ ReadersInBounds'
    BY DropPrimaryType DEF TypeInv, TypeOK, ReadersInBounds

\* The TCP steps of a Replica keep the invariant.
LEMMA TypeReplicaTcp ==
    ASSUME TypeInv, NEW r \in Replica,
           \/ ReplicaConnect(r) \/ ReplicaHandshake(r) \/ ReplicaCatchUp(r)
           \/ ReplicaControlLine(r) \/ ReplicaPeerClosed(r)
    PROVE  TypeOK' /\ ReadersInBounds'
<1>0. /\ rm \in [Replica -> ReplicaManager] /\ rr \in [Replica -> ReplicaRdma]
      /\ rs \in [Replica -> ReplicaStore] /\ tcp \in [Replica -> TcpConn]
      /\ rs[r] \in ReplicaStore /\ tcp[r] \in TcpConn
      /\ TypeOK /\ ReadersInBounds /\ faults \in Nat
    BY DEF TypeInv, TypeOK
<1>1. CASE ReplicaConnect(r)
    <2>1. rm' \in [Replica -> ReplicaManager]
        BY <1>0, <1>1 DEF ReplicaConnect, ReplicaManager, ManagerState
    <2>2. <<"PING">> \in Seq({"PING", "PSYNC"})
        OBVIOUS
    <2>3. tcp' \in [Replica -> TcpConn]
        BY <1>0, <1>1, <2>2 DEF ReplicaConnect, TcpConn
    <2> QED
        BY <1>0, <1>1, <2>1, <2>3
        DEF ReplicaConnect, TypeOK, ReadersInBounds, primaryVars
<1>2. CASE ReplicaHandshake(r)
    <2> DEFINE line == Head(tcp[r].p2r)
    <2>0. UNCHANGED <<db, aof, hist, snapFile, syncCount, pm, listenQ, faults>>
        BY <1>2 DEF ReplicaHandshake
    <2>1. tcp[r].p2r # <<>>
        BY <1>2 DEF ReplicaHandshake, ReplicaReads
    <2>2. /\ Tail(tcp[r].p2r) \in Seq(Token)
          /\ Append(tcp[r].r2p, "PSYNC") \in Seq({"PING", "PSYNC"})
        BY <1>0, <2>1 DEF TcpConn
    <2>3. CASE line = Pong
        <3>1. /\ tcp' = [tcp EXCEPT ![r].p2r = Tail(@),
                                    ![r].r2p = Append(@, "PSYNC")]
              /\ UNCHANGED <<rm, rr, rs, pr, wire>>
            BY <1>2, <2>3 DEF ReplicaHandshake
        <3>2. tcp' \in [Replica -> TcpConn]
            BY <1>0, <2>2, <3>1 DEF TcpConn
        <3> QED
            BY <1>0, <2>0, <3>1, <3>2 DEF TypeOK, ReadersInBounds
    <2>4. CASE line # Pong /\ line \in FullResync
        <3>1. /\ rm' = [rm EXCEPT ![r].state = "FULL_SYNC",
                                  ![r].syncId = line.id, ![r].offset = line.off,
                                  ![r].fileSize = line.size,
                                  ![r].writer = line.size]
              /\ rs' = [rs EXCEPT ![r].tmp = <<>>]
              /\ rr' = [rr EXCEPT ![r].conn = TRUE,
                                  ![r].cm = <<"ADDR_RESOLVED">>]
              /\ tcp' = [tcp EXCEPT ![r].p2r = Tail(@)]
              /\ UNCHANGED <<pr, wire>>
            BY <1>2, <2>4 DEF ReplicaHandshake
        <3>2. /\ line.id \in Nat /\ line.off \in Nat /\ line.size \in Nat
            BY <2>4 DEF FullResync
        <3> HIDE DEF line
        <3>3. rm' \in [Replica -> ReplicaManager]
            <4> DEFINE id == line.id  off == line.off  size == line.size
            <4>1. id \in Nat /\ off \in Nat /\ size \in Nat
                BY <3>2
            <4>2. rm' = [rm EXCEPT ![r].state = "FULL_SYNC", ![r].syncId = id,
                                   ![r].offset = off, ![r].fileSize = size,
                                   ![r].writer = size]
                BY <3>1
            <4> HIDE DEF id, off, size
            <4> DEFINE new == [rm[r] EXCEPT !.state = "FULL_SYNC", !.syncId = id,
                                            !.offset = off, !.fileSize = size,
                                            !.writer = size]
            <4>3. new \in ReplicaManager
                BY <1>0, <4>1 DEF ReplicaManager, ManagerState
            <4>4. rm' = [rm EXCEPT ![r] = new]
                BY <1>0, <4>2
            <4> QED
                BY <1>0, <4>3, <4>4, Zenon
        <3>4. rs' \in [Replica -> ReplicaStore]
            BY <1>0, <3>1, EmptyQueues DEF ReplicaStore
        <3>5. rr' \in [Replica -> ReplicaRdma]
            <4>1. <<"ADDR_RESOLVED">> \in Seq(CmEvent)
                BY DEF CmEvent
            <4> QED
                BY <1>0, <3>1, <4>1 DEF ReplicaRdma
        <3>6. tcp' \in [Replica -> TcpConn]
            BY <1>0, <2>2, <3>1 DEF TcpConn
        <3> QED
            BY <1>0, <2>0, <3>1, <3>3, <3>4, <3>5, <3>6
            DEF TypeOK, ReadersInBounds
    <2>5. CASE line # Pong /\ line \notin FullResync
        <3>1. DropPrimary(r, rs[r])
            BY <1>2, <2>5 DEF ReplicaHandshake
        <3> QED
            BY <1>0, <2>0, <3>1, TypeReplicaDrop
    <2> QED
        BY <2>3, <2>4, <2>5
<1>3. CASE ReplicaCatchUp(r)
    <2> DEFINE store == rs[r]
               input == Append(store.buf, Head(tcp[r].p2r))
               c     == input[1].cmd
    <2>0. UNCHANGED <<db, aof, hist, snapFile, syncCount, pm, listenQ, faults>>
        BY <1>3 DEF ReplicaCatchUp
    <2>1. tcp[r].p2r # <<>> /\ Head(tcp[r].p2r) \in Cell
        BY <1>3 DEF ReplicaCatchUp, ReplicaReads
    <2>2. /\ Tail(tcp[r].p2r) \in Seq(Token)
          /\ input \in Seq(Cell)
          /\ input[1] \in Cell
        BY <1>0, <2>1 DEF TcpConn, ReplicaStore
    <2>3. CASE DropPrimary(r, store)
        BY <1>0, <2>0, <2>3, TypeReplicaDrop
    <2>4. CASE /\ rs' = [rs EXCEPT ![r].buf = input]
               /\ tcp' = [tcp EXCEPT ![r].p2r = Tail(@)]
               /\ UNCHANGED <<rm, rr, pr, wire>>
        <3> HIDE DEF input
        <3>1. rs' \in [Replica -> ReplicaStore]
            BY <1>0, <2>2, <2>4 DEF ReplicaStore
        <3>2. tcp' \in [Replica -> TcpConn]
            BY <1>0, <2>2, <2>4 DEF TcpConn
        <3> QED
            BY <1>0, <2>0, <2>4, <3>1, <3>2 DEF TypeOK, ReadersInBounds
    <2>5. CASE /\ Hole # input[1]
               /\ input = Encode(c)
               /\ rs' = [rs EXCEPT ![r].db = Execute(@, c),
                                   ![r].aof = @ \o input, ![r].buf = <<>>]
               /\ rm' = [rm EXCEPT ![r].offset = Len(store.aof) + Len(input)]
               /\ tcp' = [tcp EXCEPT ![r].p2r = Tail(@)]
               /\ UNCHANGED <<rr, pr, wire>>
        <3> HIDE DEF input
        <3>1. c \in Command
            BY <2>2, <2>5 DEF Cell
        <3> HIDE DEF c
        <3>2. /\ Execute(rs[r].db, c) \in Database
              /\ rs[r].aof \o input \in Seq(Cell)
              /\ Len(store.aof) + Len(input) \in Nat
            BY <1>0, <2>2, <3>1, ExecuteType DEF ReplicaStore
        <3>3. rs' \in [Replica -> ReplicaStore]
            BY <1>0, <2>5, <3>2, EmptyQueues DEF ReplicaStore
        <3>4. rm' \in [Replica -> ReplicaManager]
            <4> HIDE DEF store
            <4> QED
                BY <1>0, <2>5, <3>2 DEF ReplicaManager
        <3>5. tcp' \in [Replica -> TcpConn]
            BY <1>0, <2>2, <2>5 DEF TcpConn
        <3> QED
            BY <1>0, <2>0, <2>5, <3>3, <3>4, <3>5 DEF TypeOK, ReadersInBounds
    <2> QED
        BY <1>3, <2>3, <2>4, <2>5 DEF ReplicaCatchUp
<1>4. CASE ReplicaControlLine(r)
    <2> DEFINE line == Head(tcp[r].p2r)
    <2>0. UNCHANGED <<db, aof, hist, snapFile, syncCount, pm, listenQ, faults>>
        BY <1>4 DEF ReplicaControlLine
    <2>1. tcp[r].p2r # <<>>
        BY <1>4 DEF ReplicaControlLine, ReplicaReads
    <2>2. Tail(tcp[r].p2r) \in Seq(Token)
        BY <1>0, <2>1 DEF TcpConn
    <2>3. CASE DropPrimary(r, rs[r])
        BY <1>0, <2>0, <2>3, TypeReplicaDrop
    <2>4. CASE /\ line \in OnlineLine
               /\ rm' = [rm EXCEPT ![r].state = "ONLINE", ![r].offset = line.off]
               /\ tcp' = [tcp EXCEPT ![r].p2r = Tail(@)]
               /\ UNCHANGED <<rr, rs, pr, wire>>
        <3>1. line.off \in Nat
            BY <2>4 DEF OnlineLine
        <3> HIDE DEF line
        <3>2. rm' \in [Replica -> ReplicaManager]
            BY <1>0, <2>4, <3>1 DEF ReplicaManager, ManagerState
        <3>3. tcp' \in [Replica -> TcpConn]
            BY <1>0, <2>2, <2>4 DEF TcpConn
        <3> QED
            BY <1>0, <2>0, <2>4, <3>2, <3>3 DEF TypeOK, ReadersInBounds
    <2> QED
        BY <1>4, <2>3, <2>4 DEF ReplicaControlLine
<1>5. CASE ReplicaPeerClosed(r)
    BY <1>0, <1>5, TypeReplicaDrop DEF ReplicaPeerClosed
<1> QED
    BY <1>1, <1>2, <1>3, <1>4, <1>5

\* The RDMA steps of a Replica keep the invariant.
LEMMA TypeReplicaRdma ==
    ASSUME TypeInv, NEW r \in Replica,
           \/ ReplicaResolveRoute(r) \/ ReplicaRdmaConnect(r)
           \/ ReplicaEstablished(r) \/ ReplicaDisconnected(r)
           \/ ReplicaCmError(r) \/ ReplicaTimeout(r)
           \/ ReplicaSendAck(r) \/ ReplicaSendDone(r)
    PROVE  TypeOK' /\ ReadersInBounds'
<1>0. /\ rm \in [Replica -> ReplicaManager] /\ rr \in [Replica -> ReplicaRdma]
      /\ rs[r] \in ReplicaStore /\ wire \in [Replica -> Wire]
      /\ TypeOK /\ ReadersInBounds /\ faults \in Nat
    BY DEF TypeInv, TypeOK
<1>a. ASSUME NEW m \in RdmaMessage
      PROVE  SendToPrimary(r, m) \in [Replica -> Wire]
    <2>1. Append(wire[r].rp, m) \in Seq(RdmaMessage)
        BY <1>0 DEF Wire
    <2> QED
        BY <1>0, <2>1 DEF SendToPrimary, Wire
<1>1. CASE ReplicaResolveRoute(r)
    <2>1. rr[r].cm # <<>> /\ rr[r].cm \in Seq(CmEvent)
        BY <1>0, <1>1 DEF ReplicaResolveRoute, ReplicaCmEvent, ReplicaRdma
    <2>2. Append(Tail(rr[r].cm), "ROUTE_RESOLVED") \in Seq(CmEvent)
        BY <2>1 DEF CmEvent
    <2>3. rr' \in [Replica -> ReplicaRdma]
        BY <1>0, <1>1, <2>2 DEF ReplicaResolveRoute, ReplicaRdma
    <2> QED
        BY <1>0, <1>1, <2>3
        DEF ReplicaResolveRoute, TypeOK, ReadersInBounds, primaryVars
<1>2. CASE ReplicaRdmaConnect(r)
    <2>1. rr[r].cm # <<>> /\ rr[r].cm \in Seq(CmEvent)
        BY <1>0, <1>2 DEF ReplicaRdmaConnect, ReplicaCmEvent, ReplicaRdma
    <2>2. Tail(rr[r].cm) \in Seq(CmEvent) /\ Append(listenQ, r) \in Seq(Replica)
        BY <1>0, <2>1 DEF TypeOK
    <2>3. rr' \in [Replica -> ReplicaRdma]
        BY <1>0, <1>2, <2>2 DEF ReplicaRdmaConnect, ReplicaRdma
    <2> QED
        BY <1>0, <1>2, <2>2, <2>3
        DEF ReplicaRdmaConnect, TypeOK, ReadersInBounds
<1>3. CASE ReplicaEstablished(r)
    <2>1. rr[r].cm # <<>> /\ rr[r].cm \in Seq(CmEvent)
        BY <1>0, <1>3 DEF ReplicaEstablished, ReplicaCmEvent, ReplicaRdma
    <2>2. Tail(rr[r].cm) \in Seq(CmEvent)
        BY <2>1
    <2>3. rr' \in [Replica -> ReplicaRdma]
        BY <1>0, <1>3, <2>2 DEF ReplicaEstablished, ReplicaRdma
    <2>4. [kind |-> "READY", n |-> rm[r].syncId] \in RdmaMessage
        BY <1>0 DEF ReplicaManager, RdmaMessage
    <2>5. wire' \in [Replica -> Wire]
        BY <1>3, <1>a, <2>4 DEF ReplicaEstablished
    <2> QED
        BY <1>0, <1>3, <2>3, <2>5
        DEF ReplicaEstablished, TypeOK, ReadersInBounds, primaryVars
<1>4. CASE ReplicaDisconnected(r)
    <2>0. UNCHANGED <<db, aof, hist, snapFile, syncCount, pm, listenQ, faults>>
        BY <1>4 DEF ReplicaDisconnected
    <2>1. CASE DropPrimary(r, rs[r])
        BY <1>0, <2>0, <2>1, TypeReplicaDrop
    <2>2. CASE /\ rr' = [rr EXCEPT ![r] = NoReplicaRdma]
               /\ wire' = [wire EXCEPT ![r] = EmptyWire]
               /\ UNCHANGED <<rm, rs, tcp, pr>>
        <3>1. rr' \in [Replica -> ReplicaRdma] /\ wire' \in [Replica -> Wire]
            BY <1>0, <2>2, NoRdmaType, EmptyWireType
        <3> QED
            BY <1>0, <2>0, <2>2, <3>1 DEF TypeOK, ReadersInBounds
    <2> QED
        BY <1>4, <2>1, <2>2 DEF ReplicaDisconnected
<1>5. CASE ReplicaCmError(r)
    BY <1>0, <1>5, TypeReplicaDrop DEF ReplicaCmError
<1>6. CASE ReplicaTimeout(r)
    BY <1>0, <1>6, TypeReplicaDrop DEF ReplicaTimeout
<1>7. CASE ReplicaSendAck(r)
    <2>1. rr[r].bytes \in Nat
        BY <1>0 DEF ReplicaRdma
    <2>2. rr' \in [Replica -> ReplicaRdma]
        BY <1>0, <1>7, <2>1 DEF ReplicaSendAck, ReplicaRdma
    <2>3. [kind |-> "SNAPSHOT_ACK", n |-> rr[r].bytes] \in RdmaMessage
        BY <2>1 DEF RdmaMessage
    <2>4. wire' \in [Replica -> Wire]
        BY <1>7, <1>a, <2>3 DEF ReplicaSendAck
    <2> QED
        BY <1>0, <1>7, <2>2, <2>4
        DEF ReplicaSendAck, TypeOK, ReadersInBounds, primaryVars
<1>8. CASE ReplicaSendDone(r)
    <2>1. rr' \in [Replica -> ReplicaRdma]
        BY <1>0, <1>8 DEF ReplicaSendDone, ReplicaRdma
    <2> QED
        BY <1>0, <1>8, <2>1
        DEF ReplicaSendDone, TypeOK, ReadersInBounds, primaryVars
<1> QED
    BY <1>1, <1>2, <1>3, <1>4, <1>5, <1>6, <1>7, <1>8

\* The files a chunk leaves, loaded or refused.
LEMMA InstallType ==
    ASSUME NEW r \in Replica, NEW store \in ReplicaStore,
           rm \in [Replica -> ReplicaManager]
    PROVE  /\ InstallRefused(store) \in ReplicaStore
           /\ Installable(r, store) => Installed(r, store) \in ReplicaStore
           /\ ResetToOffset(store.aof, rm[r].offset) \in Seq(Cell)
<1>1. /\ store.aof \in Seq(Cell) /\ store.tmp \in Seq(SnapCell)
      /\ rm[r].offset \in Nat
    BY DEF ReplicaStore, ReplicaManager
<1>2. EmptyDb \in Database
    BY DEF EmptyDb, Database
<1>3. InstallRefused(store) \in ReplicaStore
    BY <1>1, <1>2, EmptyQueues DEF InstallRefused, ReplicaStore
<1>4. ResetToOffset(store.aof, rm[r].offset) \in Seq(Cell)
    BY <1>1, ResetType
<1>5. ASSUME Installable(r, store)
      PROVE  Installed(r, store) \in ReplicaStore
    <2>1. store.tmp # <<>>
        BY <1>5 DEF Installable, Loadable
    <2>2. store.tmp[1] \in SnapCell
        BY <1>1, <2>1
    <2>3. store.tmp[1].db \in Database
        BY <2>2 DEF SnapCell
    <2> QED
        BY <1>1, <1>4, <2>3, EmptyQueues DEF Installed, ReplicaStore
<1> QED
    BY <1>3, <1>4, <1>5

\* Writing a received chunk keeps the type of a Replica's files.
LEMMA WrittenType ==
    ASSUME NEW r \in Replica, rs[r] \in ReplicaStore,
           NEW chunk \in Seq(SnapCell)
    PROVE  Written(r, chunk) \in ReplicaStore
<1>1. rs[r].tmp \o chunk \in Seq(SnapCell)
    BY DEF ReplicaStore
<1> QED
    BY <1>1 DEF Written, ReplicaStore

\* Receiving a chunk, and installing after the last, keeps the invariant.
LEMMA TypeReplicaRecvChunk ==
    ASSUME TypeInv, NEW r \in Replica, ReplicaRecvChunk(r)
    PROVE  TypeOK' /\ ReadersInBounds'
<1> DEFINE chunk == Head(wire[r].pr)
           store == Written(r, chunk)
           last  == Len(chunk) = rm[r].writer
<1>0. /\ rm \in [Replica -> ReplicaManager] /\ rr \in [Replica -> ReplicaRdma]
      /\ rs \in [Replica -> ReplicaStore] /\ wire \in [Replica -> Wire]
      /\ rs[r] \in ReplicaStore
      /\ TypeOK /\ ReadersInBounds /\ faults \in Nat
    BY DEF TypeInv, TypeOK
<1>1. /\ UNCHANGED <<db, aof, hist, snapFile, syncCount, pm, listenQ, faults>>
      /\ wire[r].pr # <<>>
    BY DEF ReplicaRecvChunk
<1>2. chunk \in Seq(SnapCell) /\ Tail(wire[r].pr) \in Seq(Seq(SnapCell))
    BY <1>0, <1>1 DEF Wire
<1>3. store \in ReplicaStore
    BY <1>0, <1>2, WrittenType
<1>4. CASE DropPrimary(r, rs[r])
    BY <1>0, <1>1, <1>4, TypeReplicaDrop
<1>5. CASE DropPrimary(r, InstallRefused(store))
    <2>1. InstallRefused(store) \in ReplicaStore
        BY <1>0, <1>3, InstallType
    <2> HIDE DEF store
    <2> QED
        BY <1>1, <1>0, <1>5, <2>1, TypeReplicaDrop
<1>6. CASE /\ ~(Len(chunk) > rm[r].writer)
           /\ ~(last /\ ~Installable(r, store))
           /\ rs' = [rs EXCEPT ![r] = IF last THEN Installed(r, store)
                                      ELSE store]
           /\ rm' = [rm EXCEPT ![r].writer = IF last THEN Closed
                                             ELSE @ - Len(chunk),
                               ![r].state = IF last THEN "CATCH_UP"
                                            ELSE "FULL_SYNC"]
           /\ rr' = [rr EXCEPT ![r].bytes = @ + Len(chunk)]
           /\ wire' = [wire EXCEPT ![r].pr = Tail(@)]
           /\ UNCHANGED <<tcp, pr>>
    <2>1. rs' \in [Replica -> ReplicaStore]
        <3>1. (IF last THEN Installed(r, store) ELSE store) \in ReplicaStore
            BY <1>0, <1>3, <1>6, InstallType
        <3> QED
            BY <1>0, <1>6, <3>1, Zenon
    <2>2. Len(chunk) \in Nat /\ rr[r].bytes + Len(chunk) \in Nat
        BY <1>0, <1>2 DEF ReplicaRdma
    <2>3. rr' \in [Replica -> ReplicaRdma]
        BY <1>0, <1>6, <2>2 DEF ReplicaRdma
    <2>4. rm' \in [Replica -> ReplicaManager]
        <3> DEFINE w == IF last THEN Closed ELSE rm[r].writer - Len(chunk)
                   st == IF last THEN "CATCH_UP" ELSE "FULL_SYNC"
        <3>1. w \in Nat \cup {Closed} /\ st \in ManagerState
            <4>1. rm[r].writer \in Nat \cup {-1}
                BY <1>0 DEF ReplicaManager, Closed
            <4>2. rm[r].writer >= Len(chunk)
                BY <1>6, <2>2, <4>1
            <4>3. rm[r].writer - Len(chunk) \in Nat
                BY <2>2, <4>1, <4>2
            <4> HIDE DEF last, chunk
            <4> QED
                BY <4>3 DEF ManagerState
        <3>2. rm' = [rm EXCEPT ![r].writer = w, ![r].state = st]
            BY <1>6
        <3> HIDE DEF w, st
        <3> QED
            BY <1>0, <3>1, <3>2 DEF ReplicaManager
    <2>5. wire' \in [Replica -> Wire]
        BY <1>0, <1>2, <1>6 DEF Wire
    <2> QED
        BY <1>0, <1>1, <1>6, <2>1, <2>3, <2>4, <2>5 DEF TypeOK, ReadersInBounds
<1> QED
    BY <1>4, <1>5, <1>6 DEF ReplicaRecvChunk

\* Failures and restarts keep the invariant.
LEMMA TypeFailure ==
    ASSUME TypeInv, Failure
    PROVE  TypeOK' /\ ReadersInBounds'
<1>0. /\ TypeOK /\ ReadersInBounds
      /\ rs \in [Replica -> ReplicaStore] /\ wire \in [Replica -> Wire]
      /\ rr \in [Replica -> ReplicaRdma] /\ tcp \in [Replica -> TcpConn]
    BY DEF TypeInv, TypeOK
<1>1. faults' \in Nat
    <2>1. Fault
        BY DEF Failure, PrimaryFailure, ReplicaFailure, ReplicaInstallFailure,
               RdmaBreak, PrimaryRestart
    <2>2. faults \in Nat
        BY <1>0 DEF TypeOK
    <2> QED
        BY <2>1, <2>2 DEF Fault
<1>2. ASSUME NEW r \in Replica, PrimaryFailure(r)
      PROVE  TypeOK' /\ ReadersInBounds'
    BY <1>0, <1>1, <1>2, DropReplicaType DEF PrimaryFailure, TypeOK
<1>3. ASSUME NEW r \in Replica, ReplicaFailure(r)
      PROVE  TypeOK' /\ ReadersInBounds'
    BY <1>0, <1>1, <1>3, TypeReplicaDrop DEF ReplicaFailure
<1>4. ASSUME NEW r \in Replica, ReplicaInstallFailure(r)
      PROVE  TypeOK' /\ ReadersInBounds'
    <2> DEFINE store == Written(r, Head(wire[r].pr))
    <2>1. Head(wire[r].pr) \in Seq(SnapCell)
        BY <1>0, <1>4 DEF ReplicaInstallFailure, Wire
    <2>2. store \in ReplicaStore
        BY <1>0, <2>1, WrittenType
    <2>3. rm \in [Replica -> ReplicaManager] /\ rs[r] \in ReplicaStore
        BY <1>0 DEF TypeOK
    <2>4. InstallRefused(store) \in ReplicaStore
        BY <2>2, <2>3, InstallType
    <2>5. PICK a \in {rs[r].aof, ResetToOffset(rs[r].aof, rm[r].offset)} :
              DropPrimary(r, [InstallRefused(store) EXCEPT !.aof = a])
        BY <1>4 DEF ReplicaInstallFailure
    <2>6. a \in Seq(Cell)
        BY <2>3, <2>5, InstallType DEF ReplicaStore
    <2>7. [InstallRefused(store) EXCEPT !.aof = a] \in ReplicaStore
        <3> DEFINE refused == InstallRefused(store)
        <3> HIDE DEF refused
        <3>1. refused \in ReplicaStore
            BY <2>4 DEF refused
        <3>2. [refused EXCEPT !.aof = a] \in ReplicaStore
            BY <2>6, <3>1 DEF ReplicaStore
        <3> QED
            BY <3>2 DEF refused
    <2>8. UNCHANGED <<db, aof, hist, snapFile, syncCount, pm, listenQ>>
        BY <1>4 DEF ReplicaInstallFailure
    <2> HIDE DEF store
    <2> QED
        BY <1>1, <2>5, <2>7, <2>8, TypeReplicaDrop
<1>5. ASSUME NEW r \in Replica, RdmaBreak(r)
      PROVE  TypeOK' /\ ReadersInBounds'
    <2>1. wire' \in [Replica -> Wire]
        BY <1>0, <1>5, EmptyWireType DEF RdmaBreak
    <2>2. pr' \in PrimaryRdma /\ rr' \in [Replica -> ReplicaRdma]
        BY <1>0, <1>5, NotifyPrimaryType, NotifyReplicaType
        DEF RdmaBreak, CmEvent
    <2> QED
        BY <1>0, <1>1, <1>5, <2>1, <2>2 DEF RdmaBreak, TypeOK, ReadersInBounds
<1>6. ASSUME PrimaryRestart
      PROVE  TypeOK' /\ ReadersInBounds'
    <2>1. Len(aof) \in Nat /\ pm' = PrimaryStarted(Len(aof)) /\ aof' = aof
        <3>1. aof \in Seq(Cell)
            BY <1>0 DEF TypeOK
        <3>2. pm' = PrimaryStarted(Len(aof)) /\ aof' = aof
            BY <1>6, Zenon DEF PrimaryRestart
        <3> QED
            BY <3>1, <3>2
    <2>2. pm' \in PrimaryManager /\ ReadersInBounds'
        BY <2>1, PrimaryStartedType DEF ReadersInBounds
    <2>3. pr' \in PrimaryRdma /\ wire' \in [Replica -> Wire]
        BY <1>6, NoRdmaType, EmptyWireType DEF PrimaryRestart
    <2>4. rr' \in [Replica -> ReplicaRdma]
        <3>1. ASSUME NEW r \in Replica
              PROVE  [rr[r] EXCEPT !.cm = Append(@, "DISCONNECTED")]
                        \in ReplicaRdma
            <4>1. Append(rr[r].cm, "DISCONNECTED") \in Seq(CmEvent)
                BY <1>0 DEF ReplicaRdma, CmEvent
            <4> QED
                BY <1>0, <4>1 DEF ReplicaRdma
        <3>2. \A r \in Replica : rr[r] \in ReplicaRdma
            BY <1>0
        <3> QED
            BY <1>6, <3>1, <3>2 DEF PrimaryRestart
    <2>5. tcp' \in [Replica -> TcpConn]
        <3>1. ASSUME NEW r \in Replica
              PROVE  [tcp[r] EXCEPT !.primary = "closed", !.r2p = <<>>] \in TcpConn
            BY <1>0, EmptyQueues DEF TcpConn
        <3>2. \A r \in Replica : tcp[r] \in TcpConn
            BY <1>0
        <3> QED
            BY <1>6, <3>1, <3>2 DEF PrimaryRestart
    <2>6. listenQ' \in Seq(Replica)
        <3>1. listenQ' = <<>>
            BY <1>6, Zenon DEF PrimaryRestart
        <3> QED
            BY <3>1
    <2> QED
        BY <1>0, <1>1, <1>6, <2>2, <2>3, <2>4, <2>5, <2>6
        DEF PrimaryRestart, TypeOK
<1> QED
    BY <1>2, <1>3, <1>4, <1>5, <1>6 DEF Failure

-----------------------------------------------------------------------------
(* ReaderOpen is preserved.  Few actions touch both pm and pr.              *)

\* Releasing the slot keeps ReaderOpen.
LEMMA ReaderOpenDropReplica ==
    ASSUME ReaderOpen, NEW r, DropReplica(r)
    PROVE  ReaderOpen'
<1>1. CASE pm.conn = r
    <2>1. pm'.state = "DISCONNECTED" /\ pr' = NoPrimaryRdma
        BY <1>1 DEF DropReplica, PrimaryStarted
    <2> QED
        BY <2>1 DEF ReaderOpen
<1>2. CASE pm.conn # r
    BY <1>2 DEF DropReplica, ReaderOpen
<1> QED
    BY <1>1, <1>2

\* CM events keep ReaderOpen.
LEMMA ReaderOpenNotify ==
    ASSUME ReaderOpen, TypeOK, NEW r \in Replica, NEW e,
           pr' = NotifyPrimary(r, e), pm' = pm
    PROVE  ReaderOpen'
<1>1. CASE pr.conn = r
    <2>1. pr'.conn = r /\ pr'.discPending = pr.discPending
        BY <1>1 DEF NotifyPrimary, TypeOK, PrimaryRdma
    <2> QED
        BY <1>1, <2>1, ReplicationAssumption DEF ReaderOpen
<1>2. CASE pr.conn # r
    BY <1>2 DEF NotifyPrimary, ReaderOpen
<1> QED
    BY <1>1, <1>2

\* Every step of the Primary keeps ReaderOpen.
LEMMA ReaderOpenPrimary ==
    ASSUME TypeInv, PrimaryStep
    PROVE  ReaderOpen'
<1>0. pr \in PrimaryRdma /\ pm \in PrimaryManager /\ ReaderOpen
    BY DEF TypeInv, TypeOK
<1>1. CASE PrimaryAccept
    <2>1. listenQ # <<>> /\ listenQ \in Seq(Replica)
        BY <1>1 DEF PrimaryAccept, TypeInv, TypeOK
    <2>2. /\ pr'.conn = Head(listenQ)
          /\ pm' = pm
          /\ pr = NoPrimaryRdma
        BY <1>0, <1>1 DEF PrimaryAccept, NoPrimaryRdma, ReaderOpen
    <2>3. pr'.conn # NoConn
        BY <2>1, <2>2, ReplicationAssumption
    <2>4. ~pr.discPending
        BY <2>2 DEF NoPrimaryRdma
    <2> QED
        BY <1>0, <2>2, <2>3, <2>4 DEF ReaderOpen
<1>2. CASE PrimaryReject
    BY <1>0, <1>2 DEF PrimaryReject, ReaderOpen
<1>3. CASE PrimaryEstablished
    <2>1. pr.conn # NoConn
        BY <1>0, <1>3 DEF PrimaryEstablished, PrimaryCmEvent, ReaderOpen,
                          NoPrimaryRdma
    <2>2. /\ pr'.conn = pr.conn /\ pr'.discPending = pr.discPending
          /\ pm' = pm
        BY <1>0, <1>3 DEF PrimaryEstablished, PrimaryRdma
    <2> QED
        BY <1>0, <2>1, <2>2 DEF ReaderOpen
<1>4. CASE PrimaryDisconnected
    <2>1. CASE TransferComplete
        <3>1. pr' = NoPrimaryRdma /\ pm'.state \in {"CATCH_UP", "ONLINE"}
            BY <1>0, <1>4, <2>1
            DEF PrimaryDisconnected, SendAof, SendOnline, PrimaryManager
        <3> QED
            BY <3>1 DEF ReaderOpen
    <2>2. CASE ~TransferComplete
        BY <1>0, <1>4, <2>2, ReaderOpenDropReplica DEF PrimaryDisconnected
    <2> QED
        BY <2>1, <2>2
<1>5. CASE PrimaryCmError
    BY <1>0, <1>5, ReaderOpenDropReplica DEF PrimaryCmError
<1>6. ASSUME NEW net, SendChunk(pr, net), PrimaryData
      PROVE  ReaderOpen'
    <2>1. pr.conn # NoConn /\ pm.reader # Closed
        BY <1>0, <1>6 DEF PrimaryData, ReaderOpen, NoPrimaryRdma
    <2>2. pm.reader \in Nat
        BY <1>0, <2>1 DEF PrimaryManager, Closed
    <2>3. pm.reader - Min2(ChunkCap, pm.reader) \in Nat
        <3> DEFINE n == Min2(ChunkCap, pm.reader)
        <3>1. n \in Nat /\ n <= pm.reader
            BY <2>2, Min2Nat, ReplicationAssumption
        <3> HIDE DEF n
        <3>2. pm.reader - n \in Nat
            BY <2>2, <3>1
        <3> QED
            BY <3>2 DEF n
    <2>4. /\ pm'.reader = pm.reader - Min2(ChunkCap, pm.reader)
          /\ pr'.conn = pr.conn
        BY <1>0, <1>6 DEF SendChunk, PrimaryManager, PrimaryRdma
    <2> QED
        BY <2>1, <2>3, <2>4 DEF ReaderOpen, Closed
<1>7. CASE PrimarySendNext
    BY <1>6, <1>7 DEF PrimarySendNext
<1>8. CASE PrimaryDisconnect
    <2>1. pr.conn # NoConn
        BY <1>0, <1>8 DEF PrimaryDisconnect, PrimaryData, ReaderOpen,
                          NoPrimaryRdma
    <2>2. pr'.conn = pr.conn /\ pr'.discPending
        <3>1. pr' = [pr EXCEPT !.discPending = TRUE,
                               !.cm = Append(@, "DISCONNECTED")]
            BY <1>8 DEF PrimaryDisconnect
        <3> QED
            BY <1>0, <3>1 DEF PrimaryRdma
    <2> QED
        BY <2>1, <2>2 DEF ReaderOpen
<1>9. CASE PrimarySendDone
    <2>1. pr.conn # NoConn
        BY <1>0, <1>9 DEF PrimarySendDone, PrimaryData, ReaderOpen,
                          NoPrimaryRdma
    <2>2. /\ pr'.conn = pr.conn /\ pr'.discPending = pr.discPending
          /\ pm' = pm
        BY <1>0, <1>9 DEF PrimarySendDone, PrimaryRdma
    <2> QED
        BY <1>0, <2>1, <2>2 DEF ReaderOpen
<1>10. CASE PrimaryRecv
    <2>1. CASE DropReplica(pm.conn)
        BY <1>0, <2>1, ReaderOpenDropReplica
    <2>2. CASE pr' = [pr EXCEPT !.acked = pr.sent] /\ pm' = pm
        <3>1. pr.conn # NoConn
            BY <1>0, <1>10 DEF PrimaryRecv, PrimaryData, ReaderOpen,
                               NoPrimaryRdma
        <3>2. pr'.conn = pr.conn /\ pr'.discPending = pr.discPending
            BY <1>0, <2>2 DEF PrimaryRdma
        <3> QED
            BY <1>0, <2>2, <3>1, <3>2 DEF ReaderOpen
    <2>3. CASE SendChunk(pr, [wire EXCEPT ![pr.conn].rp = Tail(@)])
        BY <1>6, <1>10, <2>3 DEF PrimaryRecv
    <2> QED
        BY <1>10, <2>1, <2>2, <2>3 DEF PrimaryRecv
<1>11. CASE PrimarySendAof \/ PrimaryNextRound \/ PrimaryCaughtUp \/ PrimaryResume
    <2>1. pr' = pr /\ pm.state \in {"CATCH_UP", "ONLINE"}
        BY <1>11 DEF PrimarySendAof, PrimaryNextRound, PrimaryCaughtUp,
                     PrimaryResume, PrimaryStreams
    <2>2. pm'.state \in {"CATCH_UP", "ONLINE"}
        BY <1>0, <1>11, <2>1
        DEF PrimarySendAof, PrimaryNextRound, PrimaryCaughtUp, PrimaryResume,
            SendAof, SendOnline, PrimaryManager
    <2> QED
        BY <1>0, <2>1, <2>2 DEF ReaderOpen
<1> QED
    BY <1>1, <1>2, <1>3, <1>4, <1>5, <1>7, <1>8, <1>9, <1>10, <1>11
    DEF PrimaryStep

\* Every step of a Replica keeps ReaderOpen.
LEMMA ReaderOpenReplica ==
    ASSUME TypeInv, NEW r \in Replica, ReplicaStep(r)
    PROVE  ReaderOpen'
<1>1. TypeOK /\ ReaderOpen
    BY DEF TypeInv
<1>2. pm' = pm
    BY DEF ReplicaStep, ReplicaHandshake, ReplicaCatchUp, ReplicaControlLine,
           ReplicaPeerClosed, ReplicaResolveRoute, ReplicaRdmaConnect,
           ReplicaEstablished, ReplicaDisconnected, ReplicaCmError,
           ReplicaTimeout, ReplicaSendAck, ReplicaSendDone, ReplicaRecvChunk,
           primaryVars
<1>3. pr' = pr \/ pr' = NotifyPrimary(r, "DISCONNECTED")
    <2>1. ASSUME NEW store, DropPrimary(r, store)
          PROVE  pr' = NotifyPrimary(r, "DISCONNECTED")
        BY <2>1 DEF DropPrimary
    <2> QED
        BY <2>1
        DEF ReplicaStep, ReplicaHandshake, ReplicaCatchUp, ReplicaControlLine,
            ReplicaPeerClosed, ReplicaResolveRoute, ReplicaRdmaConnect,
            ReplicaEstablished, ReplicaDisconnected, ReplicaCmError,
            ReplicaTimeout, ReplicaSendAck, ReplicaSendDone, ReplicaRecvChunk,
            primaryVars
<1> QED
    BY <1>1, <1>2, <1>3, ReaderOpenNotify DEF ReaderOpen

\* Every step keeps ReaderOpen.
LEMMA ReaderOpenStep ==
    ASSUME TypeInv, [Next]_vars
    PROVE  ReaderOpen'
<1>0. TypeOK /\ ReaderOpen
    BY DEF TypeInv
<1>1. ASSUME NEW c \in Command, ClientWrite(c) PROVE ReaderOpen'
    BY <1>0, <1>1 DEF ClientWrite, ReaderOpen
<1>2. ASSUME NEW r \in Replica, PrimaryConnStep(r) PROVE ReaderOpen'
    <2>1. CASE PrimaryPing(r)
        BY <1>0, <2>1 DEF PrimaryPing, ReaderOpen, primaryVars
    <2>2. CASE PrimaryPsync(r)
        <3>1. CASE Busy
            BY <1>0, <2>2, <3>1, ReaderOpenDropReplica DEF PrimaryPsync
        <3>2. CASE ~Busy
            <4>1. pr' = pr /\ pm'.reader = SnapSize
                BY <1>0, <2>2, <3>2 DEF PrimaryPsync, TypeOK, PrimaryManager
            <4> QED
                BY <1>0, <4>1, ReplicationAssumption DEF ReaderOpen, Closed
        <3> QED
            BY <3>1, <3>2
    <2>3. CASE PrimaryPeerClosed(r)
        BY <1>0, <2>3, ReaderOpenDropReplica DEF PrimaryPeerClosed
    <2> QED
        BY <1>2, <2>1, <2>2, <2>3 DEF PrimaryConnStep
<1>3. ASSUME NEW r \in Replica, ReplicaConnect(r) PROVE ReaderOpen'
    BY <1>0, <1>3 DEF ReplicaConnect, ReaderOpen, primaryVars
<1>4. CASE Failure
    <2>1. ASSUME NEW r \in Replica, PrimaryFailure(r) PROVE ReaderOpen'
        BY <1>0, <2>1, ReaderOpenDropReplica DEF PrimaryFailure
    <2>2. ASSUME NEW r \in Replica,
                 ReplicaFailure(r) \/ ReplicaInstallFailure(r) \/ RdmaBreak(r)
          PROVE  ReaderOpen'
        <3>1. pm' = pm /\ pr' = NotifyPrimary(r, "DISCONNECTED")
            BY <2>2 DEF ReplicaFailure, ReplicaInstallFailure, RdmaBreak,
                        DropPrimary
        <3> QED
            BY <1>0, <3>1, ReaderOpenNotify
    <2>3. CASE PrimaryRestart
        <3>1. pm'.state = "DISCONNECTED" /\ pr' = NoPrimaryRdma
            BY <2>3 DEF PrimaryRestart, PrimaryStarted
        <3> QED
            BY <3>1 DEF ReaderOpen
    <2> QED
        BY <1>4, <2>1, <2>2, <2>3 DEF Failure
<1>5. CASE UNCHANGED vars
    BY <1>0, <1>5 DEF vars, ReaderOpen
<1> QED
    BY <1>1, <1>2, <1>3, <1>4, <1>5, ReaderOpenPrimary, ReaderOpenReplica
    DEF Next

\* Every step keeps the whole invariant: one case per action.
LEMMA TypeStep == TypeInv /\ [Next]_vars => TypeInv'
<1> SUFFICES ASSUME TypeInv, [Next]_vars PROVE TypeOK' /\ ReadersInBounds'
    BY ReaderOpenStep DEF TypeInv
<1>1. CASE UNCHANGED vars
    BY <1>1 DEF vars, TypeInv, TypeOK, ReadersInBounds
<1>2. CASE PrimaryStep
    BY <1>2, TypePrimaryFullSync, TypePrimaryStreams DEF PrimaryStep
<1>3. ASSUME NEW r \in Replica, ReplicaStep(r)
      PROVE  TypeOK' /\ ReadersInBounds'
    BY <1>3, TypeReplicaTcp, TypeReplicaRdma, TypeReplicaRecvChunk
    DEF ReplicaStep
<1> QED
    BY <1>1, <1>2, <1>3, TypeClientWrite, TypePrimaryConnStep, TypeReplicaTcp,
       TypeFailure DEF Next

\* TypeCorrect: every variable keeps its type, for any number of Replicas, any
\* sizes of commands, chunks and reads, and any number of failures.
THEOREM TypeCorrect == Spec => []TypeOK
<1>1. Spec => []TypeInv
    BY TypeInit, TypeStep, PTL DEF Spec
<1>2. TypeInv => TypeOK
    BY DEF TypeInv
<1> QED
    BY <1>1, <1>2, PTL

\* ReadersStayInBounds: no read of the AOF or of the snapshot file by the
\* Primary's stream call runs past the end of the file (ReadersInBounds).
THEOREM ReadersStayInBounds == Spec => []ReadersInBounds
<1>1. Spec => []TypeInv
    BY TypeInit, TypeStep, PTL DEF Spec
<1>2. TypeInv => ReadersInBounds
    BY DEF TypeInv
<1> QED
    BY <1>1, <1>2, PTL

-----------------------------------------------------------------------------
(***************************************************************************)
(* The Primary's only synchronisation slot: it is never taken over, and    *)
(* snapshot bytes go to its owner only.  The second fact is about the      *)
(* CONNECT_REQUEST of an earlier round: it may be accepted in a later one, *)
(* and what protects that round is that a full_sync_id is never drawn      *)
(* twice, so that a READY of this round can only come from the Replica     *)
(* this round was announced to.                                            *)
(***************************************************************************)

-----------------------------------------------------------------------------
(* What one step may do to the slot.                                        *)

SlotKept ==
    /\ pm'.conn = pm.conn
    /\ pm'.syncId = pm.syncId
    /\ pm'.state = "FULL_SYNC" => pm.state = "FULL_SYNC"
    /\ UNCHANGED <<syncCount, snapFile>>

SlotFreed ==
    /\ pm'.conn = NoConn
    /\ pm'.syncId = 0
    /\ pm'.state = "DISCONNECTED"
    /\ pr' = NoPrimaryRdma
    /\ UNCHANGED syncCount

SlotTaken ==
    /\ pm.conn = NoConn
    /\ pr.conn = NoConn
    /\ pr' = pr
    /\ pm'.syncId = syncCount + 1
    /\ syncCount' = syncCount + 1

\* Closing a connection keeps the slot or frees it.
LEMMA SlotDropReplica ==
    ASSUME NEW r, DropReplica(r), UNCHANGED <<syncCount, snapFile>>
    PROVE  SlotKept \/ SlotFreed
<1>1. CASE pm.conn = r
    BY <1>1 DEF DropReplica, PrimaryStarted, SlotFreed
<1>2. CASE pm.conn # r
    BY <1>2 DEF DropReplica, SlotKept
<1> QED
    BY <1>1, <1>2

\* A stream call of the Primary keeps the slot or frees it.
LEMMA SlotPrimary ==
    ASSUME TypeOK, PrimaryStep
    PROVE  SlotKept \/ SlotFreed
<1>0. pm \in PrimaryManager
    BY DEF TypeOK
<1>1. CASE PrimaryAccept \/ PrimaryReject \/ PrimaryEstablished \/ PrimarySendDone
    BY <1>1 DEF PrimaryAccept, PrimaryReject, PrimaryEstablished,
                PrimarySendDone, SlotKept
<1>2. ASSUME NEW state, NEW pos, NEW end, SendAof(state, pos, end),
             state # "FULL_SYNC", UNCHANGED <<syncCount, snapFile>>
      PROVE  SlotKept
    BY <1>0, <1>2 DEF SendAof, SlotKept, PrimaryManager
<1>3. ASSUME NEW pos, SendOnline(pos), UNCHANGED <<syncCount, snapFile>>
      PROVE  SlotKept
    BY <1>0, <1>3 DEF SendOnline, SlotKept, PrimaryManager
<1>4. ASSUME NEW base, NEW net, SendChunk(base, net),
             UNCHANGED <<syncCount, snapFile>>
      PROVE  SlotKept
    BY <1>0, <1>4 DEF SendChunk, SlotKept, PrimaryManager
<1>5. CASE PrimaryDisconnected
    <2>1. UNCHANGED <<syncCount, snapFile>>
        BY <1>5 DEF PrimaryDisconnected
    <2>2. \/ DropReplica(pm.conn)
          \/ SendAof("CATCH_UP", pm.offset, Len(aof))
          \/ SendOnline(pm.offset)
        BY <1>5 DEF PrimaryDisconnected
    <2> QED
        BY <1>2, <1>3, <2>1, <2>2, SlotDropReplica
<1>6. CASE PrimaryCmError
    BY <1>6, SlotDropReplica DEF PrimaryCmError
<1>7. CASE PrimarySendNext
    BY <1>4, <1>7 DEF PrimarySendNext
<1>8. CASE PrimaryDisconnect
    BY <1>0, <1>8 DEF PrimaryDisconnect, SlotKept, PrimaryManager
<1>9. CASE PrimaryRecv
    <2>1. UNCHANGED <<syncCount, snapFile>>
        BY <1>9 DEF PrimaryRecv
    <2>2. \/ DropReplica(pm.conn)
          \/ pm' = pm
          \/ SendChunk(pr, [wire EXCEPT ![pr.conn].rp = Tail(@)])
        BY <1>9 DEF PrimaryRecv
    <2> QED
        BY <1>4, <2>1, <2>2, SlotDropReplica DEF SlotKept
<1>10. CASE PrimarySendAof \/ PrimaryNextRound \/ PrimaryCaughtUp \/ PrimaryResume
    <2>1. pm.state # "FULL_SYNC" /\ UNCHANGED <<syncCount, snapFile>>
        BY <1>10 DEF PrimarySendAof, PrimaryNextRound, PrimaryCaughtUp,
                     PrimaryResume, PrimaryStreams
    <2>2. CASE PrimaryCaughtUp /\ pm.state = "ONLINE"
        BY <1>0, <2>1, <2>2 DEF PrimaryCaughtUp, SlotKept, PrimaryManager
    <2>3. CASE ~(PrimaryCaughtUp /\ pm.state = "ONLINE")
        BY <1>2, <1>3, <1>10, <2>1, <2>3
        DEF PrimarySendAof, PrimaryNextRound, PrimaryCaughtUp, PrimaryResume
    <2> QED
        BY <2>2, <2>3
<1> QED
    BY <1>1, <1>5, <1>6, <1>7, <1>8, <1>9, <1>10 DEF PrimaryStep

\* A Replica cannot touch the slot.
LEMMA SlotReplica ==
    ASSUME NEW r \in Replica, ReplicaConnect(r) \/ ReplicaStep(r)
    PROVE  SlotKept
    BY DEF ReplicaStep, ReplicaConnect, ReplicaHandshake, ReplicaCatchUp,
           ReplicaControlLine, ReplicaPeerClosed, ReplicaResolveRoute,
           ReplicaRdmaConnect, ReplicaEstablished, ReplicaDisconnected,
           ReplicaCmError, ReplicaTimeout, ReplicaSendAck, ReplicaSendDone,
           ReplicaRecvChunk, primaryVars, SlotKept

\* A step keeps the slot, frees it, or takes a free one.
LEMMA SlotStep ==
    ASSUME TypeOK, [Next]_vars
    PROVE  SlotKept \/ SlotFreed \/ SlotTaken
<1>1. ASSUME NEW c \in Command, ClientWrite(c) PROVE SlotKept
    BY <1>1 DEF ClientWrite, SlotKept
<1>2. ASSUME NEW r \in Replica, PrimaryConnStep(r)
      PROVE  SlotKept \/ SlotFreed \/ SlotTaken
    <2>1. CASE PrimaryPing(r)
        BY <2>1 DEF PrimaryPing, primaryVars, SlotKept
    <2>2. CASE PrimaryPsync(r) /\ Busy
        BY <2>2, SlotDropReplica DEF PrimaryPsync
    <2>3. CASE PrimaryPsync(r) /\ ~Busy
        BY <2>3 DEF PrimaryPsync, Busy, SlotTaken, TypeOK, PrimaryManager
    <2>4. CASE PrimaryPeerClosed(r)
        BY <2>4, SlotDropReplica DEF PrimaryPeerClosed
    <2> QED
        BY <1>2, <2>1, <2>2, <2>3, <2>4 DEF PrimaryConnStep
<1>3. CASE Failure
    <2>1. ASSUME NEW r \in Replica, PrimaryFailure(r)
          PROVE  SlotKept \/ SlotFreed
        BY <2>1, SlotDropReplica DEF PrimaryFailure
    <2>2. ASSUME NEW r \in Replica,
                 ReplicaFailure(r) \/ ReplicaInstallFailure(r) \/ RdmaBreak(r)
          PROVE  SlotKept
        BY <2>2 DEF ReplicaFailure, ReplicaInstallFailure, RdmaBreak, SlotKept
    <2>3. CASE PrimaryRestart
        BY <2>3 DEF PrimaryRestart, PrimaryStarted, SlotFreed
    <2> QED
        BY <1>3, <2>1, <2>2, <2>3 DEF Failure
<1>4. CASE UNCHANGED vars
    BY <1>4 DEF vars, SlotKept
<1> QED
    BY <1>1, <1>2, <1>3, <1>4, SlotPrimary, SlotReplica DEF Next

\* RoundUndisturbed: no step takes the slot from its owner, replaces the
\* snapshot file of the round or renews its id (SnapshotFrozen), however many
\* Replicas ask for a synchronisation and whatever fails.
THEOREM RoundUndisturbed == Spec => SnapshotFrozen
<1>1. ASSUME TypeOK, [Next]_vars
      PROVE  [pm.conn # NoConn /\ pm'.conn # NoConn =>
                /\ pm'.conn = pm.conn
                /\ pm'.syncId = pm.syncId
                /\ snapFile' = snapFile]_vars
    BY <1>1, SlotStep DEF SlotKept, SlotFreed, SlotTaken
<1> QED
    BY <1>1, TypeCorrect, PTL DEF Spec, SnapshotFrozen

-----------------------------------------------------------------------------
(* full_sync_id values and their owners.                                    *)

\* The id is not from the future, and if it names the round that holds the
\* slot then r is the Replica of that round.
Owned(id, r) ==
    /\ id <= syncCount
    /\ id # 0 /\ id = pm.syncId => r = pm.conn

\* What may be on its way to Replica r, and from it.
OwnLine(r)  == {t \in Token : t \in FullResync => Owned(t.id, r)}
OwnReady(r) == {m \in RdmaMessage : m.kind = "READY" => Owned(m.n, r)}

ReplicaIds == \A r \in Replica : Owned(rm[r].syncId, r)
LineIds    == \A r \in Replica : tcp[r].p2r \in Seq(OwnLine(r))
ReadyIds   == \A r \in Replica : wire[r].rp \in Seq(OwnReady(r))
SlotId     == /\ pm.syncId <= syncCount
              /\ pm.state = "FULL_SYNC" => pm.syncId # 0

SlotInv == ReplicaIds /\ LineIds /\ ReadyIds /\ SlotId /\ SnapshotToSlotOwner

\* Ownership outlives every step, because ids are only counted up.
LEMMA OwnedKept ==
    ASSUME TypeOK, SlotKept \/ SlotFreed \/ SlotTaken,
           NEW r, NEW id \in Nat, Owned(id, r)
    PROVE  Owned(id, r)'
<1>1. syncCount \in Nat
    BY DEF TypeOK
<1>2. CASE SlotKept
    BY <1>2 DEF SlotKept, Owned
<1>3. CASE SlotFreed
    BY <1>3 DEF SlotFreed, Owned
<1>4. CASE SlotTaken
    BY <1>1, <1>4 DEF SlotTaken, Owned
<1> QED
    BY <1>2, <1>3, <1>4

\* A sequence over a set is one over every larger set.
LEMMA SeqMono ==
    ASSUME NEW S, NEW T, S \subseteq T, NEW s \in Seq(S)
    PROVE  s \in Seq(T)
    OBVIOUS

\* Once the id of an earlier round, always: ids are never drawn twice.
LEMMA OwnKept ==
    ASSUME TypeOK, SlotKept \/ SlotFreed \/ SlotTaken, NEW r
    PROVE  /\ OwnLine(r) \subseteq OwnLine(r)'
           /\ OwnReady(r) \subseteq OwnReady(r)'
<1>1. ASSUME NEW t \in OwnLine(r) PROVE t \in OwnLine(r)'
    <2>1. CASE t \in FullResync
        <3>1. t.id \in Nat
            BY <2>1 DEF FullResync
        <3>2. Owned(t.id, r)
            BY <1>1, <2>1 DEF OwnLine
        <3>3. Owned(t.id, r)'
            BY <3>1, <3>2, OwnedKept
        <3> QED
            BY <1>1, <3>3 DEF OwnLine
    <2>2. CASE t \notin FullResync
        BY <1>1, <2>2 DEF OwnLine
    <2> QED
        BY <2>1, <2>2
<1>2. ASSUME NEW m \in OwnReady(r) PROVE m \in OwnReady(r)'
    <2>1. m \in RdmaMessage /\ m.n \in Nat
        BY <1>2 DEF OwnReady, RdmaMessage
    <2>2. m.kind = "READY" => Owned(m.n, r)'
        BY <1>2, <2>1, OwnedKept DEF OwnReady
    <2> QED
        BY <2>1, <2>2 DEF OwnReady
<1> QED
    BY <1>1, <1>2

\* Everything but an announcement belongs to any Replica.
LEMMA PlainLines ==
    ASSUME NEW r
    PROVE  /\ Cell \subseteq OwnLine(r)
           /\ Pong \in OwnLine(r)
           /\ OnlineLine \subseteq OwnLine(r)
<1>1. ASSUME NEW c \in Cell PROVE c \notin FullResync
    <2>1. ASSUME NEW d \in [cmd : Command, part : 1 .. CmdLen]
          PROVE  d \notin FullResync
        BY DEF FullResync
    <2>2. Hole \notin FullResync
        BY DEF FullResync, Hole
    <2> QED
        BY <2>1, <2>2 DEF Cell
<1>2. ASSUME NEW l \in OnlineLine PROVE l \notin FullResync
    BY DEF FullResync, OnlineLine
<1>3. Pong \notin FullResync
    BY DEF FullResync, Pong
<1> QED
    BY <1>1, <1>2, <1>3 DEF OwnLine, Token

-----------------------------------------------------------------------------
(* The control lines (LineIds).                                             *)

\* What a step does to the input of Replica q, PSYNC aside: nothing, consume a
\* token, discard everything, or append tokens that are no announcement.
LineMove(q) ==
    \/ tcp'[q].p2r = tcp[q].p2r
    \/ tcp[q].p2r # <<>> /\ tcp'[q].p2r = Tail(tcp[q].p2r)
    \/ tcp'[q].p2r = <<>>
    \/ \E t \in Seq(OwnLine(q)) : tcp'[q].p2r = tcp[q].p2r \o t

\* Consuming or discarding lines keeps what the queue may hold.
LEMMA LineMoveKeeps ==
    ASSUME NEW q \in Replica, tcp[q].p2r \in Seq(OwnLine(q)), LineMove(q)
    PROVE  tcp'[q].p2r \in Seq(OwnLine(q))
<1>1. ASSUME NEW S, NEW s \in Seq(S)
      PROVE  /\ s # <<>> => Tail(s) \in Seq(S)
             /\ <<>> \in Seq(S)
             /\ \A t \in Seq(S) : s \o t \in Seq(S)
    OBVIOUS
<1> QED
    BY <1>1, Zenon DEF LineMove

\* Closing the Primary's end adds no line.
LEMMA LineDropReplica ==
    ASSUME TypeOK, NEW r, DropReplica(r), NEW q \in Replica
    PROVE  LineMove(q)
<1>1. /\ tcp \in [Replica -> TcpConn]
      /\ tcp' = [tcp EXCEPT ![r].primary = "closed", ![r].r2p = <<>>]
    BY DEF DropReplica, TypeOK
<1>2. tcp'[q].p2r = tcp[q].p2r
    BY <1>1 DEF TcpConn
<1> QED
    BY <1>2 DEF LineMove

\* Consuming one token of a connection only shortens its queue.
LEMMA LineTail ==
    ASSUME TypeOK, NEW r \in Replica, tcp[r].p2r # <<>>,
           NEW x, tcp' = [tcp EXCEPT ![r].p2r = Tail(@), ![r].r2p = x],
           NEW q \in Replica
    PROVE  LineMove(q)
<1>1. tcp \in [Replica -> TcpConn]
    BY DEF TypeOK
<1>2. CASE q = r
    <2>1. tcp'[q].p2r = Tail(tcp[q].p2r)
        BY <1>1, <1>2 DEF TcpConn
    <2> QED
        BY <1>2, <2>1 DEF LineMove
<1>3. CASE q # r
    <2>1. tcp'[q].p2r = tcp[q].p2r
        BY <1>1, <1>3
    <2> QED
        BY <2>1 DEF LineMove
<1> QED
    BY <1>2, <1>3

\* Consuming one token changes no other connection.
LEMMA LineConsume ==
    ASSUME TypeOK, NEW r \in Replica, tcp[r].p2r # <<>>,
           tcp' = [tcp EXCEPT ![r].p2r = Tail(@)], NEW q \in Replica
    PROVE  LineMove(q)
<1>1. tcp \in [Replica -> TcpConn]
    BY DEF TypeOK
<1>2. CASE q = r
    <2>1. tcp'[q].p2r = Tail(tcp[q].p2r)
        BY <1>1, <1>2 DEF TcpConn
    <2> QED
        BY <1>2, <2>1 DEF LineMove
<1>3. CASE q # r
    <2>1. tcp'[q].p2r = tcp[q].p2r
        BY <1>1, <1>3
    <2> QED
        BY <2>1 DEF LineMove
<1> QED
    BY <1>2, <1>3

\* Closing the Replica's end empties its queue only.
LEMMA LineDropPrimary ==
    ASSUME TypeOK, NEW r \in Replica, NEW store, DropPrimary(r, store),
           NEW q \in Replica
    PROVE  LineMove(q)
<1>1. tcp \in [Replica -> TcpConn] /\ tcp' = [tcp EXCEPT ![r].p2r = <<>>]
    BY DEF TypeOK, DropPrimary
<1>2. tcp'[q].p2r = tcp[q].p2r \/ tcp'[q].p2r = <<>>
    BY <1>1 DEF TcpConn
<1> QED
    BY <1>2 DEF LineMove

\* Sending admissible tokens keeps what the queue may hold.
LEMMA LineSend ==
    ASSUME TypeOK, NEW r, NEW q \in Replica, NEW t \in Seq(OwnLine(q)),
           tcp' = Send(r, t)
    PROVE  LineMove(q)
<1>1. tcp \in [Replica -> TcpConn]
    BY DEF TypeOK
<1>2. tcp'[q].p2r = tcp[q].p2r \/ tcp'[q].p2r = tcp[q].p2r \o t
    BY <1>1 DEF Send, TcpConn
<1> QED
    BY <1>2 DEF LineMove

\* A block of the AOF holds no announcement.
LEMMA LineSendAof ==
    ASSUME TypeOK, NEW state, NEW pos \in Nat, NEW end \in Nat,
           pos <= end, end <= Len(aof), SendAof(state, pos, end),
           NEW q \in Replica
    PROVE  LineMove(q)
<1> DEFINE n == Min2(ReadCap, end - pos)
<1>1. end - pos \in Nat /\ ReadCap \in Nat
    BY ReplicationAssumption
<1>2. n \in Nat /\ n <= end - pos
    BY <1>1, Min2Nat
<1>3. tcp' = Send(pm.conn, SubSeq(aof, pos + 1, pos + n))
    BY DEF SendAof
<1> HIDE DEF n
<1>4. aof \in Seq(Cell) /\ pos + n <= Len(aof)
    BY <1>2 DEF TypeOK
<1>5. SubSeq(aof, pos + 1, pos + n) \in Seq(Cell)
    BY <1>2, <1>4, SubSeqType
<1>6. SubSeq(aof, pos + 1, pos + n) \in Seq(OwnLine(q))
    BY <1>5, PlainLines, SeqMono
<1> QED
    BY <1>3, <1>6, LineSend

\* ONLINE carries no id.
LEMMA LineSendOnline ==
    ASSUME TypeOK, NEW pos \in Nat, SendOnline(pos), NEW q \in Replica
    PROVE  LineMove(q)
<1> DEFINE l == [line |-> "ONLINE", off |-> pos]
<1>1. l \in OwnLine(q)
    <2>1. l \in OnlineLine
        BY DEF OnlineLine
    <2> QED
        BY <2>1, PlainLines
<1>2. tcp' = Send(pm.conn, <<l>>)
    BY DEF SendOnline
<1> HIDE DEF l
<1>3. <<l>> \in Seq(OwnLine(q))
    BY <1>1
<1> QED
    BY <1>2, <1>3, LineSend

\* Stream calls of the Primary announce no foreign id.
LEMMA LinePrimary ==
    ASSUME TypeInv, PrimaryStep, NEW q \in Replica
    PROVE  LineMove(q)
<1>0. /\ TypeOK /\ pm \in PrimaryManager /\ Len(aof) \in Nat
      /\ pm.offset \in Nat /\ pm.offset <= Len(aof) /\ pm.aofPos \in Nat
      /\ pm.aofLeft \in Nat \cup {-1}
      /\ pm.aofLeft # -1 => pm.aofPos + pm.aofLeft <= Len(aof)
    BY DEF TypeInv, TypeOK, ReadersInBounds, PrimaryManager, Closed
<1>1. CASE \/ PrimaryAccept \/ PrimaryReject \/ PrimaryEstablished
           \/ PrimarySendNext \/ PrimaryDisconnect \/ PrimarySendDone
    BY <1>1 DEF PrimaryAccept, PrimaryReject, PrimaryEstablished,
                PrimarySendNext, PrimaryDisconnect, PrimarySendDone, LineMove
<1>2. CASE PrimaryDisconnected
    <2>1. \/ DropReplica(pm.conn)
          \/ Len(aof) > pm.offset /\ SendAof("CATCH_UP", pm.offset, Len(aof))
          \/ SendOnline(pm.offset)
        BY <1>2 DEF PrimaryDisconnected
    <2> QED
        BY <1>0, <2>1, LineDropReplica, LineSendAof, LineSendOnline
<1>3. CASE PrimaryCmError
    BY <1>0, <1>3, LineDropReplica DEF PrimaryCmError
<1>4. CASE PrimaryRecv
    <2>1. DropReplica(pm.conn) \/ tcp' = tcp
        BY <1>4 DEF PrimaryRecv
    <2> QED
        BY <1>0, <2>1, LineDropReplica DEF LineMove
<1>5. CASE PrimarySendAof
    <2>1. /\ SendAof(pm.state, pm.aofPos, pm.aofPos + pm.aofLeft)
          /\ pm.aofLeft > 0
        BY <1>5 DEF PrimarySendAof
    <2>2. /\ pm.aofPos + pm.aofLeft \in Nat
          /\ pm.aofPos <= pm.aofPos + pm.aofLeft
          /\ pm.aofPos + pm.aofLeft <= Len(aof)
        BY <1>0, <2>1
    <2> QED
        BY <1>0, <2>1, <2>2, LineSendAof
<1>6. CASE PrimaryNextRound
    <2>1. SendAof(pm.state, pm.aofPos, Len(aof)) /\ pm.aofPos <= Len(aof)
        BY <1>0, <1>6 DEF PrimaryNextRound
    <2> QED
        BY <1>0, <2>1, LineSendAof
<1>7. CASE PrimaryCaughtUp
    <2>1. tcp' = tcp \/ SendOnline(pm.aofPos)
        BY <1>7 DEF PrimaryCaughtUp
    <2> QED
        BY <1>0, <2>1, LineSendOnline DEF LineMove
<1>8. CASE PrimaryResume
    BY <1>0, <1>8, LineSendAof DEF PrimaryResume
<1> QED
    BY <1>1, <1>2, <1>3, <1>4, <1>5, <1>6, <1>7, <1>8 DEF PrimaryStep

\* Steps of a Replica announce no id.
LEMMA LineReplica ==
    ASSUME TypeOK, NEW r \in Replica, ReplicaConnect(r) \/ ReplicaStep(r),
           NEW q \in Replica
    PROVE  LineMove(q)
<1>0. tcp \in [Replica -> TcpConn]
    BY DEF TypeOK
<1>1. CASE ReplicaConnect(r)
    <2>1. tcp'[q].p2r = tcp[q].p2r
        <3>1. tcp' = [tcp EXCEPT ![r].primary = "open", ![r].r2p = <<"PING">>]
            BY <1>1 DEF ReplicaConnect
        <3> QED
            BY <1>0, <3>1 DEF TcpConn
    <2> QED
        BY <2>1 DEF LineMove
<1>2. CASE ReplicaHandshake(r)
    <2>1. tcp[r].p2r # <<>>
        BY <1>2 DEF ReplicaHandshake, ReplicaReads
    <2>2. \/ tcp' = [tcp EXCEPT ![r].p2r = Tail(@),
                                ![r].r2p = Append(tcp[r].r2p, "PSYNC")]
          \/ tcp' = [tcp EXCEPT ![r].p2r = Tail(@)]
          \/ DropPrimary(r, rs[r])
        BY <1>2 DEF ReplicaHandshake
    <2> QED
        BY <2>1, <2>2, LineTail, LineConsume, LineDropPrimary
<1>3. CASE ReplicaCatchUp(r) \/ ReplicaControlLine(r)
    <2>1. tcp[r].p2r # <<>>
        BY <1>3 DEF ReplicaCatchUp, ReplicaControlLine, ReplicaReads
    <2>2. \/ tcp' = [tcp EXCEPT ![r].p2r = Tail(@)]
          \/ DropPrimary(r, rs[r])
        BY <1>3 DEF ReplicaCatchUp, ReplicaControlLine
    <2> QED
        BY <2>1, <2>2, LineConsume, LineDropPrimary
<1>4. CASE \/ ReplicaPeerClosed(r) \/ ReplicaDisconnected(r)
           \/ ReplicaCmError(r) \/ ReplicaTimeout(r) \/ ReplicaRecvChunk(r)
    <2>1. tcp' = tcp \/ \E store : DropPrimary(r, store)
        BY <1>4 DEF ReplicaPeerClosed, ReplicaDisconnected, ReplicaCmError,
                    ReplicaTimeout, ReplicaRecvChunk
    <2> QED
        BY <2>1, LineDropPrimary DEF LineMove
<1>5. CASE \/ ReplicaResolveRoute(r) \/ ReplicaRdmaConnect(r)
           \/ ReplicaEstablished(r) \/ ReplicaSendAck(r) \/ ReplicaSendDone(r)
    BY <1>5 DEF ReplicaResolveRoute, ReplicaRdmaConnect, ReplicaEstablished,
                ReplicaSendAck, ReplicaSendDone, LineMove
<1> QED
    BY <1>1, <1>2, <1>3, <1>4, <1>5 DEF ReplicaStep

\* Failures announce no id.
LEMMA LineFailure ==
    ASSUME TypeOK, Failure, NEW q \in Replica
    PROVE  LineMove(q)
<1>1. ASSUME NEW r \in Replica, PrimaryFailure(r) PROVE LineMove(q)
    BY <1>1, LineDropReplica DEF PrimaryFailure
<1>2. ASSUME NEW r \in Replica, ReplicaFailure(r) \/ ReplicaInstallFailure(r)
      PROVE  LineMove(q)
    BY <1>2, LineDropPrimary DEF ReplicaFailure, ReplicaInstallFailure
<1>3. ASSUME NEW r \in Replica, RdmaBreak(r) PROVE LineMove(q)
    BY <1>3 DEF RdmaBreak, LineMove
<1>4. CASE PrimaryRestart
    <2>1. tcp'[q] = IF tcp[q].primary = "open"
                    THEN [tcp[q] EXCEPT !.primary = "closed", !.r2p = <<>>]
                    ELSE tcp[q]
        BY <1>4 DEF PrimaryRestart
    <2>2. tcp[q] \in TcpConn
        BY DEF TypeOK
    <2>3. tcp'[q].p2r = tcp[q].p2r
        BY <2>1, <2>2 DEF TcpConn
    <2> QED
        BY <2>3 DEF LineMove
<1> QED
    BY <1>1, <1>2, <1>3, <1>4 DEF Failure

\* Every step keeps LineIds: a queued FULLRESYNC_RDMA names a round of its own connection.
LEMMA LineStep ==
    ASSUME TypeInv, LineIds, [Next]_vars
    PROVE  LineIds'
<1>0. TypeOK /\ (SlotKept \/ SlotFreed \/ SlotTaken)
    BY SlotStep DEF TypeInv
<1> SUFFICES ASSUME NEW q \in Replica
             PROVE  tcp'[q].p2r \in Seq(OwnLine(q)')
    BY DEF LineIds
<1>1. tcp[q].p2r \in Seq(OwnLine(q))
    BY DEF LineIds
<1>2. ASSUME LineMove(q)
      PROVE  tcp'[q].p2r \in Seq(OwnLine(q)')
    BY <1>0, <1>1, <1>2, LineMoveKeeps, OwnKept, SeqMono
<1>3. ASSUME NEW c \in Command, ClientWrite(c) PROVE LineMove(q)
    BY <1>3 DEF ClientWrite, LineMove
<1>4. CASE UNCHANGED vars
    BY <1>2, <1>4 DEF vars, LineMove
<1>5. ASSUME NEW r \in Replica, PrimaryPing(r) PROVE LineMove(q)
    <2>1. /\ tcp \in [Replica -> TcpConn]
          /\ tcp' = [tcp EXCEPT ![r].r2p = Tail(@),
                                ![r].p2r = IF ReplicaClosed(r) THEN @
                                           ELSE Append(@, Pong)]
        BY <1>0, <1>5 DEF TypeOK, PrimaryPing
    <2>2. \/ tcp'[q].p2r = tcp[q].p2r
          \/ tcp'[q].p2r = Append(tcp[q].p2r, Pong)
        BY <2>1 DEF TcpConn
    <2>3. /\ Append(tcp[q].p2r, Pong) = tcp[q].p2r \o <<Pong>>
          /\ <<Pong>> \in Seq(OwnLine(q))
        BY <1>1, PlainLines
    <2> QED
        BY <2>2, <2>3 DEF LineMove
<1>6. ASSUME NEW r \in Replica, PrimaryPsync(r), Busy PROVE LineMove(q)
    BY <1>0, <1>6, LineDropReplica DEF PrimaryPsync
<1>7. ASSUME NEW r \in Replica, PrimaryPsync(r), ~Busy
      PROVE  tcp'[q].p2r \in Seq(OwnLine(q)')
    <2> DEFINE line == [line |-> "FULLRESYNC_RDMA", off |-> Len(aof),
                        size |-> SnapSize, id |-> syncCount + 1]
    <2>1. /\ tcp \in [Replica -> TcpConn]
          /\ tcp' = [tcp EXCEPT ![r].r2p = Tail(@),
                                ![r].p2r = IF ReplicaClosed(r) THEN @
                                           ELSE Append(@, line)]
          /\ syncCount' = syncCount + 1
          /\ pm'.conn = r
        BY <1>0, <1>7 DEF TypeOK, PrimaryPsync, PrimaryManager
    <2>2. line \in Token /\ line \in FullResync /\ line.id = syncCount + 1
        BY <1>0, ReplicationAssumption DEF Token, FullResync, TypeOK
    <2>3. q = r => line \in OwnLine(q)'
        <3>1. ASSUME q = r, NEW id \in Nat, id = syncCount + 1
              PROVE  Owned(id, q)'
            BY <1>0, <2>1, <3>1 DEF Owned, TypeOK
        <3>2. syncCount + 1 \in Nat
            BY <1>0 DEF TypeOK
        <3> HIDE DEF line
        <3> QED
            BY <2>2, <3>1, <3>2 DEF OwnLine
    <2> HIDE DEF line
    <2>4. \/ tcp'[q].p2r = tcp[q].p2r
          \/ q = r /\ tcp'[q].p2r = Append(tcp[q].p2r, line)
        BY <2>1 DEF TcpConn
    <2>5. tcp[q].p2r \in Seq(OwnLine(q)')
        BY <1>0, <1>1, OwnKept, SeqMono
    <2>6. ASSUME NEW S, NEW s \in Seq(S), NEW e \in S
          PROVE  Append(s, e) \in Seq(S)
        OBVIOUS
    <2> QED
        BY <2>3, <2>4, <2>5, <2>6, Zenon
<1>8. ASSUME NEW r \in Replica, PrimaryPeerClosed(r) PROVE LineMove(q)
    BY <1>0, <1>8, LineDropReplica DEF PrimaryPeerClosed
<1>9. ASSUME NEW r \in Replica, PrimaryConnStep(r)
      PROVE  tcp'[q].p2r \in Seq(OwnLine(q)')
    BY <1>2, <1>5, <1>6, <1>7, <1>8, <1>9 DEF PrimaryConnStep
<1> QED
    BY <1>0, <1>2, <1>3, <1>4, <1>9, LinePrimary, LineReplica, LineFailure
    DEF Next

-----------------------------------------------------------------------------
(* The ids the Replicas hold (ReplicaIds).                                  *)

\* Every step keeps ReplicaIds: a Replica only knows ids of its own rounds.
LEMMA ReplicaIdStep ==
    ASSUME TypeInv, ReplicaIds, LineIds, [Next]_vars
    PROVE  ReplicaIds'
<1>0. /\ TypeOK /\ (SlotKept \/ SlotFreed \/ SlotTaken)
      /\ rm \in [Replica -> ReplicaManager]
    BY SlotStep DEF TypeInv, TypeOK
<1> SUFFICES ASSUME NEW q \in Replica
             PROVE  Owned(rm[q].syncId, q)'
    BY DEF ReplicaIds
<1>1. Owned(rm[q].syncId, q) /\ rm[q].syncId \in Nat
    BY <1>0 DEF ReplicaIds, ReplicaManager
<1>2. ASSUME rm'[q].syncId = rm[q].syncId
      PROVE  Owned(rm[q].syncId, q)'
    <2>1. ASSUME NEW id \in Nat, Owned(id, q) PROVE Owned(id, q)'
        BY <1>0, <2>1, OwnedKept
    <2>2. PICK id \in Nat : id = rm[q].syncId
        BY <1>1
    <2>3. Owned(id, q)'
        BY <1>1, <2>1, <2>2
    <2> QED
        BY <1>2, <2>2, <2>3 DEF Owned
<1>3. ASSUME rm'[q].syncId = 0
      PROVE  Owned(rm[q].syncId, q)'
    <2>1. syncCount' \in Nat
        BY <1>0 DEF TypeOK, SlotKept, SlotFreed, SlotTaken
    <2> QED
        BY <1>3, <2>1 DEF Owned
<1>4. ASSUME rm' = rm
      PROVE  Owned(rm[q].syncId, q)'
    BY <1>2, <1>4
<1>5. ASSUME NEW r \in Replica, NEW store, DropPrimary(r, store)
      PROVE  Owned(rm[q].syncId, q)'
    <2>1. rm' = [rm EXCEPT ![r].state = "DISCONNECTED", ![r].syncId = 0,
                           ![r].writer = Closed]
        BY <1>5 DEF DropPrimary
    <2>2. rm'[q].syncId = rm[q].syncId \/ rm'[q].syncId = 0
        BY <1>0, <2>1 DEF ReplicaManager
    <2> QED
        BY <1>2, <1>3, <2>2
<1>6. ASSUME NEW r \in Replica, ReplicaConnect(r)
      PROVE  Owned(rm[q].syncId, q)'
    <2>1. rm'[q].syncId = rm[q].syncId
        BY <1>0, <1>6 DEF ReplicaConnect, ReplicaManager
    <2> QED
        BY <1>2, <2>1
<1>7. ASSUME NEW r \in Replica, ReplicaHandshake(r)
      PROVE  Owned(rm[q].syncId, q)'
    <2> DEFINE line == Head(tcp[r].p2r)
    <2>1. CASE rm' = rm
        BY <1>4, <2>1
    <2>2. CASE DropPrimary(r, rs[r])
        BY <1>5, <2>2
    <2>3. CASE /\ line \in FullResync
               /\ rm' = [rm EXCEPT ![r].state = "FULL_SYNC",
                                   ![r].syncId = line.id, ![r].offset = line.off,
                                   ![r].fileSize = line.size,
                                   ![r].writer = line.size]
        <3>1. CASE q # r
            <4>1. rm'[q].syncId = rm[q].syncId
                BY <1>0, <2>3, <3>1
            <4> QED
                BY <1>2, <4>1
        <3>2. CASE q = r
            <4>1. tcp[r].p2r # <<>> /\ tcp[r].p2r \in Seq(OwnLine(r))
                BY <1>7 DEF ReplicaHandshake, ReplicaReads, LineIds
            <4>2. line \in OwnLine(r)
                BY <4>1
            <4>3. line.id \in Nat /\ Owned(line.id, r)
                BY <2>3, <4>2 DEF OwnLine, FullResync
            <4>4. PICK id \in Nat : id = line.id
                BY <4>3
            <4>5. Owned(id, r)'
                BY <1>0, <4>3, <4>4, OwnedKept
            <4>6. rm'[r].syncId = line.id
                <5> HIDE DEF line
                <5> QED
                    BY <1>0, <2>3 DEF ReplicaManager
            <4> QED
                BY <3>2, <4>4, <4>5, <4>6 DEF Owned
        <3> QED
            BY <3>1, <3>2
    <2> QED
        BY <1>7, <2>1, <2>2, <2>3 DEF ReplicaHandshake
<1>8. ASSUME NEW r \in Replica,
             ReplicaCatchUp(r) \/ ReplicaControlLine(r) \/ ReplicaRecvChunk(r)
      PROVE  Owned(rm[q].syncId, q)'
    <2>1. CASE ReplicaCatchUp(r)
        <3>1. \/ DropPrimary(r, rs[r])
              \/ rm' = rm
              \/ \E o : rm' = [rm EXCEPT ![r].offset = o]
            BY <2>1, Zenon DEF ReplicaCatchUp
        <3>2. ASSUME NEW o, rm' = [rm EXCEPT ![r].offset = o]
              PROVE  rm'[q].syncId = rm[q].syncId
            BY <1>0, <3>2 DEF ReplicaManager
        <3> QED
            BY <1>2, <1>4, <1>5, <3>1, <3>2
    <2>2. CASE ReplicaControlLine(r)
        <3>1. \/ DropPrimary(r, rs[r])
              \/ \E o : rm' = [rm EXCEPT ![r].state = "ONLINE", ![r].offset = o]
            BY <2>2, Zenon DEF ReplicaControlLine
        <3>2. ASSUME NEW o,
                     rm' = [rm EXCEPT ![r].state = "ONLINE", ![r].offset = o]
              PROVE  rm'[q].syncId = rm[q].syncId
            BY <1>0, <3>2 DEF ReplicaManager
        <3> QED
            BY <1>2, <1>5, <3>1, <3>2
    <2>3. CASE ReplicaRecvChunk(r)
        <3> DEFINE n    == Len(Head(wire[r].pr))
                   last == n = rm[r].writer
                   w    == IF last THEN Closed ELSE rm[r].writer - n
                   st   == IF last THEN "CATCH_UP" ELSE "FULL_SYNC"
        <3>1. \/ DropPrimary(r, rs[r])
              \/ DropPrimary(r, InstallRefused(Written(r, Head(wire[r].pr))))
              \/ rm' = [rm EXCEPT ![r].writer = w, ![r].state = st]
            BY <2>3 DEF ReplicaRecvChunk
        <3> HIDE DEF w, st
        <3>2. ASSUME rm' = [rm EXCEPT ![r].writer = w, ![r].state = st]
              PROVE  rm'[q].syncId = rm[q].syncId
            BY <1>0, <3>2 DEF ReplicaManager
        <3> QED
            BY <1>2, <1>5, <3>1, <3>2
    <2> QED
        BY <1>8, <2>1, <2>2, <2>3
<1>9. ASSUME NEW r \in Replica, ReplicaStep(r)
      PROVE  Owned(rm[q].syncId, q)'
    <2>1. \/ ReplicaHandshake(r) \/ ReplicaCatchUp(r) \/ ReplicaControlLine(r)
          \/ ReplicaRecvChunk(r)
          \/ rm' = rm
          \/ \E store : DropPrimary(r, store)
        BY <1>9
        DEF ReplicaStep, ReplicaPeerClosed, ReplicaResolveRoute,
            ReplicaRdmaConnect, ReplicaEstablished, ReplicaDisconnected,
            ReplicaCmError, ReplicaTimeout, ReplicaSendAck, ReplicaSendDone
    <2> QED
        BY <1>4, <1>5, <1>7, <1>8, <2>1
<1>10. CASE Failure
    <2>1. rm' = rm \/ \E r \in Replica : \E store : DropPrimary(r, store)
        BY <1>10 DEF Failure, PrimaryFailure, ReplicaFailure,
                     ReplicaInstallFailure, RdmaBreak, PrimaryRestart
    <2> QED
        BY <1>4, <1>5, <2>1
<1>11. CASE PrimaryStep \/ UNCHANGED vars
    <2>1. rm' = rm
        BY <1>11 DEF vars, PrimaryStep, PrimaryAccept, PrimaryReject,
            PrimaryEstablished, PrimaryDisconnected, PrimaryCmError,
            PrimarySendNext, PrimaryDisconnect, PrimarySendDone, PrimaryRecv,
            PrimarySendAof, PrimaryNextRound, PrimaryCaughtUp, PrimaryResume,
            PrimaryStreams, replicaVars
    <2> QED
        BY <1>4, <2>1
<1>12. ASSUME NEW r \in Replica, PrimaryConnStep(r)
       PROVE  Owned(rm[q].syncId, q)'
    <2>1. rm' = rm
        BY <1>12 DEF PrimaryConnStep, PrimaryPing, PrimaryPsync,
                     PrimaryPeerClosed, replicaVars
    <2> QED
        BY <1>4, <2>1
<1>13. ASSUME NEW c \in Command, ClientWrite(c)
       PROVE  Owned(rm[q].syncId, q)'
    BY <1>4, <1>13 DEF ClientWrite
<1> QED
    BY <1>6, <1>9, <1>10, <1>11, <1>12, <1>13 DEF Next

-----------------------------------------------------------------------------
(* The READY messages (ReadyIds).                                           *)

\* What a step does to the messages from Replica q: nothing, consume one,
\* discard them, or add one of q's own.
ReadyMove(q) ==
    \/ wire'[q].rp = wire[q].rp
    \/ wire[q].rp # <<>> /\ wire'[q].rp = Tail(wire[q].rp)
    \/ wire'[q].rp = <<>>
    \/ \E m \in OwnReady(q) : wire'[q].rp = Append(wire[q].rp, m)

\* Cutting a connection keeps ReadyIds.
LEMMA ReadyCut ==
    ASSUME TypeOK, NEW r, wire' = [wire EXCEPT ![r] = EmptyWire],
           NEW q \in Replica
    PROVE  ReadyMove(q)
<1>1. wire'[q].rp = wire[q].rp \/ wire'[q].rp = <<>>
    BY DEF TypeOK, EmptyWire
<1> QED
    BY <1>1 DEF ReadyMove

\* Closing the Primary's end keeps ReadyIds.
LEMMA ReadyDropReplica ==
    ASSUME TypeOK, NEW r, DropReplica(r), NEW q \in Replica
    PROVE  ReadyMove(q)
<1>1. \/ wire' = wire
      \/ wire' = [wire EXCEPT ![pr.conn] = EmptyWire]
    BY DEF DropReplica, CutWire
<1> QED
    BY <1>1, ReadyCut DEF ReadyMove

\* Closing the Replica's end keeps ReadyIds.
LEMMA ReadyDropPrimary ==
    ASSUME TypeOK, NEW r \in Replica, NEW store, DropPrimary(r, store),
           NEW q \in Replica
    PROVE  ReadyMove(q)
    BY ReadyCut DEF DropPrimary

\* A chunk travels the other way and keeps ReadyIds.
LEMMA ReadySendChunk ==
    ASSUME TypeOK, NEW base, NEW net, SendChunk(base, net), NEW q \in Replica,
           net \in [Replica -> Wire]
    PROVE  wire'[q].rp = net[q].rp
<1>1. \/ wire' = net
      \/ wire' = [net EXCEPT ![pr.conn].pr = Append(@, NextChunk)]
    BY DEF SendChunk
<1> DEFINE x == Append(net[pr.conn].pr, NextChunk)
<1>2. wire' = net \/ wire' = [net EXCEPT ![pr.conn].pr = x]
    BY <1>1
<1> HIDE DEF x
<1> QED
    BY <1>2 DEF Wire

\* Stream calls of the Primary keep ReadyIds.
LEMMA ReadyPrimary ==
    ASSUME TypeOK, PrimaryStep, NEW q \in Replica
    PROVE  ReadyMove(q)
<1>0. wire \in [Replica -> Wire]
    BY DEF TypeOK
<1>1. CASE \/ PrimaryAccept \/ PrimaryReject \/ PrimaryEstablished
           \/ PrimaryDisconnect \/ PrimarySendDone \/ PrimarySendAof
           \/ PrimaryNextRound \/ PrimaryCaughtUp \/ PrimaryResume
    BY <1>1 DEF PrimaryAccept, PrimaryReject, PrimaryEstablished,
                PrimaryDisconnect, PrimarySendDone, PrimarySendAof,
                PrimaryNextRound, PrimaryCaughtUp, PrimaryResume,
                PrimaryStreams, ReadyMove
<1>2. CASE PrimaryDisconnected
    <2>1. \/ DropReplica(pm.conn)
          \/ wire' = CutWire(pr.conn)
        BY <1>2 DEF PrimaryDisconnected
    <2> QED
        BY <2>1, ReadyDropReplica, ReadyCut DEF CutWire, ReadyMove
<1>3. CASE PrimaryCmError
    BY <1>3, ReadyDropReplica DEF PrimaryCmError
<1>4. CASE PrimarySendNext
    <2>1. wire'[q].rp = wire[q].rp
        BY <1>0, <1>4, ReadySendChunk DEF PrimarySendNext
    <2> QED
        BY <2>1 DEF ReadyMove
<1>5. CASE PrimaryRecv
    <2> DEFINE net == [wire EXCEPT ![pr.conn].rp = Tail(@)]
    <2>1. wire[pr.conn].rp # <<>>
        BY <1>5 DEF PrimaryRecv
    <2>2. /\ net \in [Replica -> Wire]
          /\ \/ net[q].rp = wire[q].rp
             \/ q = pr.conn /\ net[q].rp = Tail(wire[q].rp)
        <3>1. CASE pr.conn \in Replica
            <4> DEFINE x == Tail(wire[pr.conn].rp)
            <4>1. x \in Seq(RdmaMessage)
                BY <1>0, <2>1, <3>1 DEF Wire
            <4>2. net = [wire EXCEPT ![pr.conn].rp = x]
                OBVIOUS
            <4> HIDE DEF x, net
            <4>3. net \in [Replica -> Wire]
                BY <1>0, <4>1, <4>2 DEF Wire
            <4>4. \/ net[q].rp = wire[q].rp
                  \/ q = pr.conn /\ net[q].rp = x
                BY <1>0, <4>2 DEF Wire
            <4> QED
                BY <4>3, <4>4 DEF x
        <3>2. CASE pr.conn \notin Replica
            BY <1>0, <3>2
        <3> QED
            BY <3>1, <3>2
    <2>3. DropReplica(pm.conn) \/ wire' = net \/ SendChunk(pr, net)
        BY <1>5 DEF PrimaryRecv
    <2> HIDE DEF net
    <2>4. DropReplica(pm.conn) \/ wire'[q].rp = net[q].rp
        BY <2>2, <2>3, ReadySendChunk
    <2> QED
        BY <2>1, <2>2, <2>4, ReadyDropReplica DEF ReadyMove
<1> QED
    BY <1>1, <1>2, <1>3, <1>4, <1>5 DEF PrimaryStep

\* A Replica sends READY only with an id of its own.
LEMMA ReadySend ==
    ASSUME TypeOK, NEW r \in Replica, NEW m, m \in OwnReady(r),
           wire' = SendToPrimary(r, m), NEW q \in Replica
    PROVE  ReadyMove(q)
<1> DEFINE x == Append(wire[r].rp, m)
<1>1. wire' = wire \/ wire' = [wire EXCEPT ![r].rp = x]
    BY DEF SendToPrimary
<1> HIDE DEF x
<1>2. \/ wire'[q].rp = wire[q].rp
      \/ q = r /\ wire'[q].rp = x
    BY <1>1 DEF TypeOK, Wire
<1> QED
    BY <1>2 DEF ReadyMove, x

\* Steps of a Replica keep ReadyIds.
LEMMA ReadyReplica ==
    ASSUME TypeOK, ReplicaIds, NEW r \in Replica,
           ReplicaConnect(r) \/ ReplicaStep(r), NEW q \in Replica
    PROVE  ReadyMove(q)
<1>1. CASE ReplicaEstablished(r)
    <2> DEFINE m == [kind |-> "READY", n |-> rm[r].syncId]
    <2>1. m \in OwnReady(r)
        <3>1. rm[r].syncId \in Nat /\ Owned(rm[r].syncId, r)
            BY DEF TypeOK, ReplicaManager, ReplicaIds
        <3> QED
            BY <3>1 DEF OwnReady, RdmaMessage
    <2>2. wire' = SendToPrimary(r, m)
        BY <1>1 DEF ReplicaEstablished
    <2> HIDE DEF m
    <2> QED
        BY <2>1, <2>2, ReadySend
<1>2. CASE ReplicaSendAck(r)
    <2> DEFINE m == [kind |-> "SNAPSHOT_ACK", n |-> rr[r].bytes]
    <2>1. m \in OwnReady(r)
        <3>1. rr[r].bytes \in Nat
            BY DEF TypeOK, ReplicaRdma
        <3> QED
            BY <3>1 DEF OwnReady, RdmaMessage
    <2>2. wire' = SendToPrimary(r, m)
        BY <1>2 DEF ReplicaSendAck
    <2> HIDE DEF m
    <2> QED
        BY <2>1, <2>2, ReadySend
<1>3. CASE \/ ReplicaConnect(r) \/ ReplicaResolveRoute(r)
           \/ ReplicaRdmaConnect(r) \/ ReplicaSendDone(r)
    BY <1>3 DEF ReplicaConnect, ReplicaResolveRoute, ReplicaRdmaConnect,
                ReplicaSendDone, ReadyMove
<1>4. CASE ReplicaRecvChunk(r)
    <2> DEFINE x == Tail(wire[r].pr)
    <2>1. \/ DropPrimary(r, rs[r])
          \/ DropPrimary(r, InstallRefused(Written(r, Head(wire[r].pr))))
          \/ wire' = [wire EXCEPT ![r].pr = x]
        BY <1>4 DEF ReplicaRecvChunk
    <2> HIDE DEF x
    <2>2. ASSUME wire' = [wire EXCEPT ![r].pr = x]
          PROVE  wire'[q].rp = wire[q].rp
        BY <2>2 DEF TypeOK, Wire
    <2> QED
        BY <2>1, <2>2, ReadyDropPrimary DEF ReadyMove
<1>5. CASE \/ ReplicaHandshake(r) \/ ReplicaCatchUp(r) \/ ReplicaControlLine(r)
           \/ ReplicaPeerClosed(r) \/ ReplicaDisconnected(r)
           \/ ReplicaCmError(r) \/ ReplicaTimeout(r)
    <2>1. \/ wire' = wire
          \/ wire' = [wire EXCEPT ![r] = EmptyWire]
          \/ DropPrimary(r, rs[r])
        BY <1>5 DEF ReplicaHandshake, ReplicaCatchUp, ReplicaControlLine,
                    ReplicaPeerClosed, ReplicaDisconnected, ReplicaCmError,
                    ReplicaTimeout
    <2> QED
        BY <2>1, ReadyCut, ReadyDropPrimary DEF ReadyMove
<1> QED
    BY <1>1, <1>2, <1>3, <1>4, <1>5 DEF ReplicaStep

\* Every step keeps ReadyIds.
LEMMA ReadyStep ==
    ASSUME TypeInv, ReplicaIds, ReadyIds, [Next]_vars
    PROVE  ReadyIds'
<1>0. TypeOK /\ (SlotKept \/ SlotFreed \/ SlotTaken)
    BY SlotStep DEF TypeInv
<1> SUFFICES ASSUME NEW q \in Replica
             PROVE  wire'[q].rp \in Seq(OwnReady(q)')
    BY DEF ReadyIds
<1>1. wire[q].rp \in Seq(OwnReady(q))
    BY DEF ReadyIds
<1>2. ASSUME ReadyMove(q)
      PROVE  wire'[q].rp \in Seq(OwnReady(q)')
    <2>1. ASSUME NEW S, NEW s \in Seq(S)
          PROVE  /\ s # <<>> => Tail(s) \in Seq(S)
                 /\ <<>> \in Seq(S)
                 /\ \A m \in S : Append(s, m) \in Seq(S)
        OBVIOUS
    <2>2. wire'[q].rp \in Seq(OwnReady(q))
        BY <1>1, <1>2, <2>1, Zenon DEF ReadyMove
    <2> QED
        BY <1>0, <2>2, OwnKept, SeqMono
<1>3. ASSUME NEW c \in Command, ClientWrite(c) PROVE ReadyMove(q)
    BY <1>3 DEF ClientWrite, ReadyMove
<1>4. CASE UNCHANGED vars
    BY <1>2, <1>4 DEF vars, ReadyMove
<1>5. ASSUME NEW r \in Replica, PrimaryConnStep(r) PROVE ReadyMove(q)
    <2>1. DropReplica(r) \/ wire' = wire
        BY <1>5 DEF PrimaryConnStep, PrimaryPing, PrimaryPsync,
                    PrimaryPeerClosed
    <2> QED
        BY <1>0, <2>1, ReadyDropReplica DEF ReadyMove
<1>6. CASE Failure
    <2>1. ASSUME NEW r \in Replica, PrimaryFailure(r) PROVE ReadyMove(q)
        BY <1>0, <2>1, ReadyDropReplica DEF PrimaryFailure
    <2>2. ASSUME NEW r \in Replica, ReplicaFailure(r) \/ ReplicaInstallFailure(r)
          PROVE  ReadyMove(q)
        BY <1>0, <2>2, ReadyDropPrimary DEF ReplicaFailure, ReplicaInstallFailure
    <2>3. ASSUME NEW r \in Replica, RdmaBreak(r) PROVE ReadyMove(q)
        BY <1>0, <2>3, ReadyCut DEF RdmaBreak
    <2>4. CASE PrimaryRestart
        <3>1. wire' = [r \in Replica |-> EmptyWire]
            BY <2>4, Zenon DEF PrimaryRestart
        <3>2. wire'[q].rp = <<>>
            BY <3>1 DEF EmptyWire
        <3> QED
            BY <3>2 DEF ReadyMove
    <2> QED
        BY <1>2, <1>6, <2>1, <2>2, <2>3, <2>4 DEF Failure
<1> QED
    BY <1>0, <1>2, <1>3, <1>4, <1>5, <1>6, ReadyPrimary, ReadyReplica DEF Next

-----------------------------------------------------------------------------
(* The snapshot goes to the owner of the slot.                              *)

\* Every step keeps SlotId: the current round has the newest id.
LEMMA SlotIdStep ==
    ASSUME TypeInv, SlotId, [Next]_vars
    PROVE  SlotId'
<1>1. syncCount \in Nat /\ (SlotKept \/ SlotFreed \/ SlotTaken)
    BY SlotStep DEF TypeInv, TypeOK
<1> QED
    BY <1>1 DEF SlotId, SlotKept, SlotFreed, SlotTaken

\* A chunk is sent only over the connection of the slot's owner: a later one
\* because an earlier one was, the first one because of its READY.
LEMMA OwnerPrimary ==
    ASSUME TypeInv, SlotInv, PrimaryStep
    PROVE  SnapshotToSlotOwner'
<1>0. /\ pr \in PrimaryRdma /\ pm \in PrimaryManager
      /\ ReaderOpen /\ SnapshotToSlotOwner
    BY DEF TypeInv, TypeOK, SlotInv
<1>1. ASSUME pr'.sent = pr.sent, pr'.conn = pr.conn, pm'.conn = pm.conn
      PROVE  SnapshotToSlotOwner'
    BY <1>0, <1>1 DEF SnapshotToSlotOwner
<1>2. ASSUME pr'.sent = 0
      PROVE  SnapshotToSlotOwner'
    BY <1>2 DEF SnapshotToSlotOwner
<1>3. ASSUME NEW r, DropReplica(r)
      PROVE  SnapshotToSlotOwner'
    <2>1. CASE pm.conn = r
        BY <1>2, <1>3, <2>1 DEF DropReplica, NoPrimaryRdma
    <2>2. CASE pm.conn # r
        BY <1>1, <1>3, <2>2 DEF DropReplica
    <2> QED
        BY <2>1, <2>2
<1>4. ASSUME NEW net, SendChunk(pr, net), pr.conn = pm.conn
      PROVE  SnapshotToSlotOwner'
    <2>1. pr'.conn = pr.conn /\ pm'.conn = pm.conn
        BY <1>0, <1>4 DEF SendChunk, PrimaryRdma, PrimaryManager
    <2> QED
        BY <1>4, <2>1 DEF SnapshotToSlotOwner
<1>5. CASE PrimaryAccept
    <2>1. pr'.sent = 0
        BY <1>5 DEF PrimaryAccept, NoPrimaryRdma
    <2> QED
        BY <1>2, <2>1
<1>6. CASE PrimaryReject
    BY <1>1, <1>6 DEF PrimaryReject
<1>7. CASE PrimaryEstablished \/ PrimarySendDone
    BY <1>0, <1>1, <1>7 DEF PrimaryEstablished, PrimarySendDone, PrimaryRdma
<1>8. CASE PrimaryDisconnected
    <2>1. DropReplica(pm.conn) \/ pr' = NoPrimaryRdma
        BY <1>8 DEF PrimaryDisconnected
    <2> QED
        BY <1>2, <1>3, <2>1 DEF NoPrimaryRdma
<1>9. CASE PrimaryCmError
    BY <1>3, <1>9 DEF PrimaryCmError
<1>10. CASE PrimarySendNext
    <2>1. pr.sent > 0 /\ SendChunk(pr, wire)
        BY <1>10 DEF PrimarySendNext, ChunkSettled
    <2> QED
        BY <1>0, <1>4, <2>1 DEF SnapshotToSlotOwner
<1>11. CASE PrimaryDisconnect
    <2>1. pr' = [pr EXCEPT !.discPending = TRUE,
                           !.cm = Append(@, "DISCONNECTED")]
          /\ pm' = [pm EXCEPT !.reader = Closed]
        BY <1>11 DEF PrimaryDisconnect
    <2>2. pr'.sent = pr.sent /\ pr'.conn = pr.conn /\ pm'.conn = pm.conn
        BY <1>0, <2>1 DEF PrimaryRdma, PrimaryManager
    <2> QED
        BY <1>1, <2>2
<1>12. CASE PrimaryRecv
    <2> DEFINE net == [wire EXCEPT ![pr.conn].rp = Tail(@)]
               msg == Head(wire[pr.conn].rp)
    <2>1. \/ DropReplica(pm.conn)
          \/ pr' = [pr EXCEPT !.acked = pr.sent] /\ pm' = pm
          \/ IsReady(msg) /\ SendChunk(pr, net)
        BY <1>12 DEF PrimaryRecv
    <2>2. CASE pr' = [pr EXCEPT !.acked = pr.sent] /\ pm' = pm
        BY <1>0, <1>1, <2>2 DEF PrimaryRdma
    <2>3. CASE IsReady(msg) /\ SendChunk(pr, net)
        <3>1. pr.conn \in Replica
            BY <1>0, <1>12 DEF PrimaryRecv, PrimaryData, ReaderOpen,
                               NoPrimaryRdma, PrimaryRdma
        <3>2. /\ wire[pr.conn].rp # <<>>
              /\ wire[pr.conn].rp \in Seq(OwnReady(pr.conn))
            BY <1>12, <3>1 DEF PrimaryRecv, SlotInv, ReadyIds
        <3>3. msg \in OwnReady(pr.conn)
            BY <3>2
        <3>4. msg.kind = "READY" /\ msg.n = pm.syncId
            BY <2>3 DEF IsReady
        <3>5. pm.syncId # 0
            BY <1>12 DEF PrimaryRecv, PrimaryData, SlotInv, SlotId
        <3> HIDE DEF msg, net
        <3>6. pr.conn = pm.conn
            BY <3>3, <3>4, <3>5 DEF OwnReady, Owned
        <3> QED
            BY <1>4, <2>3, <3>6
    <2> QED
        BY <1>3, <2>1, <2>2, <2>3
<1>13. CASE PrimarySendAof \/ PrimaryNextRound \/ PrimaryCaughtUp \/ PrimaryResume
    <2>1. pr' = pr
        BY <1>13 DEF PrimarySendAof, PrimaryNextRound, PrimaryCaughtUp,
                     PrimaryResume, PrimaryStreams
    <2>2. SlotKept \/ SlotFreed
        BY SlotPrimary DEF TypeInv
    <2> QED
        BY <1>1, <1>2, <2>1, <2>2 DEF SlotKept, SlotFreed, NoPrimaryRdma
<1> QED
    BY <1>5, <1>6, <1>7, <1>8, <1>9, <1>10, <1>11, <1>12, <1>13
    DEF PrimaryStep

\* Every step keeps SnapshotToSlotOwner: the first chunk follows a READY of this round.
LEMMA OwnerStep ==
    ASSUME TypeInv, SlotInv, [Next]_vars
    PROVE  SnapshotToSlotOwner'
<1>0. /\ pr \in PrimaryRdma /\ ReaderOpen /\ SnapshotToSlotOwner
      /\ SlotKept \/ SlotFreed \/ SlotTaken
    BY SlotStep DEF TypeInv, TypeOK, SlotInv
<1>1. CASE SlotFreed
    BY <1>1 DEF SlotFreed, NoPrimaryRdma, SnapshotToSlotOwner
<1>2. CASE SlotTaken
    BY <1>0, <1>2 DEF SlotTaken, ReaderOpen, NoPrimaryRdma, SnapshotToSlotOwner
<1>3. CASE SlotKept /\ PrimaryStep
    BY <1>3, OwnerPrimary
<1>4. ASSUME SlotKept, pr' = pr \/ \E r \in Replica : \E e : pr' = NotifyPrimary(r, e)
      PROVE  SnapshotToSlotOwner'
    <2>1. ASSUME NEW r \in Replica, NEW e, pr' = NotifyPrimary(r, e)
          PROVE  pr'.sent = pr.sent /\ pr'.conn = pr.conn
        <3> DEFINE x == Append(pr.cm, e)
        <3>1. pr' = pr \/ pr' = [pr EXCEPT !.cm = x]
            BY <2>1 DEF NotifyPrimary
        <3> HIDE DEF x
        <3> QED
            BY <1>0, <3>1 DEF PrimaryRdma
    <2>2. pr'.sent = pr.sent /\ pr'.conn = pr.conn
        BY <1>4, <2>1
    <2> QED
        BY <1>0, <1>4, <2>2 DEF SlotKept, SnapshotToSlotOwner
<1>5. CASE SlotKept /\ ~PrimaryStep
    <2>1. ASSUME NEW r \in Replica, DropReplica(r)
          PROVE  SnapshotToSlotOwner'
        <3>1. CASE pm.conn = r
            BY <2>1, <3>1 DEF DropReplica, NoPrimaryRdma, SnapshotToSlotOwner
        <3>2. CASE pm.conn # r
            BY <1>4, <1>5, <2>1, <3>2 DEF DropReplica
        <3> QED
            BY <3>1, <3>2
    <2>2. ASSUME NEW r \in Replica, NEW store, DropPrimary(r, store)
          PROVE  SnapshotToSlotOwner'
        BY <1>4, <1>5, <2>2 DEF DropPrimary
    <2>3. ASSUME NEW r \in Replica, PrimaryConnStep(r)
          PROVE  SnapshotToSlotOwner'
        <3>1. DropReplica(r) \/ pr' = pr
            BY <2>3 DEF PrimaryConnStep, PrimaryPing, PrimaryPsync,
                        PrimaryPeerClosed, primaryVars
        <3> QED
            BY <1>4, <1>5, <2>1, <3>1
    <2>4. ASSUME NEW r \in Replica, ReplicaConnect(r) \/ ReplicaStep(r)
          PROVE  SnapshotToSlotOwner'
        <3>1. ASSUME NEW store, DropPrimary(r, store)
              PROVE  pr' = NotifyPrimary(r, "DISCONNECTED")
            BY <3>1 DEF DropPrimary
        <3>2. pr' = pr \/ pr' = NotifyPrimary(r, "DISCONNECTED")
            BY <2>4, <3>1
            DEF ReplicaStep, ReplicaConnect, ReplicaHandshake, ReplicaCatchUp,
                ReplicaControlLine, ReplicaPeerClosed, ReplicaResolveRoute,
                ReplicaRdmaConnect, ReplicaEstablished, ReplicaDisconnected,
                ReplicaCmError, ReplicaTimeout, ReplicaSendAck,
                ReplicaSendDone, ReplicaRecvChunk, primaryVars
        <3> QED
            BY <1>4, <1>5, <3>2
    <2>5. CASE Failure
        <3>1. ASSUME PrimaryRestart PROVE SnapshotToSlotOwner'
            <4>1. pr' = NoPrimaryRdma
                BY <3>1, Zenon DEF PrimaryRestart
            <4> QED
                BY <4>1 DEF NoPrimaryRdma, SnapshotToSlotOwner
        <3>2. ASSUME NEW r \in Replica,
                     \/ PrimaryFailure(r) \/ ReplicaFailure(r)
                     \/ ReplicaInstallFailure(r) \/ RdmaBreak(r)
              PROVE  SnapshotToSlotOwner'
            <4>1. \/ DropReplica(r)
                  \/ pr' = NotifyPrimary(r, "DISCONNECTED")
                BY <3>2 DEF PrimaryFailure, ReplicaFailure,
                            ReplicaInstallFailure, RdmaBreak, DropPrimary
            <4> QED
                BY <1>4, <1>5, <2>1, <4>1
        <3> QED
            BY <2>5, <3>1, <3>2 DEF Failure
    <2>6. ASSUME NEW c \in Command, ClientWrite(c) PROVE SnapshotToSlotOwner'
        BY <1>4, <1>5, <2>6 DEF ClientWrite
    <2>7. CASE UNCHANGED vars
        BY <1>4, <1>5, <2>7 DEF vars
    <2> QED
        BY <1>5, <2>3, <2>4, <2>5, <2>6, <2>7 DEF Next
<1> QED
    BY <1>0, <1>1, <1>2, <1>3, <1>5

\* The slot invariant holds initially.
LEMMA SlotInit == Init => SlotInv
<1> SUFFICES ASSUME Init PROVE SlotInv
    OBVIOUS
<1>1. ReplicaIds
    BY DEF Init, ReplicaIds, ReplicaStarted, Owned
<1>2. LineIds /\ ReadyIds
    <2>1. ASSUME NEW r \in Replica
          PROVE  tcp[r].p2r = <<>> /\ wire[r].rp = <<>>
        BY DEF Init, EmptyWire
    <2>2. ASSUME NEW S PROVE <<>> \in Seq(S)
        OBVIOUS
    <2> QED
        BY <2>1, <2>2, Zenon DEF LineIds, ReadyIds
<1>3. SlotId /\ SnapshotToSlotOwner
    BY DEF Init, SlotId, PrimaryStarted, NoPrimaryRdma, SnapshotToSlotOwner
<1> QED
    BY <1>1, <1>2, <1>3 DEF SlotInv

\* SnapshotOnlyToOwner: the Primary never sends a byte of the snapshot to a
\* Replica other than the one that owns the slot (SnapshotToSlotOwner), for any
\* number of Replicas, stale CONNECT_REQUESTs and failures.
THEOREM SnapshotOnlyToOwner == Spec => []SnapshotToSlotOwner
<1> DEFINE Inv == TypeInv /\ SlotInv
<1>1. Init => Inv
    BY TypeInit, SlotInit
<1>2. Inv /\ [Next]_vars => Inv'
    <2>1. ASSUME TypeInv, SlotInv, [Next]_vars PROVE SlotInv'
        <3>1. ReplicaIds /\ LineIds /\ ReadyIds /\ SlotId
            BY <2>1 DEF SlotInv
        <3> QED
            BY <2>1, <3>1, ReplicaIdStep, LineStep, ReadyStep, SlotIdStep,
               OwnerStep DEF SlotInv
    <2> QED
        BY <2>1, TypeStep
<1>3. Inv => SnapshotToSlotOwner
    BY DEF SlotInv
<1> HIDE DEF Inv
<1> QED
    BY <1>1, <1>2, <1>3, PTL DEF Spec

-----------------------------------------------------------------------------
(***************************************************************************)
(* The log, the steps and the connections of replication.                  *)
(*                                                                         *)
(* The first part says what the Primary's log looks like and that a step   *)
(* only appends to it.  The second part says what every handler leaves of  *)
(* the state, and gathers the handlers into AnyStep, the cases of which    *)
(* all later proofs go through.  The rest are the invariants of the        *)
(* connections: FreshInv and CmInv (the phases of an RDMA connection and   *)
(* the CM events at both of its ends), RoundInv (the round that holds the  *)
(* slot) and LineInv (the lines of the handshake).                         *)
(***************************************************************************)

-----------------------------------------------------------------------------
(* Sequences.                                                               *)

\* What a concatenation holds, and where.
LEMMA ConcatFacts ==
    ASSUME NEW S, NEW s \in Seq(S), NEW t \in Seq(S)
    PROVE  /\ s \o t \in Seq(S)
           /\ Len(s \o t) = Len(s) + Len(t)
           /\ \A i \in 1 .. Len(s) : (s \o t)[i] = s[i]
           /\ \A i \in 1 .. Len(t) : (s \o t)[Len(s) + i] = t[i]
    OBVIOUS

-----------------------------------------------------------------------------
(* The Primary's log.  A boundary is an offset at which a command begins or *)
(* the file ends.                                                           *)

Boundary(n) ==
    /\ n \in Nat
    /\ n <= Len(aof)
    /\ n < Len(aof) => aof[n + 1].part = 1

\* One whole command is logged at n, and it led from the engine at n to the
\* engine behind it.
CommandFrom(n) ==
    LET c == aof[n + 1].cmd IN
    /\ n + CmdLen <= Len(aof)
    /\ \A i \in 1 .. CmdLen : aof[n + i] = [cmd |-> c, part |-> i]
    /\ c \in Command
    /\ ExecStatus(hist[n + 1], c) = "OK"
    /\ hist[n + CmdLen + 1] = Execute(hist[n + 1], c)
    /\ Boundary(n + CmdLen)

LogInv ==
    /\ Len(hist) = Len(aof) + 1
    /\ hist[Len(aof) + 1] = db
    /\ \A n \in Nat : n < Len(aof) /\ aof[n + 1].part = 1 => CommandFrom(n)

\* What every step does to the log: it only appends to it.
Grows ==
    /\ Len(aof) <= Len(aof')
    /\ \A i \in 1 .. Len(aof) : aof'[i] = aof[i]
    /\ \A i \in 1 .. Len(aof) + 1 : hist'[i] = hist[i]
    /\ \A n \in Nat : Boundary(n) => Boundary(n)'

\* Only a client's write touches the log.
LEMMA LogUntouched ==
    ASSUME [Next]_vars, \A c \in Command : ~ClientWrite(c)
    PROVE  UNCHANGED <<db, aof, hist>>
<1>1. CASE PrimaryStep
    BY <1>1 DEF PrimaryStep, PrimaryAccept, PrimaryReject, PrimaryEstablished,
                PrimaryDisconnected, PrimaryCmError, PrimarySendNext,
                PrimaryDisconnect, PrimarySendDone, PrimaryRecv,
                PrimarySendAof, PrimaryNextRound, PrimaryCaughtUp,
                PrimaryResume, PrimaryStreams
<1>2. ASSUME NEW r \in Replica,
             PrimaryConnStep(r) \/ ReplicaConnect(r) \/ ReplicaStep(r)
      PROVE  UNCHANGED <<db, aof, hist>>
    BY <1>2 DEF PrimaryConnStep, PrimaryPing, PrimaryPsync, PrimaryPeerClosed,
                ReplicaStep, ReplicaConnect, ReplicaHandshake, ReplicaCatchUp,
                ReplicaControlLine, ReplicaPeerClosed, ReplicaResolveRoute,
                ReplicaRdmaConnect, ReplicaEstablished, ReplicaDisconnected,
                ReplicaCmError, ReplicaTimeout, ReplicaSendAck,
                ReplicaSendDone, ReplicaRecvChunk, primaryVars
<1>3. CASE Failure
    BY <1>3 DEF Failure, PrimaryFailure, ReplicaFailure,
                ReplicaInstallFailure, RdmaBreak, PrimaryRestart
<1> QED
    BY <1>1, <1>2, <1>3 DEF Next, vars

\* A client's write appends one whole command.
LEMMA LogClientWrite ==
    ASSUME TypeInv, LogInv, NEW c \in Command, ClientWrite(c)
    PROVE  LogInv' /\ Grows
<1>0. PICK N : N = Len(aof)
    OBVIOUS
<1> DEFINE new == [i \in 1 .. CmdLen |-> IF i = CmdLen THEN Execute(db, c) ELSE db]
<1>1. /\ aof \in Seq(Cell) /\ hist \in Seq(Database) /\ db \in Database
      /\ N \in Nat /\ CmdLen \in Nat \ {0}
    BY <1>0, EngineAssumption DEF TypeInv, TypeOK
<1>2. Execute(db, c) \in Database /\ Encode(c) \in Seq(Cell)
    BY <1>0, <1>1, ExecuteType, EncodeType
<1>3. Len(Encode(c)) = CmdLen /\ \A i \in 1 .. CmdLen : Encode(c)[i] = [cmd |-> c, part |-> i]
    BY <1>1 DEF Encode
<1>4. /\ Len(aof') = N + CmdLen
      /\ \A i \in 1 .. N : aof'[i] = aof[i]
      /\ \A i \in 1 .. CmdLen : aof'[N + i] = [cmd |-> c, part |-> i]
    <2>1. aof' = aof \o Encode(c)
        BY DEF ClientWrite
    <2> DEFINE long == aof \o Encode(c)
    <2>2. /\ Len(long) = Len(aof) + Len(Encode(c))
          /\ \A i \in 1 .. Len(aof) : long[i] = aof[i]
          /\ \A i \in 1 .. Len(Encode(c)) : long[Len(aof) + i] = Encode(c)[i]
        BY <1>1, <1>2, ConcatFacts
    <2>3. aof' = long
        BY <2>1
    <2> HIDE DEF long
    <2> QED
        BY <1>0, <1>1, <1>3, <2>2, <2>3
<1>5. /\ Len(hist') = N + CmdLen + 1
      /\ \A i \in 1 .. N + 1 : hist'[i] = hist[i]
      /\ hist'[N + CmdLen + 1] = Execute(db, c)
    <2>1. hist' = hist \o new
        BY DEF ClientWrite
    <2>2. new \in Seq(Database) /\ Len(new) = CmdLen /\ new[CmdLen] = Execute(db, c)
        BY <1>0, <1>1, <1>2
    <2>3. Len(hist) = N + 1
        BY <1>0 DEF LogInv
    <2> HIDE DEF new
    <2> DEFINE long == hist \o new
    <2>4. /\ Len(long) = Len(hist) + Len(new)
          /\ \A i \in 1 .. Len(hist) : long[i] = hist[i]
          /\ \A i \in 1 .. Len(new) : long[Len(hist) + i] = new[i]
        <3>1. hist \in Seq(Database) /\ new \in Seq(Database)
            BY <1>1, <2>2
        <3> QED
            BY <3>1, ConcatFacts
    <2> HIDE DEF long
    <2>5. hist' = long
        BY <2>1 DEF long
    <2>6. long[N + 1 + CmdLen] = new[CmdLen]
        BY <1>1, <2>2, <2>3, <2>4
    <2> QED
        BY <1>1, <2>2, <2>3, <2>4, <2>5, <2>6
<1>6. db' = Execute(db, c) /\ ExecStatus(db, c) = "OK"
    BY DEF ClientWrite
<1>7. hist[N + 1] = db
    BY <1>0 DEF LogInv
<1> HIDE DEF new
<1>8. \A n \in Nat : n <= N => (Boundary(n) => Boundary(n)')
    <2> SUFFICES ASSUME NEW n \in Nat, n <= N, Boundary(n) PROVE Boundary(n)'
        OBVIOUS
    <2>1. CASE n < N
        BY <1>0, <1>1, <1>4, <2>1 DEF Boundary
    <2>2. CASE n = N
        <3>1. aof'[N + 1] = [cmd |-> c, part |-> 1]
            BY <1>0, <1>1, <1>4
        <3> QED
            BY <1>0, <1>1, <1>4, <2>2, <3>1 DEF Boundary
    <2> QED
        BY <1>0, <1>1, <2>1, <2>2
<1>9. Grows
    BY <1>0, <1>1, <1>4, <1>5, <1>8 DEF Grows, Boundary
<1>10. Boundary(N + CmdLen)'
    BY <1>0, <1>1, <1>4 DEF Boundary
<1>11. ASSUME NEW n \in Nat, n < Len(aof'), aof'[n + 1].part = 1
       PROVE  CommandFrom(n)'
    <2>1. CASE n < N
        <3>1. aof'[n + 1] = aof[n + 1]
            BY <1>0, <1>1, <1>4, <2>1
        <3>2. CommandFrom(n)
            BY <1>0, <1>11, <2>1, <3>1 DEF LogInv
        <3> DEFINE d == aof[n + 1].cmd
        <3>3. /\ n + CmdLen <= N
              /\ \A i \in 1 .. CmdLen : aof[n + i] = [cmd |-> d, part |-> i]
              /\ d \in Command
              /\ ExecStatus(hist[n + 1], d) = "OK"
              /\ hist[n + CmdLen + 1] = Execute(hist[n + 1], d)
              /\ Boundary(n + CmdLen)
            BY <1>0, <3>2 DEF CommandFrom
        <3>4. /\ hist'[n + 1] = hist[n + 1]
              /\ hist'[n + CmdLen + 1] = hist[n + CmdLen + 1]
            BY <1>0, <1>1, <1>5, <3>3
        <3>5. \A i \in 1 .. CmdLen : aof'[n + i] = aof[n + i]
            BY <1>0, <1>1, <1>4, <3>3
        <3>6. Boundary(n + CmdLen)'
            BY <1>0, <1>1, <1>8, <3>3
        <3>7. aof'[n + 1].cmd = d
            BY <3>1
        <3> HIDE DEF d
        <3> QED
            BY <1>0, <1>1, <1>4, <3>3, <3>4, <3>5, <3>6, <3>7 DEF CommandFrom
    <2>2. CASE n = N
        <3>1. aof'[n + 1] = [cmd |-> c, part |-> 1]
            BY <1>0, <1>1, <1>4, <2>2
        <3>2. hist'[n + 1] = db
            BY <1>0, <1>1, <1>5, <1>7, <2>2
        <3>3. Boundary(n + CmdLen)'
            BY <1>10, <2>2
        <3>4. aof'[n + 1].cmd = c
            BY <3>1
        <3> QED
            BY <1>1, <1>4, <1>5, <1>6, <2>2, <3>2, <3>3, <3>4, SMT DEF CommandFrom
    <2>3. CASE n > N
        <3>1. PICK i \in 1 .. CmdLen : i # 1 /\ n + 1 = N + i
            <4>1. n + 1 - N \in 1 .. CmdLen /\ n + 1 - N # 1
                BY <1>0, <1>1, <1>4, <1>11, <2>3
            <4> QED
                BY <1>0, <1>1, <4>1
        <3>2. aof'[n + 1] = [cmd |-> c, part |-> i]
            BY <1>4, <3>1
        <3> QED
            BY <1>11, <3>1, <3>2
    <2> QED
        BY <1>0, <1>1, <2>1, <2>2, <2>3
<1> QED
    BY <1>0, <1>1, <1>4, <1>5, <1>6, <1>9, <1>11 DEF LogInv

\* Every step keeps the log whole and only appends to it.
LEMMA LogStep ==
    ASSUME TypeInv, LogInv, [Next]_vars
    PROVE  LogInv' /\ Grows
<1>1. CASE \E c \in Command : ClientWrite(c)
    BY <1>1, LogClientWrite
<1>2. CASE \A c \in Command : ~ClientWrite(c)
    <2>1. UNCHANGED <<db, aof, hist>>
        BY <1>2, LogUntouched
    <2>2. LogInv'
        BY <2>1 DEF LogInv, CommandFrom, Boundary
    <2>3. Grows
        BY <2>1 DEF Grows, Boundary, TypeInv, TypeOK
    <2> QED
        BY <2>2, <2>3
<1> QED
    BY <1>1, <1>2

\* The log is empty at first.
LEMMA LogInit == Init => LogInv
    BY DEF Init, LogInv

-----------------------------------------------------------------------------
(* The two ways a connection ends, connection by connection.                *)

\* Everything of Replica q is as before.
Unmoved(q) ==
    /\ rm'[q] = rm[q]
    /\ rr'[q] = rr[q]
    /\ rs'[q] = rs[q]
    /\ tcp'[q] = tcp[q]
    /\ wire'[q] = wire[q]

\* What closing the Replica's end leaves.
LEMMA DropPrimaryEffect ==
    ASSUME TypeOK, NEW r \in Replica, NEW store, DropPrimary(r, store)
    PROVE  /\ \A q \in Replica : q # r => Unmoved(q)
           /\ rm'[r] = [rm[r] EXCEPT !.state = "DISCONNECTED", !.syncId = 0,
                                     !.writer = Closed]
           /\ rm'[r].state = "DISCONNECTED"
           /\ rr'[r] = NoReplicaRdma
           /\ tcp'[r] = [tcp[r] EXCEPT !.p2r = <<>>]
           /\ wire'[r] = EmptyWire
           /\ pr.conn # r => pr' = pr
           /\ pr.conn = r => pr' = [pr EXCEPT !.cm = Append(pr.cm, "DISCONNECTED")]
<1>1. /\ rm \in [Replica -> ReplicaManager] /\ rr \in [Replica -> ReplicaRdma]
      /\ rs \in [Replica -> ReplicaStore] /\ tcp \in [Replica -> TcpConn]
      /\ wire \in [Replica -> Wire]
    BY DEF TypeOK
<1>2. /\ rm' = [rm EXCEPT ![r].state = "DISCONNECTED", ![r].syncId = 0,
                          ![r].writer = Closed]
      /\ rr' = [rr EXCEPT ![r] = NoReplicaRdma]
      /\ rs' = [rs EXCEPT ![r] = [store EXCEPT !.tmp = <<>>, !.buf = <<>>]]
      /\ tcp' = [tcp EXCEPT ![r].p2r = <<>>]
      /\ wire' = [wire EXCEPT ![r] = EmptyWire]
      /\ pr' = NotifyPrimary(r, "DISCONNECTED")
    BY DEF DropPrimary
<1>3. \A q \in Replica : q # r => Unmoved(q)
    BY <1>1, <1>2 DEF Unmoved
<1>4. /\ rr'[r] = NoReplicaRdma
      /\ tcp'[r] = [tcp[r] EXCEPT !.p2r = <<>>]
      /\ wire'[r] = EmptyWire
    BY <1>1, <1>2
<1>5. rm'[r] = [rm[r] EXCEPT !.state = "DISCONNECTED", !.syncId = 0, !.writer = Closed]
    BY <1>1, <1>2
<1>6. rm'[r].state = "DISCONNECTED"
    BY <1>1, <1>5 DEF ReplicaManager
<1>7. /\ pr.conn # r => pr' = pr
      /\ pr.conn = r => pr' = [pr EXCEPT !.cm = Append(pr.cm, "DISCONNECTED")]
    BY <1>2 DEF NotifyPrimary
<1> QED
    BY <1>3, <1>4, <1>5, <1>6, <1>7

\* What a Replica hears of the end of RDMA connection r.
LEMMA NotifyEffect ==
    ASSUME TypeOK, NEW r, NEW e, rr' = NotifyReplica(r, e), NEW q \in Replica
    PROVE  /\ ~(q = r /\ rr[q].conn) => rr'[q] = rr[q]
           /\ q = r /\ rr[q].conn =>
                rr'[q] = [rr[q] EXCEPT !.cm = Append(rr[q].cm, e)]
<1>1. rr \in [Replica -> ReplicaRdma] /\ NoConn \notin Replica
    BY ReplicationAssumption DEF TypeOK
<1> QED
    BY <1>1 DEF NotifyReplica

\* What closing the Primary's end leaves.
LEMMA DropReplicaEffect ==
    ASSUME TypeOK, NEW r, DropReplica(r)
    PROVE  /\ \A q \in Replica : tcp'[q].p2r = tcp[q].p2r
           /\ \A q \in Replica : q # r => tcp'[q] = tcp[q]
           /\ \A q \in Replica : tcp'[q].r2p \in {<<>>, tcp[q].r2p}
           /\ pm.conn = r =>
                /\ pm' = PrimaryStarted(pm.offset)
                /\ pr' = NoPrimaryRdma
                /\ rr' = NotifyReplica(pr.conn, "DISCONNECTED")
                /\ \A q \in Replica :
                      wire'[q] = IF q = pr.conn THEN EmptyWire ELSE wire[q]
           /\ pm.conn # r => UNCHANGED <<pm, pr, rr, wire>>
<1>1. /\ tcp \in [Replica -> TcpConn] /\ wire \in [Replica -> Wire]
      /\ NoConn \notin Replica
    BY ReplicationAssumption DEF TypeOK
<1>2. tcp' = [tcp EXCEPT ![r].primary = "closed", ![r].r2p = <<>>]
    BY DEF DropReplica
<1>3. \A q \in Replica : /\ tcp'[q].p2r = tcp[q].p2r
                         /\ q # r => tcp'[q] = tcp[q]
                         /\ tcp'[q].r2p \in {<<>>, tcp[q].r2p}
    <2> SUFFICES ASSUME NEW q \in Replica
                 PROVE  /\ tcp'[q].p2r = tcp[q].p2r
                        /\ q # r => tcp'[q] = tcp[q]
                        /\ tcp'[q].r2p \in {<<>>, tcp[q].r2p}
        OBVIOUS
    <2>1. CASE q = r
        <3>1. tcp'[q] = [[tcp[q] EXCEPT !.primary = "closed"] EXCEPT !.r2p = <<>>]
            BY <1>1, <1>2, <2>1
        <3> QED
            BY <1>1, <2>1, <3>1 DEF TcpConn
    <2>2. CASE q # r
        BY <1>1, <1>2, <2>2
    <2> QED
        BY <2>1, <2>2
<1>4. CASE pm.conn = r
    <2>1. /\ pm' = PrimaryStarted(pm.offset)
          /\ pr' = NoPrimaryRdma
          /\ rr' = NotifyReplica(pr.conn, "DISCONNECTED")
          /\ wire' = CutWire(pr.conn)
        BY <1>4 DEF DropReplica
    <2>2. \A q \in Replica : wire'[q] = IF q = pr.conn THEN EmptyWire ELSE wire[q]
        BY <1>1, <2>1 DEF CutWire
    <2> QED
        BY <1>3, <1>4, <2>1, <2>2
<1>5. CASE pm.conn # r
    <2>1. UNCHANGED <<pm, pr, rr, wire>>
        BY <1>5 DEF DropReplica
    <2> QED
        BY <1>3, <1>5, <2>1
<1> QED
    BY <1>4, <1>5

-----------------------------------------------------------------------------
(* Connection management: a Replica asks for one RDMA connection in its     *)
(* life, is told at most once that it is established, and both ends of a    *)
(* held connection hear of its end.                                         *)

Early(r) == rm[r].state \in {"DOWN", "HANDSHAKE"}

InQueue(r) == \E i \in 1 .. Len(listenQ) : listenQ[i] = r

\* Only events that end a connection; some event that does.
Ends(cm) == \A i \in 1 .. Len(cm) : cm[i] \in {"DISCONNECTED", "ERROR"}
Hurt(cm) == \E i \in 1 .. Len(cm) : cm[i] # "ESTABLISHED"

\* No request waits twice.
QueueOnce ==
    \A i, j \in 1 .. Len(listenQ) : listenQ[i] = listenQ[j] => i = j

\* The RDMA connection belongs to the time between FULLRESYNC and the end of
\* the transfer; a request is gone from the queue once it is accepted.
ConnPhase(r) ==
    /\ InQueue(r) \/ pr.conn = r \/ rr[r].conn => ~Early(r)
    /\ rr[r].conn => rm[r].state \in {"FULL_SYNC", "CATCH_UP"}
    /\ rm[r].state = "FULL_SYNC" => rr[r].conn
    /\ InQueue(r) => pr.conn # r

\* The life of a connection on the Replica's side: it resolves, it waits at the
\* listener, ESTABLISHED is on its way, or it is up or about to end.
CmResolves(r) ==
    /\ rr[r].cm \in {<<"ADDR_RESOLVED">>, <<"ROUTE_RESOLVED">>}
    /\ ~rr[r].est /\ ~InQueue(r) /\ pr.conn # r

CmWaits(r) ==
    /\ rr[r].recvPosted /\ ~rr[r].est /\ InQueue(r) /\ rr[r].cm = <<>>

CmAccepted(r) ==
    /\ rr[r].recvPosted /\ ~rr[r].est /\ ~InQueue(r)
    /\ rr[r].cm # <<>> /\ Head(rr[r].cm) = "ESTABLISHED" /\ Ends(Tail(rr[r].cm))

CmUp(r) ==
    /\ rr[r].recvPosted /\ ~InQueue(r) /\ Ends(rr[r].cm)
    /\ ~rr[r].est => rr[r].cm # <<>> /\ pr.conn # r

CmLife(r) ==
    rr[r].conn => CmResolves(r) \/ CmWaits(r) \/ CmAccepted(r) \/ CmUp(r)

\* When one end of the held connection is told of its end, the Primary is too.
BothHear(r) ==
    /\ pr.conn = r /\ rr[r].conn /\ Hurt(rr[r].cm) => Hurt(pr.cm)
    /\ pr.conn = r /\ ~rr[r].conn => Hurt(pr.cm)

CmInv ==
    /\ QueueOnce
    /\ \A r \in Replica : ConnPhase(r) /\ CmLife(r) /\ BothHear(r)

\* Queues of CM events: one more, one less.
LEMMA EventQueues ==
    ASSUME NEW cm \in Seq(CmEvent), NEW e \in {"DISCONNECTED", "ERROR"}
    PROVE  /\ Append(cm, e) \in Seq(CmEvent) /\ Append(cm, e) # <<>>
           /\ Hurt(Append(cm, e))
           /\ Ends(cm) => Ends(Append(cm, e))
           /\ Ends(<<e>>) /\ Hurt(<<e>>)
           /\ cm # <<>> => Head(Append(cm, e)) = Head(cm)
           /\ cm # <<>> => Tail(Append(cm, e)) = Append(Tail(cm), e)
           /\ cm # <<>> /\ Ends(Tail(cm)) => Ends(Tail(Append(cm, e)))
<1>1. e \in CmEvent
    BY DEF CmEvent
<1>2. /\ Append(cm, e) \in Seq(CmEvent)
      /\ Len(Append(cm, e)) = Len(cm) + 1
      /\ Append(cm, e)[Len(cm) + 1] = e
      /\ \A i \in 1 .. Len(cm) : Append(cm, e)[i] = cm[i]
    BY <1>1
<1>3. Append(cm, e) # <<>> /\ Hurt(Append(cm, e)) /\ (Ends(cm) => Ends(Append(cm, e)))
    BY <1>2 DEF Hurt, Ends
<1>4. Ends(<<e>>) /\ Hurt(<<e>>)
    BY DEF Ends, Hurt
<1>5. ASSUME cm # <<>>
      PROVE  /\ Head(Append(cm, e)) = Head(cm)
             /\ Tail(Append(cm, e)) = Append(Tail(cm), e)
             /\ Tail(cm) \in Seq(CmEvent)
    BY <1>1, <1>5
<1>6. ASSUME cm # <<>>, Ends(Tail(cm))
      PROVE  Ends(Tail(Append(cm, e)))
    <2> DEFINE t == Tail(cm)
    <2>1. t \in Seq(CmEvent) /\ Tail(Append(cm, e)) = Append(t, e)
        BY <1>5, <1>6
    <2> HIDE DEF t
    <2>2. /\ Len(Append(t, e)) = Len(t) + 1
          /\ Append(t, e)[Len(t) + 1] = e
          /\ \A i \in 1 .. Len(t) : Append(t, e)[i] = t[i]
        BY <1>1, <2>1
    <2>3. Ends(t)
        BY <1>6 DEF t
    <2>4. Ends(Append(t, e))
        BY <2>1, <2>2, <2>3 DEF Ends
    <2> QED
        BY <2>1, <2>4
<1> QED
    BY <1>2, <1>3, <1>4, <1>5, <1>6

\* Taking an ESTABLISHED from the queue.
LEMMA EventTaken ==
    ASSUME NEW cm \in Seq(CmEvent), cm # <<>>, Head(cm) = "ESTABLISHED"
    PROVE  /\ Hurt(cm) => Hurt(Tail(cm))
           /\ Hurt(Tail(cm)) => Hurt(cm)
           /\ ~Ends(cm)
<1>1. /\ Tail(cm) \in Seq(CmEvent) /\ Len(Tail(cm)) = Len(cm) - 1 /\ Len(cm) \in Nat \ {0}
      /\ \A i \in 1 .. Len(cm) - 1 : Tail(cm)[i] = cm[i + 1]
      /\ cm[1] = "ESTABLISHED"
    OBVIOUS
<1>2. \A i \in 1 .. Len(cm) : i # 1 => i - 1 \in 1 .. Len(cm) - 1 /\ (i - 1) + 1 = i
    BY <1>1
<1>3. \A i \in 1 .. Len(cm) : i # 1 => cm[i] = Tail(cm)[i - 1]
    BY <1>1, <1>2
<1>4. ASSUME Hurt(cm) PROVE Hurt(Tail(cm))
    <2>1. PICK i \in 1 .. Len(cm) : cm[i] # "ESTABLISHED"
        BY <1>4 DEF Hurt
    <2>2. i # 1 /\ i - 1 \in 1 .. Len(Tail(cm)) /\ Tail(cm)[i - 1] # "ESTABLISHED"
        BY <1>1, <1>2, <1>3, <2>1
    <2> QED
        BY <2>2 DEF Hurt
<1>5. ASSUME Hurt(Tail(cm)) PROVE Hurt(cm)
    <2>1. PICK i \in 1 .. Len(cm) - 1 : cm[i + 1] # "ESTABLISHED"
        BY <1>1, <1>5 DEF Hurt
    <2>2. i + 1 \in 1 .. Len(cm)
        BY <1>1
    <2> QED
        BY <2>1, <2>2 DEF Hurt
<1>6. ~Ends(cm)
    BY <1>1 DEF Ends
<1> QED
    BY <1>4, <1>5, <1>6

\* A connection that ends has heard of it.
LEMMA EventEnds ==
    ASSUME NEW cm \in Seq(CmEvent), cm # <<>>, Head(cm) # "ESTABLISHED"
    PROVE  Hurt(cm)
<1>1. Len(cm) \in Nat \ {0} /\ cm[1] = Head(cm)
    OBVIOUS
<1> QED
    BY <1>1 DEF Hurt

\* A step that leaves the connections as they are.
LEMMA CmQuiet ==
    ASSUME CmInv, listenQ' = listenQ, pr'.conn = pr.conn,
           Hurt(pr.cm) => Hurt(pr'.cm),
           \A q \in Replica :
              /\ rr'[q].conn = rr[q].conn
              /\ rr'[q].est = rr[q].est
              /\ rr'[q].recvPosted = rr[q].recvPosted
              /\ rr'[q].cm = rr[q].cm,
           \A q \in Replica :
              \/ rm'[q].state = rm[q].state
              \/ rm[q].state = "DOWN" /\ rm'[q].state = "HANDSHAKE"
              \/ rm[q].state = "FULL_SYNC" /\ rm'[q].state = "CATCH_UP"
              \/ /\ ~rr[q].conn
                 /\ rm[q].state \in {"CATCH_UP", "ONLINE"}
                 /\ rm'[q].state \in {"CATCH_UP", "ONLINE"}
    PROVE  CmInv'
<1>1. QueueOnce'
    BY DEF CmInv, QueueOnce
<1>2. ASSUME NEW q \in Replica
      PROVE  (ConnPhase(q) /\ CmLife(q) /\ BothHear(q))'
    <2>1. ConnPhase(q) /\ CmLife(q) /\ BothHear(q)
        BY DEF CmInv
    <2>2. InQueue(q)' <=> InQueue(q)
        BY DEF InQueue
    <2>3. ConnPhase(q)'
        BY <2>1, <2>2 DEF ConnPhase, Early
    <2>4. CmLife(q)'
        BY <2>1, <2>2 DEF CmLife, CmResolves, CmWaits, CmAccepted, CmUp
    <2>5. BothHear(q)'
        BY <2>1 DEF BothHear
    <2> QED
        BY <2>3, <2>4, <2>5
<1> QED
    BY <1>1, <1>2 DEF CmInv

\* One end of the held connection r hears that it ends; r is held or was.
LEMMA CmNotified ==
    ASSUME TypeOK, CmInv, NEW r \in Replica, pr.conn = r, rr[r].conn,
           rr'[r] = [rr[r] EXCEPT !.cm = Append(rr[r].cm, "DISCONNECTED")],
           InQueue(r)' <=> FALSE,
           rm'[r].state = rm[r].state,
           pr'.conn = r => Hurt(pr'.cm)
    PROVE  (ConnPhase(r) /\ CmLife(r) /\ BothHear(r))'
<1>1. /\ rr[r] \in ReplicaRdma /\ rr[r].cm \in Seq(CmEvent)
      /\ ConnPhase(r) /\ CmLife(r) /\ BothHear(r)
    BY DEF TypeOK, ReplicaRdma, CmInv
<1>2. /\ rr'[r].conn = rr[r].conn
      /\ rr'[r].est = rr[r].est
      /\ rr'[r].recvPosted = rr[r].recvPosted
      /\ rr'[r].cm = Append(rr[r].cm, "DISCONNECTED")
    BY <1>1 DEF ReplicaRdma
<1>3. ConnPhase(r)'
    BY <1>1, <1>2 DEF ConnPhase, Early
<1>4. CmAccepted(r) \/ CmUp(r)
    BY <1>1 DEF CmLife, CmResolves, CmWaits, ConnPhase
<1> DEFINE longer == Append(rr[r].cm, "DISCONNECTED")
<1>5. /\ longer # <<>>
      /\ Ends(rr[r].cm) => Ends(longer)
      /\ rr[r].cm # <<>> => Head(longer) = Head(rr[r].cm)
      /\ rr[r].cm # <<>> /\ Ends(Tail(rr[r].cm)) => Ends(Tail(longer))
    BY <1>1, EventQueues
<1> HIDE DEF longer
<1>6. rr'[r].cm = longer
    BY <1>2 DEF longer
<1>7. CmLife(r)'
    <2>1. CASE CmAccepted(r)
        BY <1>2, <1>5, <1>6, <2>1 DEF CmAccepted, CmLife
    <2>2. CASE CmUp(r)
        BY <1>2, <1>5, <1>6, <2>2 DEF CmUp, CmLife
    <2> QED
        BY <1>4, <2>1, <2>2
<1>8. BothHear(r)'
    BY <1>1, <1>2 DEF BothHear
<1> QED
    BY <1>3, <1>7, <1>8

\* Closing the Primary's end.
LEMMA CmDropReplica ==
    ASSUME TypeOK, CmInv, NEW r, DropReplica(r), UNCHANGED <<listenQ, rm>>
    PROVE  CmInv'
<1>1. CASE pm.conn # r
    <2>1. UNCHANGED <<pm, pr, rr, wire>>
        BY <1>1, DropReplicaEffect
    <2> QED
        BY <2>1, CmQuiet
<1>2. CASE pm.conn = r
    <2>1. pr' = NoPrimaryRdma /\ rr' = NotifyReplica(pr.conn, "DISCONNECTED")
        BY <1>2, DropReplicaEffect
    <2>2. pr'.conn = NoConn /\ \A q \in Replica : pr'.conn # q
        BY <2>1, ReplicationAssumption DEF NoPrimaryRdma
    <2>3. QueueOnce'
        BY DEF CmInv, QueueOnce
    <2>4. ASSUME NEW q \in Replica
          PROVE  (ConnPhase(q) /\ CmLife(q) /\ BothHear(q))'
        <3>1. ConnPhase(q) /\ CmLife(q) /\ BothHear(q)
            BY DEF CmInv
        <3>2. InQueue(q)' <=> InQueue(q)
            BY DEF InQueue
        <3>3. CASE q = pr.conn /\ rr[q].conn
            <4>1. rr'[q] = [rr[q] EXCEPT !.cm = Append(rr[q].cm, "DISCONNECTED")]
                BY <2>1, <3>3, NotifyEffect
            <4>2. ~InQueue(q)
                BY <3>1, <3>3 DEF ConnPhase
            <4> QED
                BY <2>2, <3>2, <3>3, <4>1, <4>2, CmNotified
        <3>4. CASE ~(q = pr.conn /\ rr[q].conn)
            <4>1. rr'[q] = rr[q]
                BY <2>1, <3>4, NotifyEffect
            <4>2. ConnPhase(q)'
                BY <2>2, <3>1, <3>2, <4>1 DEF ConnPhase, Early
            <4>3. CmLife(q)'
                BY <2>2, <3>1, <3>2, <4>1
                DEF CmLife, CmResolves, CmWaits, CmAccepted, CmUp
            <4>4. BothHear(q)'
                BY <2>2 DEF BothHear
            <4> QED
                BY <4>2, <4>3, <4>4
        <3> QED
            BY <3>3, <3>4
    <2> QED
        BY <2>3, <2>4 DEF CmInv
<1> QED
    BY <1>1, <1>2

\* Closing the Replica's end.
LEMMA CmDropPrimary ==
    ASSUME TypeOK, CmInv, NEW r \in Replica, NEW store, DropPrimary(r, store),
           UNCHANGED listenQ
    PROVE  CmInv'
<1>1. /\ \A q \in Replica : q # r => Unmoved(q)
      /\ rm'[r].state = "DISCONNECTED"
      /\ rr'[r] = NoReplicaRdma
      /\ pr.conn # r => pr' = pr
      /\ pr.conn = r => pr' = [pr EXCEPT !.cm = Append(pr.cm, "DISCONNECTED")]
    BY DropPrimaryEffect
<1>2. pr \in PrimaryRdma
    BY DEF TypeOK
<1>3. pr'.conn = pr.conn /\ (pr.conn = r => Hurt(pr'.cm)) /\ (pr.conn # r => pr'.cm = pr.cm)
    <2>1. pr.cm \in Seq(CmEvent)
        BY <1>2 DEF PrimaryRdma
    <2>2. Hurt(Append(pr.cm, "DISCONNECTED"))
        BY <2>1, EventQueues
    <2>3. pr.conn = r => pr'.conn = pr.conn /\ pr'.cm = Append(pr.cm, "DISCONNECTED")
        BY <1>1, <1>2 DEF PrimaryRdma
    <2> QED
        BY <1>1, <2>2, <2>3
<1>4. QueueOnce'
    BY DEF CmInv, QueueOnce
<1>5. ASSUME NEW q \in Replica
      PROVE  (ConnPhase(q) /\ CmLife(q) /\ BothHear(q))'
    <2>1. ConnPhase(q) /\ CmLife(q) /\ BothHear(q)
        BY DEF CmInv
    <2>2. InQueue(q)' <=> InQueue(q)
        BY DEF InQueue
    <2>3. CASE q = r
        <3>1. ~rr'[q].conn
            BY <1>1, <2>3 DEF NoReplicaRdma
        <3> QED
            BY <1>1, <1>3, <2>1, <2>2, <2>3, <3>1 DEF ConnPhase, Early, CmLife, BothHear
    <2>4. CASE q # r
        <3>1. rr'[q] = rr[q] /\ rm'[q] = rm[q]
            BY <1>1, <2>4 DEF Unmoved
        <3>2. ConnPhase(q)'
            BY <1>3, <2>1, <2>2, <3>1 DEF ConnPhase, Early
        <3>3. CmLife(q)'
            BY <1>3, <2>1, <2>2, <3>1 DEF CmLife, CmResolves, CmWaits, CmAccepted, CmUp
        <3>4. BothHear(q)'
            BY <1>3, <2>1, <2>4, <3>1 DEF BothHear
        <3> QED
            BY <3>2, <3>3, <3>4
    <2> QED
        BY <2>3, <2>4
<1> QED
    BY <1>4, <1>5 DEF CmInv

\* A step that moves the connection of one Replica only.
LEMMA CmOthers ==
    ASSUME CmInv, NEW r \in Replica, QueueOnce',
           (ConnPhase(r) /\ CmLife(r) /\ BothHear(r))',
           \A q \in Replica : q # r =>
              /\ rr'[q] = rr[q]
              /\ rm'[q].state = rm[q].state
              /\ InQueue(q)' <=> InQueue(q)
              /\ pr'.conn = q <=> pr.conn = q
              /\ pr.conn = q => (Hurt(pr.cm) => Hurt(pr'.cm))
    PROVE  CmInv'
<1>1. ASSUME NEW q \in Replica, q # r
      PROVE  (ConnPhase(q) /\ CmLife(q) /\ BothHear(q))'
    <2>1. ConnPhase(q) /\ CmLife(q) /\ BothHear(q)
        BY DEF CmInv
    <2>2. /\ rr'[q] = rr[q]
          /\ rm'[q].state = rm[q].state
          /\ InQueue(q)' <=> InQueue(q)
          /\ pr'.conn = q <=> pr.conn = q
          /\ pr.conn = q => (Hurt(pr.cm) => Hurt(pr'.cm))
        BY <1>1
    <2>3. ConnPhase(q)'
        BY <2>1, <2>2 DEF ConnPhase, Early
    <2>4. CmLife(q)'
        BY <2>1, <2>2 DEF CmLife, CmResolves, CmWaits, CmAccepted, CmUp
    <2>5. BothHear(q)'
        BY <2>1, <2>2 DEF BothHear
    <2> QED
        BY <2>3, <2>4, <2>5
<1> QED
    BY <1>1 DEF CmInv

\* The first request leaves the queue.
LEMMA QueueTaken ==
    ASSUME TypeOK, QueueOnce, listenQ # <<>>, listenQ' = Tail(listenQ),
           NEW h, h = Head(listenQ)
    PROVE  /\ QueueOnce'
           /\ h \in Replica
           /\ InQueue(h)
           /\ ~InQueue(h)'
           /\ \A q : q # h => (InQueue(q)' <=> InQueue(q))
<1>1. /\ listenQ \in Seq(Replica) /\ Len(listenQ) \in Nat \ {0}
      /\ Len(listenQ') = Len(listenQ) - 1
      /\ \A i \in 1 .. Len(listenQ) - 1 : listenQ'[i] = listenQ[i + 1]
      /\ h = listenQ[1] /\ listenQ[1] \in Replica
    BY DEF TypeOK
<1>2. QueueOnce'
    <2> SUFFICES ASSUME NEW i \in 1 .. Len(listenQ'), NEW j \in 1 .. Len(listenQ'),
                        listenQ'[i] = listenQ'[j]
                 PROVE  i = j
        BY DEF QueueOnce
    <2>1. /\ i + 1 \in 1 .. Len(listenQ) /\ j + 1 \in 1 .. Len(listenQ)
          /\ listenQ[i + 1] = listenQ[j + 1]
        BY <1>1
    <2>2. i + 1 = j + 1
        BY <2>1 DEF QueueOnce
    <2> QED
        BY <1>1, <2>2
<1>3. InQueue(h)
    BY <1>1 DEF InQueue
<1>4. ASSUME InQueue(h)' PROVE FALSE
    <2>1. PICK i \in 1 .. Len(listenQ') : listenQ'[i] = listenQ[1]
        BY <1>1, <1>4 DEF InQueue
    <2>2. i + 1 \in 1 .. Len(listenQ) /\ listenQ[i + 1] = listenQ[1] /\ 1 \in 1 .. Len(listenQ)
        BY <1>1, <2>1
    <2>3. i + 1 = 1
        BY <2>2 DEF QueueOnce
    <2> QED
        BY <1>1, <2>3
<1>5. ASSUME NEW q, q # h PROVE InQueue(q)' <=> InQueue(q)
    <2>1. ASSUME InQueue(q)' PROVE InQueue(q)
        <3>1. PICK i \in 1 .. Len(listenQ') : listenQ'[i] = q
            BY <2>1 DEF InQueue
        <3>2. i + 1 \in 1 .. Len(listenQ) /\ listenQ[i + 1] = q
            BY <1>1, <3>1
        <3> QED
            BY <3>2 DEF InQueue
    <2>2. ASSUME InQueue(q) PROVE InQueue(q)'
        <3>1. PICK i \in 1 .. Len(listenQ) : listenQ[i] = q
            BY <2>2 DEF InQueue
        <3>2. i # 1
            BY <1>1, <1>5, <3>1
        <3>3. i - 1 \in 1 .. Len(listenQ') /\ listenQ'[i - 1] = listenQ[(i - 1) + 1]
            BY <1>1, <3>2
        <3>4. listenQ'[i - 1] = q
            BY <1>1, <3>1, <3>3
        <3> QED
            BY <3>3, <3>4 DEF InQueue
    <2> QED
        BY <2>1, <2>2
<1> QED
    BY <1>1, <1>2, <1>3, <1>4, <1>5

-----------------------------------------------------------------------------
(* What the steps of the Primary change, field by field.                    *)

\* A request is accepted.
LEMMA AcceptEffect ==
    ASSUME TypeOK, PrimaryAccept, NEW h, h = Head(listenQ)
    PROVE  /\ h \in Replica
           /\ pm.state = "FULL_SYNC" /\ pr.conn = NoConn
           /\ listenQ # <<>> /\ listenQ' = Tail(listenQ)
           /\ pr'.conn = h /\ ~pr'.est /\ pr'.sent = 0 /\ pr'.acked = 0
           /\ ~pr'.sendPending /\ ~pr'.discPending /\ pr'.recvPosted
           /\ ~rr[h].conn => Hurt(pr'.cm)
           /\ rr' = NotifyReplica(h, "ESTABLISHED")
           /\ UNCHANGED <<db, aof, hist, snapFile, pm, rm, rs, tcp, wire>>
<1>1. listenQ \in Seq(Replica) /\ listenQ # <<>>
    BY DEF TypeOK, PrimaryAccept
<1>2. h \in Replica
    BY <1>1
<1>3. PICK events \in IF rr[h].conn THEN {<<"ESTABLISHED">>}
                      ELSE {<<"ERROR">>, <<"ESTABLISHED", "DISCONNECTED">>} :
          pr' = [NoPrimaryRdma EXCEPT !.conn = h, !.recvPosted = TRUE, !.cm = events]
    BY DEF PrimaryAccept
<1>4. /\ pr'.conn = h /\ ~pr'.est /\ pr'.sent = 0 /\ pr'.acked = 0
      /\ ~pr'.sendPending /\ ~pr'.discPending /\ pr'.recvPosted /\ pr'.cm = events
    BY <1>3 DEF NoPrimaryRdma
<1>5. ~rr[h].conn => Hurt(pr'.cm)
    <2>1. Hurt(<<"ERROR">>)
        BY DEF Hurt
    <2>2. Hurt(<<"ESTABLISHED", "DISCONNECTED">>)
        <3> DEFINE cm == <<"ESTABLISHED", "DISCONNECTED">>
        <3>1. Len(cm) = 2 /\ cm[2] = "DISCONNECTED"
            OBVIOUS
        <3> HIDE DEF cm
        <3>2. Hurt(cm)
            BY <3>1 DEF Hurt
        <3> QED
            BY <3>2 DEF cm
    <2> QED
        BY <1>3, <1>4, <2>1, <2>2
<1> QED
    BY <1>1, <1>2, <1>4, <1>5 DEF PrimaryAccept

\* A stream call takes the ESTABLISHED of the held connection.
LEMMA EstablishedEffect ==
    ASSUME TypeOK, PrimaryEstablished
    PROVE  /\ pr'.conn = pr.conn /\ pr'.est /\ pr'.sent = pr.sent
           /\ pr'.acked = pr.acked /\ pr'.sendPending = pr.sendPending
           /\ pr'.discPending = pr.discPending /\ pr'.recvPosted = pr.recvPosted
           /\ pr'.cm = Tail(pr.cm) /\ pr.cm # <<>> /\ Head(pr.cm) = "ESTABLISHED"
           /\ pr.cm \in Seq(CmEvent)
           /\ UNCHANGED <<db, aof, hist, snapFile, pm, listenQ, rm, rr, rs, tcp, wire>>
<1>1. pr \in PrimaryRdma
    BY DEF TypeOK
<1> QED
    BY <1>1 DEF PrimaryEstablished, PrimaryCmEvent, PrimaryRdma, replicaVars

\* A chunk of n cells leaves for p; rest is what p has sent and the Primary not
\* yet taken.
ChunkSent(p, n, rest) ==
    /\ pm'.state = pm.state /\ pm'.conn = pm.conn /\ pm'.syncId = pm.syncId
    /\ pm'.offset = pm.offset /\ pm'.fileSize = pm.fileSize
    /\ pm'.aofPos = pm.aofPos /\ pm'.aofLeft = pm.aofLeft
    /\ pm.reader \in Nat /\ pm'.reader = pm.reader - n
    /\ n \in Nat /\ n <= pm.reader /\ (pm.reader > 0 => n > 0)
    /\ pr'.conn = pr.conn /\ pr'.est = pr.est /\ pr'.sent = pr.sent + n
    /\ pr'.acked = pr.acked /\ pr'.discPending = pr.discPending
    /\ pr'.recvPosted = pr.recvPosted /\ pr'.cm = pr.cm
    /\ \A q \in Replica : q # p => wire'[q] = wire[q]
    /\ wire'[p] = [pr |-> IF rr[p].conn THEN Append(wire[p].pr, NextChunk)
                          ELSE wire[p].pr,
                   rp |-> rest]
    /\ UNCHANGED <<rr, tcp>>

\* The ACK of everything that was sent is taken.
AckTaken(p) ==
    /\ pr.sent > 0 /\ pr.acked < pr.sent
    /\ Head(wire[p].rp) = [kind |-> "SNAPSHOT_ACK", n |-> pr.sent]
    /\ pr'.conn = pr.conn /\ pr'.est = pr.est /\ pr'.sent = pr.sent
    /\ pr'.acked = pr.sent /\ pr'.discPending = pr.discPending
    /\ pr'.recvPosted = pr.recvPosted /\ pr'.cm = pr.cm
    /\ \A q \in Replica : q # p => wire'[q] = wire[q]
    /\ wire'[p] = [pr |-> wire[p].pr, rp |-> Tail(wire[p].rp)]
    /\ UNCHANGED <<pm, rr, tcp>>

\* The data part of the stream call holds a connection and an open snapshot.
LEMMA DataHeld ==
    ASSUME TypeInv, PrimaryData
    PROVE  /\ pr.conn \in Replica /\ pm.reader \in Nat
           /\ pm.state = "FULL_SYNC" /\ pr.cm = <<>> /\ pr.est /\ ~pr.discPending
<1>1. pr \in PrimaryRdma /\ pm \in PrimaryManager
    BY DEF TypeInv, TypeOK
<1>2. pr.conn # NoConn
    BY DEF TypeInv, ReaderOpen, PrimaryData, NoPrimaryRdma
<1>3. pm.reader # Closed
    BY DEF TypeInv, ReaderOpen, PrimaryData
<1> QED
    BY <1>1, <1>2, <1>3 DEF PrimaryRdma, PrimaryManager, PrimaryData

\* Sending the next chunk.
LEMMA SendChunkEffect ==
    ASSUME TypeOK, NEW p \in Replica, p = pr.conn, pm.reader \in Nat,
           NEW net \in [Replica -> Wire], SendChunk(pr, net), UNCHANGED <<rr, tcp>>,
           \A q \in Replica : q # p => net[q] = wire[q],
           net[p].pr = wire[p].pr,
           NEW n, n = Min2(ChunkCap, pm.reader)
    PROVE  ChunkSent(p, n, net[p].rp)
<1>1. pm \in PrimaryManager /\ pr \in PrimaryRdma
    BY DEF TypeOK
<1>2. n \in Nat /\ n <= pm.reader /\ (pm.reader > 0 => n > 0)
    BY ReplicationAssumption DEF Min2
<1>3. pm' = [pm EXCEPT !.reader = pm.reader - n]
    BY DEF SendChunk
<1>4. pr' = [pr EXCEPT !.sent = pr.sent + n, !.sendPending = TRUE]
    BY DEF SendChunk
<1>5. wire' = IF rr[p].conn
              THEN [net EXCEPT ![p].pr = Append(net[p].pr, NextChunk)]
              ELSE net
    BY DEF SendChunk
<1>6. /\ pm'.state = pm.state /\ pm'.conn = pm.conn /\ pm'.syncId = pm.syncId
      /\ pm'.offset = pm.offset /\ pm'.fileSize = pm.fileSize
      /\ pm'.aofPos = pm.aofPos /\ pm'.aofLeft = pm.aofLeft
      /\ pm'.reader = pm.reader - n
    BY <1>1, <1>3 DEF PrimaryManager
<1>7. /\ pr'.conn = pr.conn /\ pr'.est = pr.est /\ pr'.sent = pr.sent + n
      /\ pr'.acked = pr.acked /\ pr'.discPending = pr.discPending
      /\ pr'.recvPosted = pr.recvPosted /\ pr'.cm = pr.cm
    BY <1>1, <1>4 DEF PrimaryRdma
<1>8. wire'[p] = [pr |-> IF rr[p].conn THEN Append(wire[p].pr, NextChunk)
                        ELSE wire[p].pr,
                 rp |-> net[p].rp]
    BY <1>5 DEF Wire
<1>9. \A q \in Replica : q # p => wire'[q] = wire[q]
    BY <1>5
<1> QED
    BY <1>2, <1>6, <1>7, <1>8, <1>9 DEF ChunkSent

\* The next chunk, after the last one was acknowledged.
LEMMA SendNextEffect ==
    ASSUME TypeInv, PrimarySendNext, NEW p, p = pr.conn,
           NEW n, n = Min2(ChunkCap, pm.reader)
    PROVE  /\ p \in Replica /\ pm.state = "FULL_SYNC" /\ pr.cm = <<>> /\ pr.est
           /\ ~pr.discPending /\ pr.sent > 0 /\ pr.acked = pr.sent /\ pm.reader > 0
           /\ ChunkSent(p, n, wire[p].rp)
           /\ UNCHANGED <<db, aof, hist, snapFile, listenQ, rm, rs>>
<1>1. /\ pr.conn \in Replica /\ pm.reader \in Nat
      /\ pm.state = "FULL_SYNC" /\ pr.cm = <<>> /\ pr.est /\ ~pr.discPending
    BY DataHeld DEF PrimarySendNext
<1>2. wire \in [Replica -> Wire] /\ TypeOK
    BY DEF TypeInv, TypeOK
<1>3. SendChunk(pr, wire) /\ UNCHANGED <<rr, tcp>>
    BY DEF PrimarySendNext, replicaVars
<1>4. ChunkSent(p, n, wire[p].rp)
    BY <1>1, <1>2, <1>3, SendChunkEffect
<1> QED
    BY <1>1, <1>4 DEF PrimarySendNext, ChunkSettled, replicaVars

\* A message is taken.
LEMMA RecvEffect ==
    ASSUME TypeInv, PrimaryRecv, NEW p, p = pr.conn,
           NEW n, n = Min2(ChunkCap, pm.reader)
    PROVE  /\ p \in Replica /\ pm.state = "FULL_SYNC" /\ pr.cm = <<>> /\ pr.est
           /\ ~pr.discPending /\ wire[p].rp # <<>>
           /\ \/ AckTaken(p)
              \/ /\ pr.sent = 0 /\ Head(wire[p].rp) = [kind |-> "READY", n |-> pm.syncId]
                 /\ ChunkSent(p, n, Tail(wire[p].rp))
              \/ DropReplica(pm.conn)
           /\ UNCHANGED <<db, aof, hist, snapFile, listenQ, rm, rs>>
<1>1. /\ pr.conn \in Replica /\ pm.reader \in Nat
      /\ pm.state = "FULL_SYNC" /\ pr.cm = <<>> /\ pr.est /\ ~pr.discPending
    BY DataHeld DEF PrimaryRecv
<1>2. wire \in [Replica -> Wire] /\ TypeOK /\ pr \in PrimaryRdma /\ pr.sent \in Nat
    BY DEF TypeInv, TypeOK, PrimaryRdma
<1>3. wire[p].rp # <<>> /\ UNCHANGED <<db, aof, hist, snapFile, listenQ, rm, rs>>
    BY DEF PrimaryRecv
<1> DEFINE net == [wire EXCEPT ![p].rp = Tail(wire[p].rp)]
<1>4. /\ net \in [Replica -> Wire]
      /\ \A q \in Replica : q # p => net[q] = wire[q]
      /\ net[p] = [pr |-> wire[p].pr, rp |-> Tail(wire[p].rp)]
    <2>1. /\ wire[p] \in Wire /\ wire[p].rp \in Seq(RdmaMessage)
          /\ wire[p].pr \in Seq(Seq(SnapCell))
        BY <1>1, <1>2 DEF Wire
    <2>2. Tail(wire[p].rp) \in Seq(RdmaMessage)
        BY <1>3, <2>1
    <2>3. net[p] = [wire[p] EXCEPT !.rp = Tail(wire[p].rp)]
        BY <1>1, <1>2
    <2>4. net[p] = [pr |-> wire[p].pr, rp |-> Tail(wire[p].rp)]
        BY <2>1, <2>3 DEF Wire
    <2>5. net[p] \in Wire
        <3> HIDE DEF net
        <3> QED
            BY <2>1, <2>2, <2>4 DEF Wire
    <2>6. \A q \in Replica : q # p => net[q] = wire[q]
        BY <1>2
    <2>7. net = [wire EXCEPT ![p] = net[p]]
        BY <1>1, <1>2, <2>3
    <2> HIDE DEF net
    <2> QED
        BY <1>1, <1>2, <2>4, <2>5, <2>6, <2>7
<1>5. CASE pr.sent > 0
    <2>1. CASE /\ Head(wire[p].rp) = [kind |-> "SNAPSHOT_ACK", n |-> pr.sent]
               /\ pr.acked < pr.sent
        <3>1. pr' = [pr EXCEPT !.acked = pr.sent] /\ wire' = net /\ UNCHANGED <<pm, rr, tcp>>
            BY <1>5, <2>1 DEF PrimaryRecv
        <3>2. /\ pr'.conn = pr.conn /\ pr'.est = pr.est /\ pr'.sent = pr.sent
              /\ pr'.acked = pr.sent /\ pr'.discPending = pr.discPending
              /\ pr'.recvPosted = pr.recvPosted /\ pr'.cm = pr.cm
            BY <1>2, <3>1 DEF PrimaryRdma
        <3> HIDE DEF net
        <3>3. AckTaken(p)
            BY <1>4, <1>5, <2>1, <3>1, <3>2 DEF AckTaken
        <3> QED
            BY <1>1, <1>3, <3>3
    <2>2. CASE ~ /\ Head(wire[p].rp) = [kind |-> "SNAPSHOT_ACK", n |-> pr.sent]
                 /\ pr.acked < pr.sent
        <3>1. DropReplica(pm.conn)
            BY <1>5, <2>2 DEF PrimaryRecv
        <3> QED
            BY <1>1, <1>3, <3>1
    <2> QED
        BY <2>1, <2>2
<1>6. CASE ~(pr.sent > 0)
    <2>1. CASE IsReady(Head(wire[p].rp))
        <3>1. SendChunk(pr, net) /\ UNCHANGED <<rr, tcp>>
            BY <1>6, <2>1 DEF PrimaryRecv
        <3> HIDE DEF net
        <3>3. net[p].rp = Tail(wire[p].rp) /\ net[p].pr = wire[p].pr
            BY <1>4
        <3>2. ChunkSent(p, n, net[p].rp)
            BY <1>1, <1>2, <1>4, <3>1, <3>3, SendChunkEffect
        <3> QED
            BY <1>1, <1>2, <1>3, <1>6, <2>1, <3>2, <3>3 DEF IsReady
    <2>2. CASE ~IsReady(Head(wire[p].rp))
        <3>1. DropReplica(pm.conn)
            BY <1>6, <2>2 DEF PrimaryRecv
        <3> QED
            BY <1>1, <1>3, <3>1
    <2> QED
        BY <2>1, <2>2
<1> QED
    BY <1>5, <1>6

\* The last chunk is acknowledged: the Primary disconnects.
LEMMA DisconnectEffect ==
    ASSUME TypeOK, PrimaryDisconnect
    PROVE  /\ pr'.conn = pr.conn /\ pr'.est = pr.est /\ pr'.sent = pr.sent
           /\ pr'.acked = pr.acked /\ pr'.discPending /\ pr'.recvPosted = pr.recvPosted
           /\ Hurt(pr'.cm) /\ pr'.sendPending = pr.sendPending
           /\ pm'.state = pm.state /\ pm'.conn = pm.conn /\ pm'.syncId = pm.syncId
           /\ pm'.offset = pm.offset /\ pm'.fileSize = pm.fileSize
           /\ pm'.aofPos = pm.aofPos /\ pm'.aofLeft = pm.aofLeft
           /\ pm'.reader = Closed
           /\ pm.state = "FULL_SYNC" /\ pr.cm = <<>> /\ pr.est /\ ~pr.discPending
           /\ pm.reader = 0 /\ pr.sent > 0 /\ pr.acked = pr.sent
           /\ rr' = NotifyReplica(pr.conn, "DISCONNECTED")
           /\ UNCHANGED <<db, aof, hist, snapFile, listenQ, rm, rs, tcp, wire>>
<1>1. pm \in PrimaryManager /\ pr \in PrimaryRdma /\ pr.cm \in Seq(CmEvent)
    BY DEF TypeOK, PrimaryRdma
<1>2. pr' = [pr EXCEPT !.discPending = TRUE, !.cm = Append(pr.cm, "DISCONNECTED")]
    BY DEF PrimaryDisconnect
<1>3. pm' = [pm EXCEPT !.reader = Closed]
    BY DEF PrimaryDisconnect
<1>4. /\ pm'.state = pm.state /\ pm'.conn = pm.conn /\ pm'.syncId = pm.syncId
      /\ pm'.offset = pm.offset /\ pm'.fileSize = pm.fileSize
      /\ pm'.aofPos = pm.aofPos /\ pm'.aofLeft = pm.aofLeft
      /\ pm'.reader = Closed
    BY <1>1, <1>3 DEF PrimaryManager
<1>5. /\ pr'.conn = pr.conn /\ pr'.est = pr.est /\ pr'.sent = pr.sent
      /\ pr'.acked = pr.acked /\ pr'.discPending /\ pr'.recvPosted = pr.recvPosted
      /\ pr'.cm = Append(pr.cm, "DISCONNECTED") /\ pr'.sendPending = pr.sendPending
    BY <1>1, <1>2 DEF PrimaryRdma
<1>6. Hurt(pr'.cm)
    BY <1>1, <1>5, EventQueues
<1> QED
    BY <1>4, <1>5, <1>6 DEF PrimaryDisconnect, PrimaryData, ChunkSettled

\* A SEND completion of the Primary.
LEMMA SendDoneEffect ==
    ASSUME TypeOK, PrimarySendDone
    PROVE  /\ pr'.conn = pr.conn /\ pr'.est = pr.est /\ pr'.sent = pr.sent
           /\ pr'.acked = pr.acked /\ pr'.discPending = pr.discPending
           /\ pr'.recvPosted = pr.recvPosted /\ pr'.cm = pr.cm
           /\ UNCHANGED <<db, aof, hist, snapFile, pm, listenQ, rm, rr, rs, tcp, wire>>
<1>1. pr \in PrimaryRdma
    BY DEF TypeOK
<1> QED
    BY <1>1 DEF PrimarySendDone, PrimaryRdma, replicaVars


\* Where the stream to the slot owner stands.
SentPos == IF pm.aofLeft = Closed THEN pm.offset ELSE pm.aofPos

\* A block of n cells of the AOF from pos leaves, of a round that ends at end.
AofSent(state, pos, end, n) ==
    /\ n \in Nat /\ end \in Nat /\ pos \in Nat /\ pos + n <= end /\ end <= Len(aof)
    /\ pm'.state = state /\ pm'.conn = pm.conn /\ pm'.offset = pm.offset
    /\ pm'.fileSize = pm.fileSize /\ pm'.reader = Closed
    /\ pm'.aofPos = pos + n /\ pm'.aofLeft = end - pos - n
    /\ tcp' = Send(pm.conn, SubSeq(aof, pos + 1, pos + n))

\* ONLINE pos leaves.
OnlineSent(pos) ==
    /\ pos = Len(aof)
    /\ pm'.state = "ONLINE" /\ pm'.conn = pm.conn /\ pm'.offset = pos
    /\ pm'.fileSize = pm.fileSize /\ pm'.reader = Closed
    /\ pm'.aofPos = 0 /\ pm'.aofLeft = Closed
    /\ tcp' = Send(pm.conn, <<[line |-> "ONLINE", off |-> pos]>>)

\* What a send leaves: a closed Replica discards it.
LEMMA SendEffect ==
    ASSUME TypeOK, NEW r \in Replica, NEW tokens, tcp' = Send(r, tokens)
    PROVE  /\ \A q \in Replica : q # r => tcp'[q] = tcp[q]
           /\ tcp'[r].primary = tcp[r].primary
           /\ tcp'[r].r2p = tcp[r].r2p
           /\ tcp'[r].p2r = IF ReplicaClosed(r) THEN tcp[r].p2r
                            ELSE tcp[r].p2r \o tokens
<1>1. tcp \in [Replica -> TcpConn]
    BY DEF TypeOK
<1>2. CASE ReplicaClosed(r)
    BY <1>1, <1>2 DEF Send
<1>3. CASE ~ReplicaClosed(r)
    <2> DEFINE long == tcp[r].p2r \o tokens
    <2>1. tcp' = [tcp EXCEPT ![r].p2r = long]
        BY <1>3 DEF Send
    <2> HIDE DEF long
    <2>2. /\ \A q \in Replica : q # r => tcp'[q] = tcp[q]
          /\ tcp'[r] = [tcp[r] EXCEPT !.p2r = long]
        BY <1>1, <2>1
    <2>3. tcp'[r].primary = tcp[r].primary /\ tcp'[r].r2p = tcp[r].r2p /\ tcp'[r].p2r = long
        BY <1>1, <2>2 DEF TcpConn
    <2> QED
        BY <1>3, <2>2, <2>3 DEF long
<1> QED
    BY <1>2, <1>3

\* A block of the AOF is read and sent.
LEMMA SendAofEffect ==
    ASSUME TypeOK, NEW state, NEW pos \in Nat, NEW end \in Nat, pos <= end,
           end <= Len(aof), SendAof(state, pos, end)
    PROVE  \E n \in Nat : AofSent(state, pos, end, n)
<1> DEFINE n == Min2(ReadCap, end - pos)
<1>1. pm \in PrimaryManager
    BY DEF TypeOK
<1>2. n \in Nat /\ pos + n <= end
    BY ReplicationAssumption DEF Min2
<1>3. /\ pm' = [pm EXCEPT !.state = state, !.reader = Closed,
                          !.aofPos = pos + n, !.aofLeft = end - pos - n]
      /\ tcp' = Send(pm.conn, SubSeq(aof, pos + 1, pos + n))
    BY DEF SendAof
<1> HIDE DEF n
<1>4. /\ pm'.state = state /\ pm'.conn = pm.conn /\ pm'.offset = pm.offset
      /\ pm'.fileSize = pm.fileSize /\ pm'.reader = Closed
      /\ pm'.aofPos = pos + n /\ pm'.aofLeft = end - pos - n
    BY <1>1, <1>3 DEF PrimaryManager
<1> QED
    BY <1>2, <1>3, <1>4 DEF AofSent

\* ONLINE is announced.
LEMMA SendOnlineEffect ==
    ASSUME TypeOK, NEW pos, pos = Len(aof), SendOnline(pos)
    PROVE  OnlineSent(pos)
<1>1. pm \in PrimaryManager
    BY DEF TypeOK
<1>2. /\ pm' = [pm EXCEPT !.state = "ONLINE", !.reader = Closed, !.offset = pos,
                          !.aofPos = 0, !.aofLeft = Closed]
      /\ tcp' = Send(pm.conn, <<[line |-> "ONLINE", off |-> pos]>>)
    BY DEF SendOnline
<1>3. /\ pm'.state = "ONLINE" /\ pm'.conn = pm.conn /\ pm'.offset = pos
      /\ pm'.fileSize = pm.fileSize /\ pm'.reader = Closed
      /\ pm'.aofPos = 0 /\ pm'.aofLeft = Closed
    BY <1>1, <1>2 DEF PrimaryManager
<1> QED
    BY <1>2, <1>3 DEF OnlineSent

\* DISCONNECTED at the Primary: the stream starts, or the round fails.
LEMMA DisconnectedEffect ==
    ASSUME TypeInv, PrimaryDisconnected
    PROVE  /\ pm.state = "FULL_SYNC" /\ Hurt(pr.cm)
           /\ \/ DropReplica(pm.conn)
              \/ /\ pr.discPending /\ pr' = NoPrimaryRdma
                 /\ wire' = CutWire(pr.conn) /\ rr' = rr
                 /\ \/ \E n \in Nat : AofSent("CATCH_UP", pm.offset, Len(aof), n)
                    \/ OnlineSent(pm.offset)
           /\ UNCHANGED <<db, aof, hist, snapFile, listenQ, rm, rs>>
<1>1. /\ pm \in PrimaryManager /\ pm.offset \in Nat /\ aof \in Seq(Cell) /\ Len(aof) \in Nat
      /\ pm.offset <= Len(aof) /\ TypeOK /\ pr \in PrimaryRdma /\ pr.cm \in Seq(CmEvent)
    BY DEF TypeInv, TypeOK, ReadersInBounds, PrimaryManager, PrimaryRdma
<1>2. Hurt(pr.cm)
    BY <1>1, EventEnds DEF PrimaryDisconnected, PrimaryCmEvent
<1>3. pm.state = "FULL_SYNC" /\ UNCHANGED <<db, aof, hist, snapFile, listenQ, rm, rs>>
    BY DEF PrimaryDisconnected, PrimaryCmEvent
<1>4. CASE TransferComplete
    <2>1. /\ pr.discPending /\ pr' = NoPrimaryRdma
          /\ wire' = CutWire(pr.conn) /\ rr' = rr
          /\ IF Len(aof) > pm.offset
             THEN SendAof("CATCH_UP", pm.offset, Len(aof))
             ELSE SendOnline(pm.offset)
        BY <1>4 DEF PrimaryDisconnected, TransferComplete
    <2>2. CASE Len(aof) > pm.offset
        <3>1. \E n \in Nat : AofSent("CATCH_UP", pm.offset, Len(aof), n)
            BY <1>1, <2>1, <2>2, SendAofEffect
        <3> QED
            BY <1>2, <1>3, <2>1, <3>1
    <2>3. CASE ~(Len(aof) > pm.offset)
        <3>1. pm.offset = Len(aof)
            BY <1>1, <2>3
        <3>2. OnlineSent(pm.offset)
            BY <1>1, <2>1, <2>3, <3>1, SendOnlineEffect
        <3> QED
            BY <1>2, <1>3, <2>1, <3>2
    <2> QED
        BY <2>2, <2>3
<1>5. CASE ~TransferComplete
    BY <1>2, <1>3, <1>5 DEF PrimaryDisconnected
<1> QED
    BY <1>4, <1>5

\* The stream of the AOF goes on.
LEMMA StreamEffect ==
    ASSUME TypeInv, PrimarySendAof \/ PrimaryNextRound \/ PrimaryCaughtUp \/ PrimaryResume
    PROVE  /\ pm.conn \in Replica /\ pm.state \in {"CATCH_UP", "ONLINE"}
           /\ SentPos \in Nat /\ SentPos <= Len(aof)
           /\ \/ \E end, n \in Nat : AofSent(pm.state, SentPos, end, n)
              \/ OnlineSent(SentPos)
              \/ /\ pm.aofLeft # Closed /\ pm.state = "ONLINE" /\ tcp' = tcp
                 /\ pm'.state = pm.state /\ pm'.conn = pm.conn
                 /\ pm'.offset = SentPos /\ pm'.aofLeft = Closed
                 /\ pm'.reader = pm.reader
           /\ UNCHANGED <<db, aof, hist, snapFile, pr, listenQ, rm, rr, rs, wire>>
<1>1. /\ pm \in PrimaryManager /\ pm.offset \in Nat /\ aof \in Seq(Cell) /\ Len(aof) \in Nat
      /\ pm.offset <= Len(aof) /\ TypeOK /\ pm.aofPos \in Nat /\ pm.aofLeft \in Nat \cup {Closed}
      /\ pm.aofLeft # Closed => pm.aofPos + pm.aofLeft <= Len(aof)
    BY DEF TypeInv, TypeOK, ReadersInBounds, PrimaryManager
<1>2. /\ PrimaryStreams /\ pm.conn \in Replica /\ pm.state \in {"CATCH_UP", "ONLINE"}
      /\ UNCHANGED <<db, aof, hist, snapFile, pr, listenQ, rm, rr, rs, wire>>
    BY <1>1 DEF PrimarySendAof, PrimaryNextRound, PrimaryCaughtUp, PrimaryResume,
                PrimaryStreams, replicaVars, PrimaryManager
<1>3. SentPos \in Nat /\ SentPos <= Len(aof)
    BY <1>1 DEF SentPos, Closed
<1>4. CASE PrimarySendAof
    <2>1. /\ pm.aofLeft \in Nat /\ SentPos = pm.aofPos
          /\ SendAof(pm.state, pm.aofPos, pm.aofPos + pm.aofLeft)
        BY <1>1, <1>4 DEF PrimarySendAof, SentPos, Closed
    <2>2. \E n \in Nat : AofSent(pm.state, pm.aofPos, pm.aofPos + pm.aofLeft, n)
        BY <1>1, <2>1, SendAofEffect DEF Closed
    <2> QED
        BY <1>1, <1>2, <1>3, <2>1, <2>2
<1>5. CASE PrimaryNextRound
    <2>1. /\ SentPos = pm.aofPos /\ Len(aof) > pm.aofPos
          /\ SendAof(pm.state, pm.aofPos, Len(aof))
        BY <1>1, <1>5 DEF PrimaryNextRound, SentPos, Closed
    <2>2. \E n \in Nat : AofSent(pm.state, pm.aofPos, Len(aof), n)
        BY <1>1, <2>1, SendAofEffect
    <2> QED
        BY <1>1, <1>2, <1>3, <2>1, <2>2
<1>6. CASE PrimaryResume
    <2>1. /\ SentPos = pm.offset /\ Len(aof) > pm.offset /\ pm.state = "ONLINE"
          /\ SendAof(pm.state, pm.offset, Len(aof))
        BY <1>1, <1>6 DEF PrimaryResume, SentPos, Closed
    <2>2. \E n \in Nat : AofSent(pm.state, pm.offset, Len(aof), n)
        BY <1>1, <2>1, SendAofEffect
    <2> QED
        BY <1>1, <1>2, <1>3, <2>1, <2>2
<1>7. CASE PrimaryCaughtUp
    <2>1. SentPos = pm.aofPos /\ Len(aof) = pm.aofPos /\ pm.aofLeft # Closed
        BY <1>1, <1>7 DEF PrimaryCaughtUp, SentPos, Closed
    <2>2. CASE pm.state = "ONLINE"
        <3>1. pm' = [pm EXCEPT !.offset = pm.aofPos, !.aofPos = 0, !.aofLeft = Closed] /\ tcp' = tcp
            BY <1>7, <2>2 DEF PrimaryCaughtUp
        <3>2. /\ pm'.state = pm.state /\ pm'.conn = pm.conn
              /\ pm'.offset = SentPos /\ pm'.aofLeft = Closed /\ pm'.reader = pm.reader
            BY <1>1, <2>1, <3>1 DEF PrimaryManager
        <3> QED
            BY <1>2, <1>3, <2>1, <2>2, <3>1, <3>2
    <2>3. CASE pm.state # "ONLINE"
        <3>1. SendOnline(pm.aofPos)
            BY <1>7, <2>3 DEF PrimaryCaughtUp
        <3>2. OnlineSent(SentPos)
            BY <1>1, <2>1, <3>1, SendOnlineEffect
        <3> QED
            BY <1>2, <1>3, <3>2
    <2> QED
        BY <2>2, <2>3
<1> QED
    BY <1>4, <1>5, <1>6, <1>7

-----------------------------------------------------------------------------
(* What the steps of a Replica change, field by field.                      *)

Alone(r) == \A q \in Replica : q # r => Unmoved(q)

\* Nothing of the Primary but its RDMA connection may change.
PrimaryKept == UNCHANGED <<db, aof, hist, snapFile, pm, listenQ>>

\* A Replica connects.
LEMMA ConnectEffect ==
    ASSUME TypeOK, NEW r \in Replica, ReplicaConnect(r)
    PROVE  /\ Alone(r) /\ PrimaryKept /\ pr' = pr
           /\ rm[r].state = "DOWN" /\ rm'[r].state = "HANDSHAKE"
           /\ rr'[r] = rr[r] /\ rs'[r] = rs[r] /\ wire'[r] = wire[r]
           /\ tcp'[r].primary = "open" /\ tcp'[r].r2p = <<"PING">>
           /\ tcp'[r].p2r = tcp[r].p2r
<1>1. rm \in [Replica -> ReplicaManager] /\ tcp \in [Replica -> TcpConn]
    BY DEF TypeOK
<1>2. /\ rm' = [rm EXCEPT ![r].state = "HANDSHAKE"]
      /\ tcp' = [tcp EXCEPT ![r].primary = "open", ![r].r2p = <<"PING">>]
      /\ UNCHANGED <<db, aof, hist, snapFile, pm, listenQ, pr, rr, rs, wire>>
      /\ rm[r].state = "DOWN"
    BY DEF ReplicaConnect, primaryVars
<1>3. rm'[r].state = "HANDSHAKE"
    BY <1>1, <1>2 DEF ReplicaManager
<1>4. tcp'[r] = [tcp[r] EXCEPT !.primary = "open", !.r2p = <<"PING">>]
    BY <1>1, <1>2
<1>5. /\ tcp'[r].primary = "open" /\ tcp'[r].r2p = <<"PING">>
      /\ tcp'[r].p2r = tcp[r].p2r
    BY <1>1, <1>4 DEF TcpConn
<1>6. Alone(r)
    BY <1>1, <1>2 DEF Alone, Unmoved
<1> QED
    BY <1>2, <1>3, <1>5, <1>6 DEF PrimaryKept

\* PONG is answered.
PongTaken(r) ==
    /\ Head(tcp[r].p2r) = Pong
    /\ pr' = pr /\ rm'[r] = rm[r] /\ rr'[r] = rr[r] /\ rs'[r] = rs[r]
    /\ wire'[r] = wire[r]
    /\ tcp'[r].p2r = Tail(tcp[r].p2r) /\ tcp'[r].primary = tcp[r].primary
    /\ tcp'[r].r2p = Append(tcp[r].r2p, "PSYNC")

\* FULLRESYNC_RDMA opens the round on the Replica's side.
ResyncTaken(r, line) ==
    /\ line = Head(tcp[r].p2r) /\ line \in FullResync
    /\ pr' = pr /\ wire'[r] = wire[r]
    /\ rm'[r].state = "FULL_SYNC" /\ rm'[r].syncId = line.id
    /\ rm'[r].offset = line.off /\ rm'[r].fileSize = line.size
    /\ rm'[r].writer = line.size
    /\ rr'[r] = [rr[r] EXCEPT !.conn = TRUE, !.cm = <<"ADDR_RESOLVED">>]
    /\ rs'[r] = [rs[r] EXCEPT !.tmp = <<>>]
    /\ tcp'[r].p2r = Tail(tcp[r].p2r) /\ tcp'[r].primary = tcp[r].primary
    /\ tcp'[r].r2p = tcp[r].r2p

\* A line of the handshake is handled.
LEMMA HandshakeEffect ==
    ASSUME TypeOK, NEW r \in Replica, ReplicaHandshake(r), NEW line, line = Head(tcp[r].p2r)
    PROVE  /\ Alone(r) /\ PrimaryKept
           /\ rm[r].state = "HANDSHAKE" /\ ~rr[r].conn /\ tcp[r].p2r # <<>>
           /\ PongTaken(r) \/ ResyncTaken(r, line) \/ DropPrimary(r, rs[r])
<1>1. /\ rm \in [Replica -> ReplicaManager] /\ tcp \in [Replica -> TcpConn]
      /\ rr \in [Replica -> ReplicaRdma] /\ rs \in [Replica -> ReplicaStore]
    BY DEF TypeOK
<1>2. /\ PrimaryKept /\ rm[r].state = "HANDSHAKE" /\ ~rr[r].conn /\ tcp[r].p2r # <<>>
    BY DEF ReplicaHandshake, ReplicaReads, PrimaryKept
<1>3. CASE line = Pong
    <2>1. /\ tcp' = [tcp EXCEPT ![r].p2r = Tail(tcp[r].p2r),
                                ![r].r2p = Append(tcp[r].r2p, "PSYNC")]
          /\ UNCHANGED <<rm, rr, rs, pr, wire>>
        BY <1>3 DEF ReplicaHandshake
    <2>2. tcp'[r] = [tcp[r] EXCEPT !.p2r = Tail(tcp[r].p2r),
                                   !.r2p = Append(tcp[r].r2p, "PSYNC")]
        BY <1>1, <2>1
    <2>3. /\ tcp'[r].p2r = Tail(tcp[r].p2r) /\ tcp'[r].primary = tcp[r].primary
          /\ tcp'[r].r2p = Append(tcp[r].r2p, "PSYNC")
        BY <1>1, <2>2 DEF TcpConn
    <2>4. Alone(r)
        BY <1>1, <2>1 DEF Alone, Unmoved
    <2>5. PongTaken(r)
        BY <1>3, <2>1, <2>3 DEF PongTaken
    <2> QED
        BY <1>2, <2>4, <2>5
<1>4. CASE line # Pong /\ line \in FullResync
    <2>1. /\ rm' = [rm EXCEPT ![r].state = "FULL_SYNC", ![r].syncId = line.id,
                              ![r].offset = line.off, ![r].fileSize = line.size,
                              ![r].writer = line.size]
          /\ rs' = [rs EXCEPT ![r].tmp = <<>>]
          /\ rr' = [rr EXCEPT ![r].conn = TRUE, ![r].cm = <<"ADDR_RESOLVED">>]
          /\ tcp' = [tcp EXCEPT ![r].p2r = Tail(tcp[r].p2r)]
          /\ UNCHANGED <<pr, wire>>
        BY <1>4 DEF ReplicaHandshake
    <2>2. /\ tcp'[r] = [tcp[r] EXCEPT !.p2r = Tail(tcp[r].p2r)]
          /\ rs'[r] = [rs[r] EXCEPT !.tmp = <<>>]
          /\ rr'[r] = [rr[r] EXCEPT !.conn = TRUE, !.cm = <<"ADDR_RESOLVED">>]
          /\ rm'[r] = [rm[r] EXCEPT !.state = "FULL_SYNC", !.syncId = line.id,
                              !.offset = line.off, !.fileSize = line.size,
                              !.writer = line.size]
        BY <1>1, <2>1
    <2>3. /\ tcp'[r].p2r = Tail(tcp[r].p2r) /\ tcp'[r].primary = tcp[r].primary
          /\ tcp'[r].r2p = tcp[r].r2p
        BY <1>1, <2>2 DEF TcpConn
    <2>4. /\ rm'[r].state = "FULL_SYNC" /\ rm'[r].syncId = line.id
          /\ rm'[r].offset = line.off /\ rm'[r].fileSize = line.size
          /\ rm'[r].writer = line.size
        BY <1>1, <2>2 DEF ReplicaManager
    <2>5. Alone(r)
        BY <1>1, <2>1 DEF Alone, Unmoved
    <2>6. ResyncTaken(r, line)
        BY <1>4, <2>1, <2>2, <2>3, <2>4 DEF ResyncTaken
    <2> QED
        BY <1>2, <2>5, <2>6
<1>5. CASE line # Pong /\ line \notin FullResync
    <2>1. DropPrimary(r, rs[r])
        BY <1>5 DEF ReplicaHandshake
    <2> QED
        BY <1>2, <2>1, DropPrimaryEffect DEF Alone
<1> QED
    BY <1>3, <1>4, <1>5

\* A cell is put aside, or completes a command.
CellKept(r, input) ==
    /\ Len(input) < CmdLen
    /\ rs'[r] = [rs[r] EXCEPT !.buf = input]
    /\ rm'[r] = rm[r]

CommandDone(r, input) ==
    /\ input = Encode(input[1].cmd)
    /\ Hole # input[1]
    /\ ExecStatus(rs[r].db, input[1].cmd) = "OK"
    /\ rs'[r] = [rs[r] EXCEPT !.db = Execute(rs[r].db, input[1].cmd),
                              !.aof = rs[r].aof \o input, !.buf = <<>>]
    /\ rm'[r] = [rm[r] EXCEPT !.offset = Len(rs[r].aof) + Len(input)]

\* One token is taken from the stream and nothing is said.
TokenTaken(r) ==
    /\ pr' = pr /\ rr'[r] = rr[r] /\ wire'[r] = wire[r]
    /\ tcp'[r].p2r = Tail(tcp[r].p2r) /\ tcp'[r].primary = tcp[r].primary
    /\ tcp'[r].r2p = tcp[r].r2p

\* A cell of the AOF is handled.
LEMMA CatchUpEffect ==
    ASSUME TypeOK, NEW r \in Replica, ReplicaCatchUp(r),
           NEW input, input = Append(rs[r].buf, Head(tcp[r].p2r))
    PROVE  /\ Alone(r) /\ PrimaryKept
           /\ rm[r].state \in {"CATCH_UP", "ONLINE"} /\ ~rr[r].conn /\ tcp[r].p2r # <<>>
           /\ Head(tcp[r].p2r) \in Cell
           /\ \/ TokenTaken(r) /\ CellKept(r, input)
              \/ TokenTaken(r) /\ CommandDone(r, input)
              \/ /\ DropPrimary(r, rs[r])
                 /\ ~(Len(input) < CmdLen)
                 /\ ~ /\ Hole # input[1]
                      /\ input = Encode(input[1].cmd)
                      /\ ExecStatus(rs[r].db, input[1].cmd) = "OK"
<1>1. /\ rm \in [Replica -> ReplicaManager] /\ tcp \in [Replica -> TcpConn]
      /\ rr \in [Replica -> ReplicaRdma] /\ rs \in [Replica -> ReplicaStore]
    BY DEF TypeOK
<1>2. /\ PrimaryKept /\ rm[r].state \in {"CATCH_UP", "ONLINE"} /\ ~rr[r].conn
      /\ tcp[r].p2r # <<>> /\ Head(tcp[r].p2r) \in Cell
    BY DEF ReplicaCatchUp, ReplicaReads, PrimaryKept
<1> DEFINE Good == /\ Hole # input[1]
                   /\ input = Encode(input[1].cmd)
                   /\ ExecStatus(rs[r].db, input[1].cmd) = "OK"
<1>3. ASSUME tcp' = [tcp EXCEPT ![r].p2r = Tail(tcp[r].p2r)], UNCHANGED <<rr, pr, wire>>
      PROVE  TokenTaken(r) /\ \A q \in Replica : q # r => tcp'[q] = tcp[q]
    <2>1. tcp'[r] = [tcp[r] EXCEPT !.p2r = Tail(tcp[r].p2r)]
        BY <1>1, <1>3
    <2>2. /\ tcp'[r].p2r = Tail(tcp[r].p2r) /\ tcp'[r].primary = tcp[r].primary
          /\ tcp'[r].r2p = tcp[r].r2p
        BY <1>1, <2>1 DEF TcpConn
    <2> QED
        BY <1>1, <1>3, <2>2 DEF TokenTaken
<1>4. CASE Len(input) < CmdLen
    <2>1. /\ rs' = [rs EXCEPT ![r].buf = input]
          /\ tcp' = [tcp EXCEPT ![r].p2r = Tail(tcp[r].p2r)]
          /\ UNCHANGED <<rm, rr, pr, wire>>
        BY <1>4 DEF ReplicaCatchUp
    <2>2. TokenTaken(r) /\ \A q \in Replica : q # r => tcp'[q] = tcp[q]
        BY <2>1, <1>3
    <2>3. CellKept(r, input)
        BY <1>1, <1>4, <2>1 DEF CellKept
    <2>4. Alone(r)
        BY <1>1, <2>1, <2>2 DEF Alone, Unmoved
    <2> QED
        BY <1>2, <2>2, <2>3, <2>4
<1>5. CASE ~(Len(input) < CmdLen) /\ Good
    <2>1. /\ rs' = [rs EXCEPT ![r].db = Execute(rs[r].db, input[1].cmd),
                              ![r].aof = rs[r].aof \o input, ![r].buf = <<>>]
          /\ rm' = [rm EXCEPT ![r].offset = Len(rs[r].aof) + Len(input)]
          /\ tcp' = [tcp EXCEPT ![r].p2r = Tail(tcp[r].p2r)]
          /\ UNCHANGED <<rr, pr, wire>>
        BY <1>5 DEF ReplicaCatchUp
    <2>2. TokenTaken(r) /\ \A q \in Replica : q # r => tcp'[q] = tcp[q]
        BY <2>1, <1>3
    <2>3. /\ rs'[r] = [rs[r] EXCEPT !.db = Execute(rs[r].db, input[1].cmd),
                              !.aof = rs[r].aof \o input, !.buf = <<>>]
          /\ rm'[r] = [rm[r] EXCEPT !.offset = Len(rs[r].aof) + Len(input)]
          /\ \A q \in Replica : q # r => rs'[q] = rs[q] /\ rm'[q] = rm[q]
        BY <1>1, <2>1
    <2>4. Alone(r)
        BY <2>1, <2>2, <2>3 DEF Alone, Unmoved
    <2>5. CommandDone(r, input)
        BY <1>5, <2>3 DEF CommandDone
    <2> QED
        BY <1>2, <2>2, <2>4, <2>5
<1>6. CASE ~(Len(input) < CmdLen) /\ ~Good
    <2>1. DropPrimary(r, rs[r])
        BY <1>6 DEF ReplicaCatchUp
    <2>2. Alone(r)
        BY <2>1, DropPrimaryEffect DEF Alone
    <2> QED
        BY <1>2, <1>6, <2>1, <2>2
<1> QED
    BY <1>4, <1>5, <1>6

\* A control line is handled.
LEMMA ControlLineEffect ==
    ASSUME TypeOK, NEW r \in Replica, ReplicaControlLine(r),
           NEW line, line = Head(tcp[r].p2r)
    PROVE  /\ Alone(r) /\ PrimaryKept
           /\ rm[r].state \in {"CATCH_UP", "ONLINE"} /\ ~rr[r].conn /\ tcp[r].p2r # <<>>
           /\ line \notin Cell
           /\ \/ /\ TokenTaken(r) /\ rs'[r] = rs[r]
                 /\ line \in OnlineLine /\ rs[r].buf = <<>> /\ line.off = Len(rs[r].aof)
                 /\ rm'[r] = [rm[r] EXCEPT !.state = "ONLINE", !.offset = line.off]
                 /\ rm'[r].state = "ONLINE"
              \/ DropPrimary(r, rs[r])
<1>1. /\ rm \in [Replica -> ReplicaManager] /\ tcp \in [Replica -> TcpConn]
      /\ rr \in [Replica -> ReplicaRdma] /\ rs \in [Replica -> ReplicaStore]
    BY DEF TypeOK
<1>2. /\ PrimaryKept /\ rm[r].state \in {"CATCH_UP", "ONLINE"} /\ ~rr[r].conn
      /\ tcp[r].p2r # <<>> /\ line \notin Cell
    BY DEF ReplicaControlLine, ReplicaReads, PrimaryKept
<1>3. CASE line \in OnlineLine /\ rs[r].buf = <<>> /\ line.off = Len(rs[r].aof)
    <2>1. /\ rm' = [rm EXCEPT ![r].state = "ONLINE", ![r].offset = line.off]
          /\ tcp' = [tcp EXCEPT ![r].p2r = Tail(tcp[r].p2r)]
          /\ UNCHANGED <<rr, rs, pr, wire>>
        BY <1>3 DEF ReplicaControlLine
    <2>2. /\ tcp'[r] = [tcp[r] EXCEPT !.p2r = Tail(tcp[r].p2r)]
          /\ rm'[r] = [rm[r] EXCEPT !.state = "ONLINE", !.offset = line.off]
          /\ Alone(r)
        BY <1>1, <2>1 DEF Alone, Unmoved
    <2>3. /\ tcp'[r].p2r = Tail(tcp[r].p2r) /\ tcp'[r].primary = tcp[r].primary
          /\ tcp'[r].r2p = tcp[r].r2p
        BY <1>1, <2>2 DEF TcpConn
    <2>4. TokenTaken(r)
        BY <2>1, <2>3 DEF TokenTaken
    <2>5. rm'[r].state = "ONLINE"
        BY <1>1, <2>2 DEF ReplicaManager
    <2> QED
        BY <1>2, <1>3, <2>1, <2>2, <2>4, <2>5
<1>4. CASE ~(line \in OnlineLine /\ rs[r].buf = <<>> /\ line.off = Len(rs[r].aof))
    <2>1. DropPrimary(r, rs[r])
        BY <1>4 DEF ReplicaControlLine
    <2>2. Alone(r)
        BY <2>1, DropPrimaryEffect DEF Alone
    <2> QED
        BY <1>2, <2>1, <2>2
<1> QED
    BY <1>3, <1>4

\* The Replica's own fields of the transfer are as before.
TransferKept(r) ==
    /\ rr'[r].bytes = rr[r].bytes /\ rr'[r].acked = rr[r].acked

\* ADDR_RESOLVED.
LEMMA ResolveEffect ==
    ASSUME TypeOK, NEW r \in Replica, ReplicaResolveRoute(r)
    PROVE  /\ Alone(r) /\ PrimaryKept /\ UNCHANGED <<pr, rm, rs, tcp, wire>>
           /\ rr[r].conn /\ rr[r].cm \in Seq(CmEvent) /\ rr[r].cm # <<>>
           /\ Head(rr[r].cm) = "ADDR_RESOLVED"
           /\ rr'[r].conn /\ rr'[r].est = rr[r].est /\ rr'[r].recvPosted = rr[r].recvPosted
           /\ rr'[r].cm = Append(Tail(rr[r].cm), "ROUTE_RESOLVED")
           /\ TransferKept(r)
<1>1. rr \in [Replica -> ReplicaRdma]
    BY DEF TypeOK
<1>2. /\ rr' = [rr EXCEPT ![r].cm = Append(Tail(rr[r].cm), "ROUTE_RESOLVED")]
      /\ UNCHANGED <<db, aof, hist, snapFile, pm, listenQ, pr, rm, rs, tcp, wire>>
      /\ rr[r].conn /\ rr[r].cm # <<>> /\ Head(rr[r].cm) = "ADDR_RESOLVED"
    BY DEF ReplicaResolveRoute, ReplicaCmEvent, primaryVars
<1> DEFINE next == Append(Tail(rr[r].cm), "ROUTE_RESOLVED")
<1>3. rr' = [rr EXCEPT ![r].cm = next]
    BY <1>2
<1> HIDE DEF next
<1>4. /\ rr'[r].conn = rr[r].conn /\ rr'[r].est = rr[r].est
      /\ rr'[r].recvPosted = rr[r].recvPosted /\ rr'[r].cm = next /\ TransferKept(r)
    BY <1>1, <1>3 DEF ReplicaRdma, TransferKept
<1>5. Alone(r)
    BY <1>1, <1>2, <1>3 DEF Alone, Unmoved
<1>6. rr[r].cm \in Seq(CmEvent)
    BY <1>1 DEF ReplicaRdma
<1> QED
    BY <1>2, <1>4, <1>5, <1>6 DEF PrimaryKept, next

\* ROUTE_RESOLVED.
LEMMA RdmaConnectEffect ==
    ASSUME TypeOK, NEW r \in Replica, ReplicaRdmaConnect(r)
    PROVE  /\ Alone(r) /\ UNCHANGED <<db, aof, hist, snapFile, pm, pr, rm, rs, tcp, wire>>
           /\ listenQ' = Append(listenQ, r)
           /\ rr[r].conn /\ rr[r].cm \in Seq(CmEvent) /\ rr[r].cm # <<>>
           /\ Head(rr[r].cm) = "ROUTE_RESOLVED"
           /\ rr'[r].conn /\ rr'[r].est = rr[r].est /\ rr'[r].recvPosted
           /\ rr'[r].cm = Tail(rr[r].cm)
           /\ TransferKept(r)
<1>1. rr \in [Replica -> ReplicaRdma]
    BY DEF TypeOK
<1> DEFINE next == Tail(rr[r].cm)
<1>2. /\ rr' = [rr EXCEPT ![r].cm = next, ![r].recvPosted = TRUE]
      /\ UNCHANGED <<db, aof, hist, snapFile, pm, pr, rm, rs, tcp, wire>>
      /\ listenQ' = Append(listenQ, r)
      /\ rr[r].conn /\ rr[r].cm # <<>> /\ Head(rr[r].cm) = "ROUTE_RESOLVED"
    BY DEF ReplicaRdmaConnect, ReplicaCmEvent
<1> HIDE DEF next
<1>3. rr'[r] = [rr[r] EXCEPT !.cm = next, !.recvPosted = TRUE]
    BY <1>1, <1>2
<1>4. /\ rr'[r].conn = rr[r].conn /\ rr'[r].est = rr[r].est
      /\ rr'[r].recvPosted /\ rr'[r].cm = next /\ TransferKept(r)
    BY <1>1, <1>3 DEF ReplicaRdma, TransferKept
<1>5. Alone(r)
    BY <1>1, <1>2 DEF Alone, Unmoved
<1>6. rr[r].cm \in Seq(CmEvent)
    BY <1>1 DEF ReplicaRdma
<1> QED
    BY <1>2, <1>4, <1>5, <1>6 DEF next

\* A message leaves for the Primary, if it holds the connection.
MessageSent(r, msg) ==
    wire'[r] = IF pr.conn = r
               THEN [pr |-> wire[r].pr, rp |-> Append(wire[r].rp, msg)]
               ELSE wire[r]

\* A message to the Primary arrives there if its end still exists.
LEMMA MessageEffect ==
    ASSUME TypeOK, NEW r \in Replica, NEW msg, wire' = SendToPrimary(r, msg)
    PROVE  MessageSent(r, msg) /\ \A q \in Replica : q # r => wire'[q] = wire[q]
<1>1. wire \in [Replica -> Wire]
    BY DEF TypeOK
<1> DEFINE long == Append(wire[r].rp, msg)
<1>2. wire' = IF pr.conn = r THEN [wire EXCEPT ![r].rp = long] ELSE wire
    BY DEF SendToPrimary
<1> HIDE DEF long
<1>3. pr.conn = r => wire'[r] = [pr |-> wire[r].pr, rp |-> long]
    BY <1>1, <1>2 DEF Wire
<1> QED
    BY <1>1, <1>2, <1>3 DEF MessageSent, long

\* ESTABLISHED at the Replica.
LEMMA ReplicaEstablishedEffect ==
    ASSUME TypeOK, NEW r \in Replica, ReplicaEstablished(r)
    PROVE  /\ Alone(r) /\ PrimaryKept /\ UNCHANGED <<pr, rm, rs, tcp>>
           /\ MessageSent(r, [kind |-> "READY", n |-> rm[r].syncId])
           /\ rr[r].conn /\ rr[r].cm \in Seq(CmEvent) /\ rr[r].cm # <<>>
           /\ Head(rr[r].cm) = "ESTABLISHED"
           /\ rr'[r].conn /\ rr'[r].est /\ rr'[r].recvPosted = rr[r].recvPosted
           /\ rr'[r].cm = Tail(rr[r].cm)
           /\ TransferKept(r)
<1>1. rr \in [Replica -> ReplicaRdma] /\ wire \in [Replica -> Wire]
    BY DEF TypeOK
<1> DEFINE next == Tail(rr[r].cm)
<1>2. /\ rr' = [rr EXCEPT ![r].cm = next, ![r].est = TRUE, ![r].sendPending = TRUE]
      /\ UNCHANGED <<db, aof, hist, snapFile, pm, listenQ, pr, rm, rs, tcp>>
      /\ wire' = SendToPrimary(r, [kind |-> "READY", n |-> rm[r].syncId])
      /\ rr[r].conn /\ rr[r].cm # <<>> /\ Head(rr[r].cm) = "ESTABLISHED"
    BY DEF ReplicaEstablished, ReplicaCmEvent, primaryVars
<1> HIDE DEF next
<1>3. rr'[r] = [rr[r] EXCEPT !.cm = next, !.est = TRUE, !.sendPending = TRUE]
    BY <1>1, <1>2
<1>4. /\ rr'[r].conn = rr[r].conn /\ rr'[r].est
      /\ rr'[r].recvPosted = rr[r].recvPosted /\ rr'[r].cm = next /\ TransferKept(r)
    BY <1>1, <1>3 DEF ReplicaRdma, TransferKept
<1>5. /\ MessageSent(r, [kind |-> "READY", n |-> rm[r].syncId])
      /\ \A q \in Replica : q # r => wire'[q] = wire[q]
    BY <1>2, MessageEffect
<1>6. Alone(r)
    BY <1>1, <1>2, <1>5 DEF Alone, Unmoved
<1>7. rr[r].cm \in Seq(CmEvent)
    BY <1>1 DEF ReplicaRdma
<1> QED
    BY <1>2, <1>4, <1>5, <1>6, <1>7 DEF PrimaryKept, next

\* DISCONNECTED at the Replica: the normal end, or the connection is dropped.
LEMMA ReplicaDisconnectedEffect ==
    ASSUME TypeOK, NEW r \in Replica, ReplicaDisconnected(r)
    PROVE  /\ Alone(r) /\ PrimaryKept
           /\ rr[r].conn /\ rr[r].cm \in Seq(CmEvent) /\ Hurt(rr[r].cm)
           /\ \/ /\ rm[r].state = "CATCH_UP" /\ rr[r].bytes = rm[r].fileSize
                 /\ rr[r].acked = rr[r].bytes
                 /\ rr'[r] = NoReplicaRdma /\ wire'[r] = EmptyWire
                 /\ UNCHANGED <<rm, rs, tcp, pr>>
              \/ DropPrimary(r, rs[r])
<1>1. rr \in [Replica -> ReplicaRdma] /\ wire \in [Replica -> Wire]
    BY DEF TypeOK
<1>2. PrimaryKept /\ rr[r].conn /\ rr[r].cm # <<>> /\ Head(rr[r].cm) = "DISCONNECTED"
    BY DEF ReplicaDisconnected, ReplicaCmEvent, PrimaryKept
<1>3. rr[r].cm \in Seq(CmEvent)
    BY <1>1 DEF ReplicaRdma
<1>4. Hurt(rr[r].cm)
    BY <1>2, <1>3, EventEnds
<1>5. CASE /\ rm[r].state = "CATCH_UP" /\ rr[r].bytes = rm[r].fileSize
           /\ rr[r].acked = rr[r].bytes
    <2>1. /\ rr' = [rr EXCEPT ![r] = NoReplicaRdma]
          /\ wire' = [wire EXCEPT ![r] = EmptyWire]
          /\ UNCHANGED <<rm, rs, tcp, pr>>
        BY <1>5 DEF ReplicaDisconnected
    <2>2. Alone(r) /\ rr'[r] = NoReplicaRdma /\ wire'[r] = EmptyWire
        BY <1>1, <2>1 DEF Alone, Unmoved
    <2> QED
        BY <1>2, <1>3, <1>4, <1>5, <2>1, <2>2
<1>6. CASE ~ /\ rm[r].state = "CATCH_UP" /\ rr[r].bytes = rm[r].fileSize
             /\ rr[r].acked = rr[r].bytes
    <2>1. DropPrimary(r, rs[r])
        BY <1>6 DEF ReplicaDisconnected
    <2>2. Alone(r)
        BY <2>1, DropPrimaryEffect DEF Alone
    <2> QED
        BY <1>2, <1>3, <1>4, <2>1, <2>2
<1> QED
    BY <1>5, <1>6

\* A cumulative ACK leaves.
LEMMA SendAckEffect ==
    ASSUME TypeOK, NEW r \in Replica, ReplicaSendAck(r)
    PROVE  /\ Alone(r) /\ PrimaryKept /\ UNCHANGED <<pr, rm, rs, tcp>>
           /\ MessageSent(r, [kind |-> "SNAPSHOT_ACK", n |-> rr[r].bytes])
           /\ rr[r].conn /\ rr[r].est /\ rr[r].cm = <<>> /\ rr[r].bytes > rr[r].acked
           /\ rr'[r].conn /\ rr'[r].est = rr[r].est /\ rr'[r].recvPosted = rr[r].recvPosted
           /\ rr'[r].cm = rr[r].cm /\ rr'[r].bytes = rr[r].bytes
           /\ rr'[r].acked = rr[r].bytes
<1>1. rr \in [Replica -> ReplicaRdma] /\ wire \in [Replica -> Wire]
    BY DEF TypeOK
<1>2. /\ rr' = [rr EXCEPT ![r].sendPending = TRUE, ![r].acked = rr[r].bytes]
      /\ UNCHANGED <<db, aof, hist, snapFile, pm, listenQ, pr, rm, rs, tcp>>
      /\ wire' = SendToPrimary(r, [kind |-> "SNAPSHOT_ACK", n |-> rr[r].bytes])
      /\ rr[r].conn /\ rr[r].est /\ rr[r].cm = <<>> /\ rr[r].bytes > rr[r].acked
    BY DEF ReplicaSendAck, ReplicaData, AckDue, primaryVars
<1>3. rr'[r] = [rr[r] EXCEPT !.sendPending = TRUE, !.acked = rr[r].bytes]
    BY <1>1, <1>2
<1>4. /\ rr'[r].conn = rr[r].conn /\ rr'[r].est = rr[r].est
      /\ rr'[r].recvPosted = rr[r].recvPosted
      /\ rr'[r].cm = rr[r].cm /\ rr'[r].bytes = rr[r].bytes
      /\ rr'[r].acked = rr[r].bytes
    BY <1>1, <1>3 DEF ReplicaRdma
<1>5. /\ MessageSent(r, [kind |-> "SNAPSHOT_ACK", n |-> rr[r].bytes])
      /\ \A q \in Replica : q # r => wire'[q] = wire[q]
    BY <1>2, MessageEffect
<1>6. Alone(r)
    BY <1>1, <1>2, <1>5 DEF Alone, Unmoved
<1> QED
    BY <1>2, <1>4, <1>5, <1>6 DEF PrimaryKept

\* A SEND completion of the Replica.
LEMMA ReplicaSendDoneEffect ==
    ASSUME TypeOK, NEW r \in Replica, ReplicaSendDone(r)
    PROVE  /\ Alone(r) /\ PrimaryKept /\ UNCHANGED <<pr, rm, rs, tcp, wire>>
           /\ rr'[r].conn = rr[r].conn /\ rr'[r].est = rr[r].est
           /\ rr'[r].recvPosted = rr[r].recvPosted
           /\ rr'[r].cm = rr[r].cm /\ TransferKept(r)
<1>1. rr \in [Replica -> ReplicaRdma]
    BY DEF TypeOK
<1>2. /\ rr' = [rr EXCEPT ![r].sendPending = FALSE]
      /\ UNCHANGED <<db, aof, hist, snapFile, pm, listenQ, pr, rm, rs, tcp, wire>>
    BY DEF ReplicaSendDone, primaryVars
<1>3. /\ rr'[r].conn = rr[r].conn /\ rr'[r].est = rr[r].est
      /\ rr'[r].recvPosted = rr[r].recvPosted
      /\ rr'[r].cm = rr[r].cm /\ TransferKept(r)
    BY <1>1, <1>2 DEF ReplicaRdma, TransferKept
<1>4. Alone(r)
    BY <1>1, <1>2 DEF Alone, Unmoved
<1> QED
    BY <1>2, <1>3, <1>4 DEF PrimaryKept

\* A chunk is written, and the last one installed.
ChunkTaken(r, chunk) ==
    /\ rm[r].state = "FULL_SYNC" /\ ~(Len(chunk) > rm[r].writer)
    /\ rr'[r].conn = rr[r].conn /\ rr'[r].est = rr[r].est
    /\ rr'[r].recvPosted = rr[r].recvPosted
    /\ rr'[r].cm = rr[r].cm /\ rr'[r].acked = rr[r].acked
    /\ rr'[r].bytes = rr[r].bytes + Len(chunk)
    /\ wire'[r] = [pr |-> Tail(wire[r].pr), rp |-> wire[r].rp]
    /\ rm'[r].offset = rm[r].offset /\ rm'[r].fileSize = rm[r].fileSize
    /\ rm'[r].syncId = rm[r].syncId
    /\ UNCHANGED <<tcp, pr>>

ChunkWritten(r, chunk) ==
    /\ Len(chunk) # rm[r].writer
    /\ rs'[r] = Written(r, chunk)
    /\ rm'[r].writer = rm[r].writer - Len(chunk) /\ rm'[r].state = "FULL_SYNC"

ChunkInstalled(r, chunk) ==
    /\ Len(chunk) = rm[r].writer
    /\ Installable(r, Written(r, chunk))
    /\ rs'[r] = Installed(r, Written(r, chunk))
    /\ rm'[r].writer = Closed /\ rm'[r].state = "CATCH_UP"

\* A chunk is received: written, installed, or the end of the connection.
LEMMA RecvChunkEffect ==
    ASSUME TypeOK, NEW r \in Replica, ReplicaRecvChunk(r), NEW chunk, chunk = Head(wire[r].pr)
    PROVE  /\ Alone(r) /\ PrimaryKept
           /\ rr[r].conn /\ rr[r].est /\ rr[r].cm = <<>> /\ wire[r].pr # <<>>
           /\ ~ /\ rm[r].state = "CATCH_UP" /\ rr[r].bytes = rm[r].fileSize
                /\ rr[r].acked = rr[r].bytes
           /\ ~AckDue(r)
           /\ \/ ChunkTaken(r, chunk) /\ ChunkWritten(r, chunk)
              \/ ChunkTaken(r, chunk) /\ ChunkInstalled(r, chunk)
              \/ \E store : DropPrimary(r, store)
<1>1. /\ rr \in [Replica -> ReplicaRdma] /\ wire \in [Replica -> Wire]
      /\ rm \in [Replica -> ReplicaManager] /\ rs \in [Replica -> ReplicaStore]
    BY DEF TypeOK
<1> DEFINE last == Len(chunk) = rm[r].writer
           store == Written(r, chunk)
<1>2. /\ PrimaryKept /\ rr[r].conn /\ rr[r].est /\ rr[r].cm = <<>> /\ wire[r].pr # <<>>
      /\ ~ /\ rm[r].state = "CATCH_UP" /\ rr[r].bytes = rm[r].fileSize
           /\ rr[r].acked = rr[r].bytes
      /\ ~AckDue(r)
    BY DEF ReplicaRecvChunk, ReplicaPollsCq, ReplicaData, PrimaryKept
<1>3. CASE rm[r].state # "FULL_SYNC" \/ Len(chunk) > rm[r].writer
    <2>1. DropPrimary(r, rs[r])
        BY <1>3 DEF ReplicaRecvChunk
    <2>2. Alone(r)
        BY <2>1, DropPrimaryEffect DEF Alone
    <2> QED
        BY <1>2, <2>1, <2>2
<1>4. CASE /\ ~(rm[r].state # "FULL_SYNC" \/ Len(chunk) > rm[r].writer)
           /\ last /\ ~Installable(r, store)
    <2>1. DropPrimary(r, InstallRefused(store))
        BY <1>4 DEF ReplicaRecvChunk
    <2>2. Alone(r)
        BY <2>1, DropPrimaryEffect DEF Alone
    <2> QED
        BY <1>2, <2>1, <2>2
<1>5. CASE /\ ~(rm[r].state # "FULL_SYNC" \/ Len(chunk) > rm[r].writer)
           /\ ~(last /\ ~Installable(r, store))
    <2>1. /\ rs' = [rs EXCEPT ![r] = IF last THEN Installed(r, store) ELSE store]
          /\ rm' = [rm EXCEPT ![r].writer = IF last THEN Closed ELSE rm[r].writer - Len(chunk),
                              ![r].state = IF last THEN "CATCH_UP" ELSE "FULL_SYNC"]
          /\ rr' = [rr EXCEPT ![r].bytes = rr[r].bytes + Len(chunk)]
          /\ wire' = [wire EXCEPT ![r].pr = Tail(wire[r].pr)]
          /\ UNCHANGED <<tcp, pr>>
        BY <1>5 DEF ReplicaRecvChunk
    <2> DEFINE rest == Tail(wire[r].pr)
    <2>2. wire' = [wire EXCEPT ![r].pr = rest]
        BY <2>1
    <2> HIDE DEF rest, store, last
    <2>3. /\ rr'[r].conn = rr[r].conn /\ rr'[r].est = rr[r].est
          /\ rr'[r].recvPosted = rr[r].recvPosted
          /\ rr'[r].cm = rr[r].cm /\ rr'[r].acked = rr[r].acked
          /\ rr'[r].bytes = rr[r].bytes + Len(chunk)
        BY <1>1, <2>1 DEF ReplicaRdma
    <2>4. wire'[r] = [pr |-> rest, rp |-> wire[r].rp]
        BY <1>1, <2>2 DEF Wire
    <2>5. rm'[r] = [rm[r] EXCEPT !.writer = IF last THEN Closed ELSE rm[r].writer - Len(chunk),
                                 !.state = IF last THEN "CATCH_UP" ELSE "FULL_SYNC"]
        BY <1>1, <2>1
    <2>6. /\ rm'[r].offset = rm[r].offset /\ rm'[r].fileSize = rm[r].fileSize
          /\ rm'[r].syncId = rm[r].syncId
          /\ rm'[r].writer = IF last THEN Closed ELSE rm[r].writer - Len(chunk)
          /\ rm'[r].state = IF last THEN "CATCH_UP" ELSE "FULL_SYNC"
        BY <1>1, <2>5 DEF ReplicaManager
    <2>7. rs'[r] = IF last THEN Installed(r, store) ELSE store
        BY <1>1, <2>1
    <2>8. Alone(r)
        BY <1>1, <2>1, <2>2 DEF Alone, Unmoved
    <2>9. ChunkTaken(r, chunk)
        BY <1>5, <2>1, <2>3, <2>4, <2>6 DEF ChunkTaken, rest
    <2>10. CASE last
        <3>1. ChunkInstalled(r, chunk)
            BY <1>5, <2>6, <2>7, <2>10 DEF ChunkInstalled, last, store
        <3> QED
            BY <1>2, <2>8, <2>9, <3>1
    <2>11. CASE ~last
        <3>1. ChunkWritten(r, chunk)
            BY <1>5, <2>6, <2>7, <2>11 DEF ChunkWritten, last, store
        <3> QED
            BY <1>2, <2>8, <2>9, <3>1
    <2> QED
        BY <2>10, <2>11
<1> QED
    BY <1>3, <1>4, <1>5

-----------------------------------------------------------------------------
(* Every step is one of the following, whichever handler took it.           *)

\* The Primary's end of r closes; r may be no connection at all.
DropStep(r) ==
    DropReplica(r) /\ UNCHANGED <<db, aof, hist, snapFile, listenQ, rm, rs>>

\* The Replica's end closes; store is what the handler left.
HangUpStep(r, store) == DropPrimary(r, store) /\ PrimaryKept

\* The transfer is complete: the RDMA connection is closed, the stream starts.
FinishStep ==
    /\ pm.state = "FULL_SYNC" /\ pr.discPending /\ pr' = NoPrimaryRdma
    /\ wire' = CutWire(pr.conn) /\ rr' = rr
    /\ \/ \E n \in Nat : AofSent("CATCH_UP", pm.offset, Len(aof), n)
       \/ OnlineSent(pm.offset)
    /\ UNCHANGED <<db, aof, hist, snapFile, listenQ, rm, rs>>

\* The Primary polls an established connection that it holds.
Polls(p) ==
    /\ p \in Replica /\ p = pr.conn /\ pm.state = "FULL_SYNC" /\ pr.cm = <<>>
    /\ pr.est /\ ~pr.discPending
    /\ UNCHANGED <<db, aof, hist, snapFile, listenQ, rm, rs>>

NextChunkStep(p, n) ==
    /\ Polls(p) /\ pr.sent > 0 /\ pr.acked = pr.sent /\ pm.reader > 0
    /\ n = Min2(ChunkCap, pm.reader)
    /\ ChunkSent(p, n, wire[p].rp)

FirstChunkStep(p, n) ==
    /\ Polls(p) /\ wire[p].rp # <<>> /\ pr.sent = 0
    /\ Head(wire[p].rp) = [kind |-> "READY", n |-> pm.syncId]
    /\ n = Min2(ChunkCap, pm.reader)
    /\ ChunkSent(p, n, Tail(wire[p].rp))

AckStep(p) == Polls(p) /\ wire[p].rp # <<>> /\ AckTaken(p)

StreamStep ==
    /\ pm.conn \in Replica /\ pm.state \in {"CATCH_UP", "ONLINE"}
    /\ SentPos \in Nat /\ SentPos <= Len(aof)
    /\ \/ \E end, n \in Nat : AofSent(pm.state, SentPos, end, n)
       \/ OnlineSent(SentPos)
       \/ /\ pm.aofLeft # Closed /\ pm.state = "ONLINE" /\ tcp' = tcp
          /\ pm'.state = pm.state /\ pm'.conn = pm.conn
          /\ pm'.offset = SentPos /\ pm'.aofLeft = Closed
          /\ pm'.reader = pm.reader
    /\ UNCHANGED <<db, aof, hist, snapFile, pr, listenQ, rm, rr, rs, wire>>

\* Lines from Replica r: PING, and a PSYNC that gets the slot.
PingStep(r) ==
    /\ pm.conn # r /\ tcp[r].r2p # <<>> /\ Head(tcp[r].r2p) = "PING"
    /\ tcp'[r].primary = tcp[r].primary /\ tcp'[r].r2p = Tail(tcp[r].r2p)
    /\ tcp'[r].p2r = IF ReplicaClosed(r) THEN tcp[r].p2r ELSE Append(tcp[r].p2r, Pong)
    /\ \A q \in Replica : q # r => tcp'[q] = tcp[q]
    /\ UNCHANGED <<db, aof, hist, snapFile, pm, pr, listenQ, rm, rr, rs, wire>>

PsyncStep(r) ==
    /\ pm.conn = NoConn /\ pr.conn = NoConn
    /\ tcp[r].primary = "open" /\ tcp[r].r2p # <<>> /\ Head(tcp[r].r2p) = "PSYNC"
    /\ snapFile' = SnapshotOf(db, Len(aof))
    /\ pm'.state = "FULL_SYNC" /\ pm'.conn = r /\ pm'.syncId = syncCount + 1
    /\ pm'.offset = Len(aof)
    /\ pm'.fileSize = SnapSize /\ pm'.reader = SnapSize /\ pm'.aofLeft = Closed
    /\ tcp'[r].primary = tcp[r].primary /\ tcp'[r].r2p = Tail(tcp[r].r2p)
    /\ tcp'[r].p2r = IF ReplicaClosed(r) THEN tcp[r].p2r
                     ELSE Append(tcp[r].p2r, [line |-> "FULLRESYNC_RDMA",
                                              off |-> Len(aof), size |-> SnapSize,
                                              id |-> syncCount + 1])
    /\ \A q \in Replica : q # r => tcp'[q] = tcp[q]
    /\ UNCHANGED <<db, aof, hist, pr, listenQ, rm, rr, rs, wire>>

HandshakeStep(r) ==
    /\ Alone(r) /\ PrimaryKept
    /\ rm[r].state = "HANDSHAKE" /\ ~rr[r].conn /\ tcp[r].p2r # <<>>
    /\ PongTaken(r) \/ ResyncTaken(r, Head(tcp[r].p2r))

\* A token of the stream is accepted.
Follows(r) ==
    /\ Alone(r) /\ PrimaryKept /\ TokenTaken(r)
    /\ rm[r].state \in {"CATCH_UP", "ONLINE"} /\ ~rr[r].conn /\ tcp[r].p2r # <<>>

CellStep(r) ==
    /\ Follows(r) /\ Head(tcp[r].p2r) \in Cell
    /\ CellKept(r, Append(rs[r].buf, Head(tcp[r].p2r)))

CommandStep(r) ==
    /\ Follows(r) /\ Head(tcp[r].p2r) \in Cell
    /\ CommandDone(r, Append(rs[r].buf, Head(tcp[r].p2r)))

OnlineStep(r) ==
    /\ Follows(r) /\ Head(tcp[r].p2r) \in OnlineLine
    /\ rs'[r] = rs[r] /\ rs[r].buf = <<>> /\ Head(tcp[r].p2r).off = Len(rs[r].aof)
    /\ rm'[r].state = "ONLINE"

\* DISCONNECTED after the installed snapshot was acknowledged.
FinishedStep(r) ==
    /\ Alone(r) /\ PrimaryKept
    /\ rr[r].conn /\ Hurt(rr[r].cm)
    /\ rm[r].state = "CATCH_UP" /\ rr[r].bytes = rm[r].fileSize
    /\ rr[r].acked = rr[r].bytes
    /\ rr'[r] = NoReplicaRdma /\ wire'[r] = EmptyWire
    /\ UNCHANGED <<rm, rs, tcp, pr>>

ChunkStep(r) ==
    /\ Alone(r) /\ PrimaryKept
    /\ rr[r].conn /\ rr[r].est /\ rr[r].cm = <<>> /\ wire[r].pr # <<>>
    /\ ChunkTaken(r, Head(wire[r].pr))
    /\ ChunkWritten(r, Head(wire[r].pr)) \/ ChunkInstalled(r, Head(wire[r].pr))

\* The RDMA connection of r breaks under both ends.
BreakStep(r) ==
    /\ pr.conn = r /\ rr[r].conn
    /\ Alone(r) /\ PrimaryKept /\ UNCHANGED <<rm, rs, tcp>>
    /\ pr'.conn = pr.conn /\ pr'.est = pr.est /\ pr'.sent = pr.sent
    /\ pr'.acked = pr.acked /\ pr'.discPending = pr.discPending
    /\ pr'.recvPosted = pr.recvPosted /\ Hurt(pr'.cm)
    /\ rr' = NotifyReplica(r, "DISCONNECTED")
    /\ wire'[r] = EmptyWire

AnyStep ==
    \/ UNCHANGED vars
    \/ \E c \in Command : ClientWrite(c)
    \/ \E r \in Replica \cup {NoConn} : DropStep(r)
    \/ \E r \in Replica : \E store : HangUpStep(r, store)
    \/ PrimaryAccept \/ PrimaryReject \/ PrimaryEstablished \/ PrimaryDisconnect
    \/ PrimarySendDone \/ FinishStep \/ StreamStep
    \/ \E p \in Replica, n \in Nat : NextChunkStep(p, n) \/ FirstChunkStep(p, n)
    \/ \E p \in Replica : AckStep(p)
    \/ \E r \in Replica :
          \/ PingStep(r) \/ PsyncStep(r)
          \/ ReplicaConnect(r) \/ HandshakeStep(r)
          \/ CellStep(r) \/ CommandStep(r) \/ OnlineStep(r)
          \/ ReplicaResolveRoute(r) \/ ReplicaRdmaConnect(r) \/ ReplicaEstablished(r)
          \/ FinishedStep(r) \/ ReplicaSendAck(r) \/ ReplicaSendDone(r) \/ ChunkStep(r)
          \/ BreakStep(r)
    \/ PrimaryRestart

\* The steps of the Primary's coroutines.
LEMMA PrimaryCases ==
    ASSUME TypeInv, PrimaryStep PROVE AnyStep
<1>0. TypeOK /\ pm.conn \in Replica \cup {NoConn}
    BY DEF TypeInv, TypeOK, PrimaryManager
<1>1. CASE PrimaryDisconnected
    <2>1. CASE DropReplica(pm.conn)
        BY <1>0, <1>1, <2>1, DisconnectedEffect DEF AnyStep, DropStep
    <2>2. CASE ~DropReplica(pm.conn)
        BY <1>1, <2>2, DisconnectedEffect DEF AnyStep, FinishStep
    <2> QED
        BY <2>1, <2>2
<1>2. CASE PrimaryCmError
    BY <1>0, <1>2 DEF AnyStep, DropStep, PrimaryCmError
<1>3. CASE PrimarySendNext
    <2>1. PICK p, n : p = pr.conn /\ n = Min2(ChunkCap, pm.reader)
        OBVIOUS
    <2>2. p \in Replica /\ NextChunkStep(p, n)
        BY <1>3, <2>1, SendNextEffect DEF NextChunkStep, Polls
    <2>3. n \in Nat
        BY <2>2 DEF NextChunkStep, ChunkSent
    <2> QED
        BY <2>2, <2>3 DEF AnyStep
<1>4. CASE PrimaryRecv
    <2>1. PICK p, n : p = pr.conn /\ n = Min2(ChunkCap, pm.reader)
        OBVIOUS
    <2>2. /\ Polls(p) /\ wire[p].rp # <<>>
          /\ \/ AckTaken(p)
             \/ /\ pr.sent = 0 /\ Head(wire[p].rp) = [kind |-> "READY", n |-> pm.syncId]
                /\ ChunkSent(p, n, Tail(wire[p].rp))
             \/ DropReplica(pm.conn)
        BY <1>4, <2>1, RecvEffect DEF Polls
    <2>3. p \in Replica
        BY <2>2 DEF Polls
    <2>4. CASE AckTaken(p)
        BY <2>2, <2>3, <2>4 DEF AckStep, AnyStep
    <2>5. CASE /\ pr.sent = 0 /\ Head(wire[p].rp) = [kind |-> "READY", n |-> pm.syncId]
               /\ ChunkSent(p, n, Tail(wire[p].rp))
        <3>1. n \in Nat /\ FirstChunkStep(p, n)
            BY <2>1, <2>2, <2>5 DEF FirstChunkStep, ChunkSent
        <3> QED
            BY <2>3, <3>1 DEF AnyStep
    <2>6. CASE DropReplica(pm.conn)
        BY <1>0, <2>2, <2>6 DEF AnyStep, DropStep, Polls
    <2> QED
        BY <2>2, <2>4, <2>5, <2>6
<1>5. CASE PrimarySendAof \/ PrimaryNextRound \/ PrimaryCaughtUp \/ PrimaryResume
    <2>1. StreamStep
        BY <1>5, StreamEffect DEF StreamStep
    <2> QED
        BY <2>1 DEF AnyStep
<1>6. CASE PrimaryAccept \/ PrimaryReject \/ PrimaryEstablished \/ PrimaryDisconnect
           \/ PrimarySendDone
    BY <1>6 DEF AnyStep
<1> QED
    BY <1>1, <1>2, <1>3, <1>4, <1>5, <1>6 DEF PrimaryStep

\* Lines from a Replica.
LEMMA LineCases ==
    ASSUME TypeInv, NEW r \in Replica, PrimaryConnStep(r) PROVE AnyStep
<1>0. TypeOK /\ tcp \in [Replica -> TcpConn] /\ pm \in PrimaryManager
    BY DEF TypeInv, TypeOK
<1>1. CASE PrimaryPing(r)
    <2> DEFINE said == IF ReplicaClosed(r) THEN tcp[r].p2r ELSE Append(tcp[r].p2r, Pong)
               rest == Tail(tcp[r].r2p)
    <2>1. /\ tcp' = [tcp EXCEPT ![r].r2p = rest, ![r].p2r = said]
          /\ UNCHANGED <<db, aof, hist, snapFile, pm, pr, listenQ, rm, rr, rs, wire>>
          /\ pm.conn # r /\ tcp[r].r2p # <<>> /\ Head(tcp[r].r2p) = "PING"
        BY <1>1 DEF PrimaryPing, PrimaryReads, primaryVars, replicaVars
    <2> HIDE DEF said, rest
    <2>2. tcp'[r] = [tcp[r] EXCEPT !.r2p = rest, !.p2r = said]
        BY <1>0, <2>1
    <2>3. tcp'[r].primary = tcp[r].primary /\ tcp'[r].r2p = rest /\ tcp'[r].p2r = said
        BY <1>0, <2>2 DEF TcpConn
    <2>4. \A q \in Replica : q # r => tcp'[q] = tcp[q]
        BY <1>0, <2>1
    <2>5. PingStep(r)
        BY <2>1, <2>3, <2>4 DEF PingStep, said, rest
    <2> QED
        BY <2>5 DEF AnyStep
<1>2. CASE PrimaryPsync(r) /\ Busy
    BY <1>2 DEF AnyStep, DropStep, PrimaryPsync
<1>3. CASE PrimaryPsync(r) /\ ~Busy
    <2> DEFINE said == IF ReplicaClosed(r) THEN tcp[r].p2r
                       ELSE Append(tcp[r].p2r, [line |-> "FULLRESYNC_RDMA",
                                                off |-> Len(aof), size |-> SnapSize,
                                                id |-> syncCount + 1])
               rest == Tail(tcp[r].r2p)
    <2>1. /\ tcp' = [tcp EXCEPT ![r].r2p = rest, ![r].p2r = said]
          /\ snapFile' = SnapshotOf(db, Len(aof))
          /\ pm' = [pm EXCEPT !.state = "FULL_SYNC", !.conn = r,
                                !.syncId = syncCount + 1,
                                !.offset = Len(aof), !.fileSize = SnapSize,
                                !.reader = SnapSize,
                                !.aofPos = 0, !.aofLeft = Closed]
          /\ UNCHANGED <<db, aof, hist, pr, listenQ, rm, rr, rs, wire>>
        BY <1>3 DEF PrimaryPsync
    <2>2. /\ pm.conn = NoConn /\ pr.conn = NoConn
          /\ tcp[r].primary = "open" /\ tcp[r].r2p # <<>> /\ Head(tcp[r].r2p) = "PSYNC"
        BY <1>3 DEF PrimaryPsync, PrimaryReads, Busy
    <2> HIDE DEF said, rest
    <2>3. tcp'[r] = [tcp[r] EXCEPT !.r2p = rest, !.p2r = said]
        BY <1>0, <2>1
    <2>4. tcp'[r].primary = tcp[r].primary /\ tcp'[r].r2p = rest /\ tcp'[r].p2r = said
        BY <1>0, <2>3 DEF TcpConn
    <2>5. \A q \in Replica : q # r => tcp'[q] = tcp[q]
        BY <1>0, <2>1
    <2>6. /\ pm'.state = "FULL_SYNC" /\ pm'.conn = r /\ pm'.syncId = syncCount + 1
          /\ pm'.offset = Len(aof)
          /\ pm'.fileSize = SnapSize /\ pm'.reader = SnapSize /\ pm'.aofLeft = Closed
        BY <1>0, <2>1 DEF PrimaryManager
    <2>7. PsyncStep(r)
        BY <2>1, <2>2, <2>4, <2>5, <2>6 DEF PsyncStep, said, rest
    <2> QED
        BY <2>7 DEF AnyStep
<1>4. CASE PrimaryPeerClosed(r)
    BY <1>4 DEF AnyStep, DropStep, PrimaryPeerClosed
<1> QED
    BY <1>1, <1>2, <1>3, <1>4 DEF PrimaryConnStep

\* The steps of a Replica.
LEMMA ReplicaCases ==
    ASSUME TypeInv, NEW r \in Replica, ReplicaStep(r) PROVE AnyStep
<1>0. TypeOK
    BY DEF TypeInv
<1>1. ASSUME \E store : HangUpStep(r, store) PROVE AnyStep
    BY <1>1 DEF AnyStep
<1>2. CASE ReplicaHandshake(r)
    <2>1. PICK line : line = Head(tcp[r].p2r)
        OBVIOUS
    <2>2. /\ Alone(r) /\ PrimaryKept
          /\ rm[r].state = "HANDSHAKE" /\ ~rr[r].conn /\ tcp[r].p2r # <<>>
          /\ PongTaken(r) \/ ResyncTaken(r, line) \/ DropPrimary(r, rs[r])
        BY <1>0, <1>2, <2>1, HandshakeEffect
    <2>3. CASE DropPrimary(r, rs[r])
        BY <1>1, <2>2, <2>3 DEF HangUpStep
    <2>4. CASE PongTaken(r) \/ ResyncTaken(r, line)
        BY <2>1, <2>2, <2>4 DEF AnyStep, HandshakeStep
    <2> QED
        BY <2>2, <2>3, <2>4
<1>3. CASE ReplicaCatchUp(r)
    <2>1. PICK input : input = Append(rs[r].buf, Head(tcp[r].p2r))
        OBVIOUS
    <2>2. /\ Alone(r) /\ PrimaryKept
          /\ rm[r].state \in {"CATCH_UP", "ONLINE"} /\ ~rr[r].conn /\ tcp[r].p2r # <<>>
          /\ Head(tcp[r].p2r) \in Cell
          /\ \/ TokenTaken(r) /\ CellKept(r, input)
             \/ TokenTaken(r) /\ CommandDone(r, input)
             \/ DropPrimary(r, rs[r])
        BY <1>0, <1>3, <2>1, CatchUpEffect
    <2>3. CASE DropPrimary(r, rs[r])
        BY <1>1, <2>2, <2>3 DEF HangUpStep
    <2>4. CASE TokenTaken(r) /\ CellKept(r, input)
        BY <2>1, <2>2, <2>4 DEF AnyStep, CellStep, Follows
    <2>5. CASE TokenTaken(r) /\ CommandDone(r, input)
        BY <2>1, <2>2, <2>5 DEF AnyStep, CommandStep, Follows
    <2> QED
        BY <2>2, <2>3, <2>4, <2>5
<1>4. CASE ReplicaControlLine(r)
    <2>1. PICK line : line = Head(tcp[r].p2r)
        OBVIOUS
    <2>2. /\ Alone(r) /\ PrimaryKept
          /\ rm[r].state \in {"CATCH_UP", "ONLINE"} /\ ~rr[r].conn /\ tcp[r].p2r # <<>>
          /\ \/ /\ TokenTaken(r) /\ rs'[r] = rs[r]
                /\ line \in OnlineLine /\ rs[r].buf = <<>> /\ line.off = Len(rs[r].aof)
                /\ rm'[r].state = "ONLINE"
             \/ DropPrimary(r, rs[r])
        BY <1>0, <1>4, <2>1, ControlLineEffect
    <2>3. CASE DropPrimary(r, rs[r])
        BY <1>1, <2>2, <2>3 DEF HangUpStep
    <2>4. CASE ~DropPrimary(r, rs[r])
        BY <2>1, <2>2, <2>4 DEF AnyStep, OnlineStep, Follows
    <2> QED
        BY <2>3, <2>4
<1>5. CASE ReplicaPeerClosed(r) \/ ReplicaCmError(r) \/ ReplicaTimeout(r)
    BY <1>1, <1>5 DEF ReplicaPeerClosed, ReplicaCmError, ReplicaTimeout, HangUpStep, PrimaryKept
<1>6. CASE ReplicaDisconnected(r)
    <2>1. CASE DropPrimary(r, rs[r])
        BY <1>0, <1>1, <1>6, <2>1, ReplicaDisconnectedEffect DEF HangUpStep
    <2>2. CASE ~DropPrimary(r, rs[r])
        BY <1>0, <1>6, <2>2, ReplicaDisconnectedEffect DEF AnyStep, FinishedStep
    <2> QED
        BY <2>1, <2>2
<1>7. CASE ReplicaRecvChunk(r)
    <2>1. PICK chunk : chunk = Head(wire[r].pr)
        OBVIOUS
    <2>2. /\ Alone(r) /\ PrimaryKept
          /\ rr[r].conn /\ rr[r].est /\ rr[r].cm = <<>> /\ wire[r].pr # <<>>
          /\ \/ ChunkTaken(r, chunk) /\ ChunkWritten(r, chunk)
             \/ ChunkTaken(r, chunk) /\ ChunkInstalled(r, chunk)
             \/ \E store : DropPrimary(r, store)
        BY <1>0, <1>7, <2>1, RecvChunkEffect
    <2>3. CASE \E store : DropPrimary(r, store)
        BY <1>1, <2>2, <2>3 DEF HangUpStep
    <2>4. CASE ~(\E store : DropPrimary(r, store))
        <3>1. ChunkStep(r)
            BY <2>1, <2>2, <2>4 DEF ChunkStep
        <3> QED
            BY <3>1 DEF AnyStep
    <2> QED
        BY <2>3, <2>4
<1>8. CASE ReplicaResolveRoute(r) \/ ReplicaRdmaConnect(r) \/ ReplicaEstablished(r)
           \/ ReplicaSendAck(r) \/ ReplicaSendDone(r)
    BY <1>8 DEF AnyStep
<1> QED
    BY <1>2, <1>3, <1>4, <1>5, <1>6, <1>7, <1>8 DEF ReplicaStep

\* Failures.
LEMMA FailureCases ==
    ASSUME TypeInv, Failure PROVE AnyStep
<1>0. TypeOK /\ pr \in PrimaryRdma /\ pr.cm \in Seq(CmEvent) /\ wire \in [Replica -> Wire]
      /\ rr \in [Replica -> ReplicaRdma]
    BY DEF TypeInv, TypeOK, PrimaryRdma
<1>1. ASSUME NEW r \in Replica, PrimaryFailure(r) PROVE AnyStep
    BY <1>1 DEF AnyStep, DropStep, PrimaryFailure
<1>2. ASSUME NEW r \in Replica, ReplicaFailure(r) PROVE AnyStep
    BY <1>2 DEF AnyStep, HangUpStep, ReplicaFailure, PrimaryKept
<1>3. ASSUME NEW r \in Replica, ReplicaInstallFailure(r) PROVE AnyStep
    <2>1. \E store : DropPrimary(r, store)
        BY <1>3 DEF ReplicaInstallFailure
    <2> QED
        BY <1>3, <2>1 DEF AnyStep, HangUpStep, ReplicaInstallFailure, PrimaryKept
<1>4. ASSUME NEW r \in Replica, RdmaBreak(r) PROVE AnyStep
    <2>1. /\ pr.conn = r /\ rr[r].conn
          /\ pr' = NotifyPrimary(r, "DISCONNECTED")
          /\ rr' = NotifyReplica(r, "DISCONNECTED")
          /\ wire' = [wire EXCEPT ![r] = EmptyWire]
          /\ UNCHANGED <<db, aof, hist, snapFile, pm, listenQ, rm, rs, tcp>>
        BY <1>4 DEF RdmaBreak
    <2> DEFINE longer == Append(pr.cm, "DISCONNECTED")
    <2>2. pr' = [pr EXCEPT !.cm = longer]
        BY <2>1 DEF NotifyPrimary
    <2>3. Hurt(longer)
        BY <1>0, EventQueues
    <2> HIDE DEF longer
    <2>4. /\ pr'.conn = pr.conn /\ pr'.est = pr.est /\ pr'.sent = pr.sent
          /\ pr'.acked = pr.acked /\ pr'.discPending = pr.discPending
          /\ pr'.recvPosted = pr.recvPosted /\ pr'.cm = longer
        BY <1>0, <2>2 DEF PrimaryRdma
    <2>5. \A q \in Replica : q # r => rr'[q] = rr[q]
        BY <1>0, <2>1 DEF NotifyReplica
    <2>6. Alone(r)
        BY <1>0, <2>1, <2>5 DEF Alone, Unmoved
    <2>7. BreakStep(r)
        BY <1>0, <2>1, <2>3, <2>4, <2>6 DEF BreakStep, PrimaryKept
    <2> QED
        BY <2>7 DEF AnyStep
<1>5. CASE PrimaryRestart
    BY <1>5 DEF AnyStep
<1> QED
    BY <1>1, <1>2, <1>3, <1>4, <1>5 DEF Failure

\* Every step is one of them.
LEMMA StepCases ==
    ASSUME TypeInv, [Next]_vars PROVE AnyStep
<1>1. CASE \E c \in Command : ClientWrite(c)
    BY <1>1 DEF AnyStep
<1>2. CASE UNCHANGED vars
    BY <1>2 DEF AnyStep
<1>3. ASSUME NEW r \in Replica, ReplicaConnect(r) PROVE AnyStep
    BY <1>3 DEF AnyStep
<1> QED
    BY <1>1, <1>2, <1>3, PrimaryCases, LineCases, ReplicaCases, FailureCases DEF Next

\* What a restart of the Primary leaves.
LEMMA RestartEffect ==
    ASSUME TypeOK, PrimaryRestart, NEW q \in Replica
    PROVE  /\ wire'[q] = EmptyWire
           /\ rr[q].conn /\ (q = pr.conn \/ InQueue(q)) =>
                 rr'[q] = [rr[q] EXCEPT !.cm = Append(rr[q].cm, "DISCONNECTED")]
           /\ ~(rr[q].conn /\ (q = pr.conn \/ InQueue(q))) => rr'[q] = rr[q]
           /\ tcp'[q].p2r = tcp[q].p2r
           /\ tcp'[q].r2p \in {<<>>, tcp[q].r2p}
           /\ UNCHANGED <<db, aof, hist, snapFile, rm, rs>>
           /\ pm' = PrimaryStarted(Len(aof)) /\ pr' = NoPrimaryRdma /\ listenQ' = <<>>
<1>1. tcp \in [Replica -> TcpConn]
    BY DEF TypeOK
<1>2. tcp'[q] = IF tcp[q].primary = "open"
                THEN [tcp[q] EXCEPT !.primary = "closed", !.r2p = <<>>]
                ELSE tcp[q]
    BY DEF PrimaryRestart
<1>3. tcp'[q].p2r = tcp[q].p2r /\ tcp'[q].r2p \in {<<>>, tcp[q].r2p}
    BY <1>1, <1>2 DEF TcpConn
<1>4. rr'[q] = IF /\ rr[q].conn
                  /\ q = pr.conn \/ \E i \in 1 .. Len(listenQ) : listenQ[i] = q
               THEN [rr[q] EXCEPT !.cm = Append(rr[q].cm, "DISCONNECTED")]
               ELSE rr[q]
    BY DEF PrimaryRestart
<1> QED
    BY <1>3, <1>4 DEF PrimaryRestart, InQueue

\* The connection of one Replica moves; nobody else's does.
LEMMA CmAlone ==
    ASSUME CmInv, NEW r \in Replica, Alone(r), listenQ' = listenQ, pr'.conn = pr.conn,
           pr.conn # r => (Hurt(pr.cm) => Hurt(pr'.cm)),
           (ConnPhase(r) /\ CmLife(r) /\ BothHear(r))'
    PROVE  CmInv'
<1>1. QueueOnce'
    BY DEF CmInv, QueueOnce
<1>2. ASSUME NEW q \in Replica, q # r
      PROVE  /\ rr'[q] = rr[q]
             /\ rm'[q].state = rm[q].state
             /\ InQueue(q)' <=> InQueue(q)
             /\ pr'.conn = q <=> pr.conn = q
             /\ pr.conn = q => (Hurt(pr.cm) => Hurt(pr'.cm))
    BY <1>2 DEF Alone, Unmoved, InQueue
<1> QED
    BY <1>1, <1>2, CmOthers

\* Nothing but the transfer of r moves.
LEMMA CmAloneQuiet ==
    ASSUME CmInv, NEW r \in Replica, Alone(r), listenQ' = listenQ, pr' = pr,
           rr'[r].conn = rr[r].conn, rr'[r].est = rr[r].est,
           rr'[r].recvPosted = rr[r].recvPosted, rr'[r].cm = rr[r].cm,
           \/ rm'[r].state = rm[r].state
           \/ rm[r].state = "DOWN" /\ rm'[r].state = "HANDSHAKE"
           \/ rm[r].state = "FULL_SYNC" /\ rm'[r].state = "CATCH_UP"
           \/ /\ ~rr[r].conn
              /\ rm[r].state \in {"CATCH_UP", "ONLINE"}
              /\ rm'[r].state \in {"CATCH_UP", "ONLINE"}
    PROVE  CmInv'
<1>1. ASSUME NEW q \in Replica
      PROVE  /\ rr'[q].conn = rr[q].conn
             /\ rr'[q].est = rr[q].est
             /\ rr'[q].recvPosted = rr[q].recvPosted
             /\ rr'[q].cm = rr[q].cm
             /\ \/ rm'[q].state = rm[q].state
                \/ rm[q].state = "DOWN" /\ rm'[q].state = "HANDSHAKE"
                \/ rm[q].state = "FULL_SYNC" /\ rm'[q].state = "CATCH_UP"
                \/ /\ ~rr[q].conn
                   /\ rm[q].state \in {"CATCH_UP", "ONLINE"}
                   /\ rm'[q].state \in {"CATCH_UP", "ONLINE"}
    BY DEF Alone, Unmoved
<1> QED
    BY <1>1, CmQuiet

\* A request is accepted or rejected.
LEMMA CmRequest ==
    ASSUME TypeOK, CmInv, PrimaryAccept \/ PrimaryReject
    PROVE  CmInv'
<1>1. PICK h : h = Head(listenQ)
    OBVIOUS
<1>2. listenQ # <<>> /\ listenQ' = Tail(listenQ) /\ rm' = rm
    BY DEF PrimaryAccept, PrimaryReject
<1>3. /\ QueueOnce' /\ h \in Replica /\ InQueue(h) /\ ~InQueue(h)'
      /\ \A q : q # h => (InQueue(q)' <=> InQueue(q))
    BY <1>1, <1>2, QueueTaken DEF CmInv
<1>4. /\ ConnPhase(h) /\ CmLife(h) /\ BothHear(h) /\ rr \in [Replica -> ReplicaRdma]
      /\ rr[h] \in ReplicaRdma
    BY <1>3 DEF CmInv, TypeOK
<1>5. pr.conn # h /\ (rr[h].conn => CmWaits(h))
    BY <1>3, <1>4 DEF ConnPhase, CmLife, CmResolves, CmAccepted, CmUp
<1>6. CASE PrimaryAccept
    <2>1. /\ pr.conn = NoConn /\ pr'.conn = h /\ (~rr[h].conn => Hurt(pr'.cm))
          /\ rr' = NotifyReplica(h, "ESTABLISHED")
        BY <1>1, <1>6, AcceptEffect
    <2>2. ASSUME NEW q \in Replica, q # h
          PROVE  /\ rr'[q] = rr[q]
                 /\ rm'[q].state = rm[q].state
                 /\ InQueue(q)' <=> InQueue(q)
                 /\ pr'.conn = q <=> pr.conn = q
                 /\ pr.conn = q => (Hurt(pr.cm) => Hurt(pr'.cm))
        <3>1. rr'[q] = rr[q]
            BY <1>3, <1>4, <2>1, <2>2 DEF NotifyReplica
        <3> QED
            BY <1>2, <1>3, <2>1, <2>2, <3>1, ReplicationAssumption
    <2>3. ASSUME ~rr[h].conn
          PROVE  (ConnPhase(h) /\ CmLife(h) /\ BothHear(h))'
        <3>1. rr'[h] = rr[h]
            BY <1>3, <2>1, <2>3, NotifyEffect
        <3> QED
            BY <1>2, <1>3, <1>4, <2>1, <2>3, <3>1 DEF ConnPhase, Early, CmLife, BothHear
    <2>4. ASSUME rr[h].conn
          PROVE  (ConnPhase(h) /\ CmLife(h) /\ BothHear(h))'
        <3>1. rr'[h] = [rr[h] EXCEPT !.cm = Append(rr[h].cm, "ESTABLISHED")]
            BY <1>3, <2>1, <2>4, NotifyEffect
        <3>2. rr[h].cm = <<>> /\ rr[h].recvPosted /\ ~rr[h].est
            BY <1>5, <2>4 DEF CmWaits
        <3>3. /\ rr'[h].conn /\ rr'[h].est = rr[h].est /\ rr'[h].recvPosted
              /\ rr'[h].cm = Append(rr[h].cm, "ESTABLISHED")
            BY <1>4, <2>4, <3>1, <3>2 DEF ReplicaRdma
        <3>4. rr'[h].cm = <<"ESTABLISHED">>
            BY <3>2, <3>3
        <3>5. /\ <<"ESTABLISHED">> # <<>> /\ Head(<<"ESTABLISHED">>) = "ESTABLISHED"
              /\ Ends(Tail(<<"ESTABLISHED">>)) /\ ~Hurt(<<"ESTABLISHED">>)
            BY DEF Ends, Hurt
        <3>6. ConnPhase(h)'
            BY <1>2, <1>3, <1>4, <2>4, <3>3 DEF ConnPhase, Early
        <3>7. CmAccepted(h)'
            BY <1>3, <3>2, <3>3, <3>4, <3>5 DEF CmAccepted
        <3>8. BothHear(h)'
            BY <2>1, <3>3, <3>4, <3>5 DEF BothHear
        <3> QED
            BY <3>6, <3>7, <3>8 DEF CmLife
    <2> QED
        BY <1>3, <2>2, <2>3, <2>4, CmOthers
<1>7. CASE PrimaryReject
    <2>1. pr' = pr /\ rr' = NotifyReplica(h, "ERROR")
        BY <1>1, <1>7 DEF PrimaryReject
    <2>2. ASSUME NEW q \in Replica, q # h
          PROVE  /\ rr'[q] = rr[q]
                 /\ rm'[q].state = rm[q].state
                 /\ InQueue(q)' <=> InQueue(q)
                 /\ pr'.conn = q <=> pr.conn = q
                 /\ pr.conn = q => (Hurt(pr.cm) => Hurt(pr'.cm))
        <3>1. rr'[q] = rr[q]
            BY <1>3, <1>4, <2>1, <2>2 DEF NotifyReplica
        <3> QED
            BY <1>2, <1>3, <2>1, <2>2, <3>1
    <2>3. ASSUME ~rr[h].conn
          PROVE  (ConnPhase(h) /\ CmLife(h) /\ BothHear(h))'
        <3>1. rr'[h] = rr[h]
            BY <1>3, <2>1, <2>3, NotifyEffect
        <3> QED
            BY <1>2, <1>3, <1>4, <1>5, <2>1, <2>3, <3>1 DEF ConnPhase, Early, CmLife, BothHear
    <2>4. ASSUME rr[h].conn
          PROVE  (ConnPhase(h) /\ CmLife(h) /\ BothHear(h))'
        <3>1. rr'[h] = [rr[h] EXCEPT !.cm = Append(rr[h].cm, "ERROR")]
            BY <1>3, <2>1, <2>4, NotifyEffect
        <3>2. rr[h].cm = <<>> /\ rr[h].recvPosted /\ ~rr[h].est
            BY <1>5, <2>4 DEF CmWaits
        <3>3. /\ rr'[h].conn /\ rr'[h].est = rr[h].est /\ rr'[h].recvPosted
              /\ rr'[h].cm = Append(rr[h].cm, "ERROR")
            BY <1>4, <2>4, <3>1, <3>2 DEF ReplicaRdma
        <3>4. rr'[h].cm = <<"ERROR">>
            BY <3>2, <3>3
        <3>5. <<"ERROR">> # <<>> /\ Ends(<<"ERROR">>)
            BY DEF Ends
        <3>6. ConnPhase(h)'
            BY <1>2, <1>3, <1>4, <1>5, <2>1, <2>4, <3>3 DEF ConnPhase, Early
        <3>7. CmUp(h)'
            BY <1>3, <1>5, <2>1, <3>2, <3>3, <3>4, <3>5 DEF CmUp
        <3>8. BothHear(h)'
            BY <1>5, <2>1 DEF BothHear
        <3> QED
            BY <3>6, <3>7, <3>8 DEF CmLife
    <2> QED
        BY <1>3, <2>2, <2>3, <2>4, CmOthers
<1> QED
    BY <1>6, <1>7

\* The held connection hears of its end: the Primary disconnects, or it breaks.
LEMMA CmEnding ==
    ASSUME TypeOK, CmInv, NEW p \in Replica, p = pr.conn, pr'.conn = p, Hurt(pr'.cm),
           rr' = NotifyReplica(p, "DISCONNECTED"), UNCHANGED <<listenQ, rm>>
    PROVE  CmInv'
<1>1. ASSUME NEW q \in Replica, q # p
      PROVE  /\ rr'[q] = rr[q]
             /\ rm'[q].state = rm[q].state
             /\ InQueue(q)' <=> InQueue(q)
             /\ pr'.conn = q <=> pr.conn = q
             /\ pr.conn = q => (Hurt(pr.cm) => Hurt(pr'.cm))
    <2>1. rr'[q] = rr[q]
        BY <1>1, NotifyEffect
    <2> QED
        BY <1>1, <2>1 DEF InQueue
<1>2. QueueOnce' /\ ConnPhase(p) /\ CmLife(p) /\ BothHear(p)
    BY DEF CmInv, QueueOnce
<1>3. ~InQueue(p) /\ (InQueue(p)' <=> InQueue(p))
    BY <1>2 DEF ConnPhase, InQueue
<1>4. CASE rr[p].conn
    <2>1. rr'[p] = [rr[p] EXCEPT !.cm = Append(rr[p].cm, "DISCONNECTED")]
        BY <1>4, NotifyEffect
    <2>2. (ConnPhase(p) /\ CmLife(p) /\ BothHear(p))'
        BY <1>3, <1>4, <2>1, CmNotified
    <2> QED
        BY <1>1, <1>2, <2>2, CmOthers
<1>5. CASE ~rr[p].conn
    <2>1. rr'[p] = rr[p]
        BY <1>5, NotifyEffect
    <2>2. (ConnPhase(p) /\ CmLife(p) /\ BothHear(p))'
        BY <1>2, <1>3, <1>5, <2>1 DEF ConnPhase, Early, CmLife, BothHear
    <2> QED
        BY <1>1, <1>2, <2>2, CmOthers
<1> QED
    BY <1>4, <1>5

\* The steps of a Replica's own connection.
LEMMA CmReplica ==
    ASSUME TypeInv, CmInv, NEW r \in Replica,
           \/ HandshakeStep(r) \/ ReplicaResolveRoute(r) \/ ReplicaRdmaConnect(r)
           \/ ReplicaEstablished(r) \/ FinishedStep(r),
           ~rr[r].conn => ~rr[r].est
    PROVE  CmInv'
<1>0. /\ TypeOK /\ rr \in [Replica -> ReplicaRdma] /\ rr[r] \in ReplicaRdma
      /\ ConnPhase(r) /\ CmLife(r) /\ BothHear(r)
    BY DEF TypeInv, TypeOK, CmInv
<1>1. CASE HandshakeStep(r)
    <2>0. Alone(r) /\ listenQ' = listenQ /\ rm[r].state = "HANDSHAKE" /\ ~rr[r].conn /\ pr' = pr
        BY <1>1 DEF HandshakeStep, PrimaryKept, PongTaken, ResyncTaken
    <2>1. CASE PongTaken(r)
        BY <2>0, <2>1, CmAloneQuiet DEF PongTaken
    <2>2. CASE ResyncTaken(r, Head(tcp[r].p2r))
        <3>1. /\ rm'[r].state = "FULL_SYNC" /\ pr' = pr
              /\ rr'[r] = [rr[r] EXCEPT !.conn = TRUE, !.cm = <<"ADDR_RESOLVED">>]
            BY <2>2 DEF ResyncTaken
        <3>2. rr'[r].conn /\ rr'[r].cm = <<"ADDR_RESOLVED">> /\ rr'[r].est = rr[r].est
            BY <1>0, <3>1 DEF ReplicaRdma
        <3>3. (InQueue(r)' <=> InQueue(r)) /\ ~InQueue(r) /\ pr.conn # r
            BY <1>0, <2>0 DEF ConnPhase, Early, InQueue
        <3>4. CmResolves(r)'
            BY <2>0, <3>1, <3>2, <3>3 DEF CmResolves
        <3>5. ConnPhase(r)' /\ BothHear(r)'
            BY <3>1, <3>2, <3>3 DEF ConnPhase, BothHear, Early
        <3> QED
            BY <2>0, <3>1, <3>4, <3>5, CmAlone DEF CmLife
    <2> QED
        BY <1>1, <2>1, <2>2 DEF HandshakeStep
<1>2. CASE ReplicaResolveRoute(r)
    <2>1. /\ Alone(r) /\ listenQ' = listenQ /\ pr' = pr /\ rm' = rm
          /\ rr[r].conn /\ rr[r].cm \in Seq(CmEvent) /\ rr[r].cm # <<>>
          /\ Head(rr[r].cm) = "ADDR_RESOLVED"
          /\ rr'[r].conn /\ rr'[r].est = rr[r].est
          /\ rr'[r].cm = Append(Tail(rr[r].cm), "ROUTE_RESOLVED")
        BY <1>0, <1>2, ResolveEffect DEF PrimaryKept
    <2>2. rr[r].cm[1] = "ADDR_RESOLVED" /\ Len(rr[r].cm) \in Nat \ {0}
        BY <2>1
    <2>3. CmResolves(r) /\ rr[r].cm = <<"ADDR_RESOLVED">>
        BY <1>0, <2>1, <2>2 DEF CmLife, CmWaits, CmAccepted, CmUp, Ends, CmResolves
    <2>4. Append(Tail(rr[r].cm), "ROUTE_RESOLVED") = <<"ROUTE_RESOLVED">>
        BY <2>3
    <2>5. InQueue(r)' <=> InQueue(r)
        BY <2>1 DEF InQueue
    <2>6. CmResolves(r)'
        BY <2>1, <2>3, <2>4, <2>5 DEF CmResolves
    <2>7. ConnPhase(r)' /\ BothHear(r)'
        BY <1>0, <2>1, <2>3, <2>5 DEF ConnPhase, BothHear, Early, CmResolves
    <2> QED
        BY <2>1, <2>6, <2>7, CmAlone DEF CmLife
<1>3. CASE ReplicaRdmaConnect(r)
    <2>1. /\ Alone(r) /\ pr' = pr /\ rm' = rm /\ listenQ' = Append(listenQ, r)
          /\ rr[r].conn /\ rr[r].cm \in Seq(CmEvent) /\ rr[r].cm # <<>>
          /\ Head(rr[r].cm) = "ROUTE_RESOLVED"
          /\ rr'[r].conn /\ rr'[r].est = rr[r].est /\ rr'[r].recvPosted
          /\ rr'[r].cm = Tail(rr[r].cm)
        BY <1>0, <1>3, RdmaConnectEffect
    <2>2. rr[r].cm[1] = "ROUTE_RESOLVED" /\ Len(rr[r].cm) \in Nat \ {0}
        BY <2>1
    <2>3. CmResolves(r) /\ rr[r].cm = <<"ROUTE_RESOLVED">>
        BY <1>0, <2>1, <2>2 DEF CmLife, CmWaits, CmAccepted, CmUp, Ends, CmResolves
    <2>4. Tail(rr[r].cm) = <<>>
        BY <2>3
    <2>5. listenQ \in Seq(Replica) /\ ~InQueue(r) /\ pr.conn # r /\ QueueOnce
        BY <1>0, <2>3 DEF TypeOK, CmResolves, CmInv
    <2> DEFINE N == Len(listenQ)
    <2>6. /\ Len(listenQ') = N + 1 /\ listenQ'[N + 1] = r /\ N \in Nat
          /\ \A i \in 1 .. N : listenQ'[i] = listenQ[i]
        BY <2>1, <2>5
    <2>7. \A i \in 1 .. N : listenQ[i] # r
        BY <2>5 DEF InQueue
    <2>8. \A i \in 1 .. N + 1 : i \in 1 .. N \/ i = N + 1
        BY <2>6
    <2>9. \A i, j \in 1 .. Len(listenQ') : listenQ'[i] = listenQ'[j] => i = j
        <3> SUFFICES ASSUME NEW i \in 1 .. N + 1, NEW j \in 1 .. N + 1, listenQ'[i] = listenQ'[j]
                     PROVE  i = j
            BY <2>6
        <3>1. CASE i \in 1 .. N /\ j \in 1 .. N
            BY <2>5, <2>6, <3>1 DEF QueueOnce
        <3>2. CASE i = N + 1 \/ j = N + 1
            BY <2>6, <2>7, <2>8, <3>2
        <3> QED
            BY <2>8, <3>1, <3>2
    <2>10. QueueOnce'
        BY <2>9 DEF QueueOnce
    <2>11. InQueue(r)'
        BY <2>6 DEF InQueue
    <2>12. ASSUME NEW q \in Replica, q # r PROVE InQueue(q)' <=> InQueue(q)
        <3>1. InQueue(q) => InQueue(q)'
            BY <2>6 DEF InQueue
        <3>2. ASSUME NEW i \in 1 .. Len(listenQ'), listenQ'[i] = q PROVE InQueue(q)
            <4>1. i \in 1 .. N
                BY <2>6, <2>8, <2>12, <3>2
            <4> QED
                BY <2>6, <3>2, <4>1 DEF InQueue
        <3> QED
            BY <3>1, <3>2 DEF InQueue
    <2>13. CmWaits(r)'
        BY <2>1, <2>3, <2>4, <2>11 DEF CmWaits, CmResolves
    <2>14. ConnPhase(r)' /\ BothHear(r)'
        BY <1>0, <2>1, <2>5 DEF ConnPhase, BothHear, Early
    <2>15. ASSUME NEW q \in Replica, q # r
           PROVE  /\ rr'[q] = rr[q]
                  /\ rm'[q].state = rm[q].state
                  /\ InQueue(q)' <=> InQueue(q)
                  /\ pr'.conn = q <=> pr.conn = q
                  /\ pr.conn = q => (Hurt(pr.cm) => Hurt(pr'.cm))
        BY <2>1, <2>12, <2>15 DEF Alone, Unmoved
    <2> QED
        BY <2>10, <2>13, <2>14, <2>15, CmOthers DEF CmLife
<1>4. CASE ReplicaEstablished(r)
    <2>1. /\ Alone(r) /\ listenQ' = listenQ /\ pr' = pr /\ rm' = rm
          /\ rr[r].conn /\ rr[r].cm \in Seq(CmEvent) /\ rr[r].cm # <<>>
          /\ Head(rr[r].cm) = "ESTABLISHED"
          /\ rr'[r].conn /\ rr'[r].est /\ rr'[r].recvPosted = rr[r].recvPosted
          /\ rr'[r].cm = Tail(rr[r].cm)
        BY <1>0, <1>4, ReplicaEstablishedEffect DEF PrimaryKept
    <2>2. ~Ends(rr[r].cm) /\ (Hurt(Tail(rr[r].cm)) => Hurt(rr[r].cm))
        BY <2>1, EventTaken
    <2>3. CmAccepted(r)
        BY <1>0, <2>1, <2>2 DEF CmLife, CmWaits, CmUp, CmResolves
    <2>4. InQueue(r)' <=> InQueue(r)
        BY <2>1 DEF InQueue
    <2>5. CmUp(r)'
        BY <2>1, <2>3, <2>4 DEF CmUp, CmAccepted
    <2>6. ConnPhase(r)' /\ BothHear(r)'
        BY <1>0, <2>1, <2>2, <2>4 DEF ConnPhase, BothHear, Early
    <2> QED
        BY <2>1, <2>5, <2>6, CmAlone DEF CmLife
<1>5. CASE FinishedStep(r)
    <2>1. /\ Alone(r) /\ listenQ' = listenQ /\ pr' = pr /\ rm' = rm
          /\ rr[r].conn /\ Hurt(rr[r].cm) /\ rm[r].state = "CATCH_UP"
          /\ ~rr'[r].conn
        BY <1>5 DEF FinishedStep, PrimaryKept, NoReplicaRdma
    <2>2. InQueue(r)' <=> InQueue(r)
        BY <2>1 DEF InQueue
    <2>3. ConnPhase(r)' /\ BothHear(r)' /\ CmLife(r)'
        BY <1>0, <2>1, <2>2 DEF ConnPhase, BothHear, Early, CmLife
    <2> QED
        BY <2>1, <2>3, CmAlone
<1> QED
    BY <1>1, <1>2, <1>3, <1>4, <1>5

\* A Replica without a connection has none of its traces, and nothing is
\* received before the connection is established.
FreshInv ==
    \A r \in Replica :
        /\ ~rr[r].conn => rr[r] = NoReplicaRdma
        /\ ~rr[r].est => rr[r].bytes = 0 /\ rr[r].acked = 0

\* One more CM event leaves the rest of the connection alone.
LEMMA FreshNotify ==
    ASSUME TypeOK, FreshInv, NEW p, NEW e, rr' = NotifyReplica(p, e)
    PROVE  FreshInv'
<1> SUFFICES ASSUME NEW q \in Replica
             PROVE  /\ ~rr'[q].conn => rr'[q] = NoReplicaRdma
                    /\ ~rr'[q].est => rr'[q].bytes = 0 /\ rr'[q].acked = 0
    BY DEF FreshInv
<1>1. /\ ~(q = p /\ rr[q].conn) => rr'[q] = rr[q]
      /\ q = p /\ rr[q].conn => rr'[q] = [rr[q] EXCEPT !.cm = Append(rr[q].cm, e)]
    BY NotifyEffect
<1>2. rr[q] \in ReplicaRdma
    BY DEF TypeOK
<1>3. CASE q = p /\ rr[q].conn
    <2> DEFINE longer == Append(rr[q].cm, e)
    <2>1. rr'[q] = [rr[q] EXCEPT !.cm = longer]
        BY <1>1, <1>3
    <2> HIDE DEF longer
    <2>2. rr'[q].conn = rr[q].conn /\ rr'[q].est = rr[q].est
          /\ rr'[q].bytes = rr[q].bytes /\ rr'[q].acked = rr[q].acked
        BY <1>2, <2>1 DEF ReplicaRdma
    <2> QED
        BY <1>3, <2>2 DEF FreshInv
<1>4. CASE ~(q = p /\ rr[q].conn)
    BY <1>1, <1>4 DEF FreshInv
<1> QED
    BY <1>3, <1>4

\* Only the connection of r moves.
LEMMA FreshAlone ==
    ASSUME FreshInv, NEW r \in Replica, Alone(r),
           ~rr'[r].conn => rr'[r] = NoReplicaRdma,
           ~rr'[r].est => rr'[r].bytes = 0 /\ rr'[r].acked = 0
    PROVE  FreshInv'
<1>1. \A q \in Replica : q # r => rr'[q] = rr[q]
    BY DEF Alone, Unmoved
<1> QED
    BY <1>1 DEF FreshInv

\* FreshInv is kept by every step.
LEMMA FreshStep ==
    ASSUME TypeInv, FreshInv, AnyStep PROVE FreshInv'
<1>0. TypeOK /\ rr \in [Replica -> ReplicaRdma]
    BY DEF TypeInv, TypeOK
<1>1. CASE UNCHANGED rr
    BY <1>1 DEF FreshInv
<1>2. ASSUME NEW r \in Replica \cup {NoConn}, DropStep(r) PROVE FreshInv'
    BY <1>0, <1>1, <1>2, DropReplicaEffect, FreshNotify DEF DropStep
<1>3. ASSUME NEW r \in Replica, NEW store, HangUpStep(r, store) PROVE FreshInv'
    <2>1. Alone(r) /\ rr'[r] = NoReplicaRdma
        BY <1>0, <1>3, DropPrimaryEffect DEF HangUpStep, Alone
    <2> QED
        BY <2>1, FreshAlone DEF NoReplicaRdma
<1>4. CASE PrimaryAccept \/ PrimaryReject \/ PrimaryDisconnect
    BY <1>0, <1>4, FreshNotify DEF PrimaryAccept, PrimaryReject, PrimaryDisconnect
<1>5. CASE PrimaryEstablished \/ PrimarySendDone
    BY <1>1, <1>5 DEF PrimaryEstablished, PrimarySendDone, replicaVars
<1>6. CASE FinishStep \/ StreamStep
    BY <1>1, <1>6 DEF FinishStep, StreamStep
<1>7. ASSUME NEW p \in Replica, NEW n \in Nat, NextChunkStep(p, n) \/ FirstChunkStep(p, n)
      PROVE  FreshInv'
    BY <1>1, <1>7 DEF NextChunkStep, FirstChunkStep, ChunkSent
<1>8. ASSUME NEW p \in Replica, AckStep(p) PROVE FreshInv'
    BY <1>1, <1>8 DEF AckStep, AckTaken
<1>9. ASSUME NEW r \in Replica, PingStep(r) \/ PsyncStep(r) PROVE FreshInv'
    BY <1>1, <1>9 DEF PingStep, PsyncStep
<1>10. ASSUME NEW r \in Replica, Alone(r), rr'[r] = rr[r] PROVE FreshInv'
    BY <1>10, FreshAlone DEF FreshInv
<1>11. ASSUME NEW r \in Replica, ReplicaConnect(r) PROVE FreshInv'
    BY <1>0, <1>10, <1>11, ConnectEffect
<1>12. ASSUME NEW r \in Replica, HandshakeStep(r) PROVE FreshInv'
    <2>1. CASE PongTaken(r)
        BY <1>10, <1>12, <2>1 DEF HandshakeStep, PongTaken
    <2>2. CASE ResyncTaken(r, Head(tcp[r].p2r))
        <3>1. rr'[r] = [rr[r] EXCEPT !.conn = TRUE, !.cm = <<"ADDR_RESOLVED">>]
            BY <2>2 DEF ResyncTaken
        <3>2. rr'[r].conn /\ rr'[r].est = rr[r].est /\ rr'[r].bytes = rr[r].bytes
              /\ rr'[r].acked = rr[r].acked
            BY <1>0, <3>1 DEF ReplicaRdma
        <3> QED
            BY <1>12, <3>2, FreshAlone DEF HandshakeStep, FreshInv
    <2> QED
        BY <1>12, <2>1, <2>2 DEF HandshakeStep
<1>13. ASSUME NEW r \in Replica, CellStep(r) \/ CommandStep(r) \/ OnlineStep(r) PROVE FreshInv'
    BY <1>10, <1>13 DEF CellStep, CommandStep, OnlineStep, Follows, TokenTaken
<1>14. ASSUME NEW r \in Replica, ReplicaResolveRoute(r) PROVE FreshInv'
    BY <1>0, <1>14, ResolveEffect, FreshAlone DEF FreshInv, TransferKept
<1>15. ASSUME NEW r \in Replica, ReplicaRdmaConnect(r) PROVE FreshInv'
    BY <1>0, <1>15, RdmaConnectEffect, FreshAlone DEF FreshInv, TransferKept
<1>16. ASSUME NEW r \in Replica, ReplicaEstablished(r) PROVE FreshInv'
    BY <1>0, <1>16, ReplicaEstablishedEffect, FreshAlone DEF FreshInv, TransferKept
<1>17. ASSUME NEW r \in Replica, FinishedStep(r) PROVE FreshInv'
    BY <1>17, FreshAlone DEF FinishedStep, NoReplicaRdma
<1>18. ASSUME NEW r \in Replica, ReplicaSendAck(r) PROVE FreshInv'
    BY <1>0, <1>18, SendAckEffect, FreshAlone
<1>19. ASSUME NEW r \in Replica, ReplicaSendDone(r) PROVE FreshInv'
    <2>1. rr[r].conn /\ rr[r].est
        BY <1>19 DEF ReplicaSendDone, ReplicaPollsCq, ReplicaData
    <2> QED
        BY <1>0, <1>19, <2>1, ReplicaSendDoneEffect, FreshAlone
<1>20. ASSUME NEW r \in Replica, ChunkStep(r) PROVE FreshInv'
    BY <1>20, FreshAlone DEF ChunkStep, ChunkTaken
<1>21. ASSUME NEW r \in Replica, BreakStep(r) PROVE FreshInv'
    BY <1>0, <1>21, FreshNotify DEF BreakStep
<1>22. CASE PrimaryRestart
    <2> SUFFICES ASSUME NEW q \in Replica
                 PROVE  /\ ~rr'[q].conn => rr'[q] = NoReplicaRdma
                        /\ ~rr'[q].est => rr'[q].bytes = 0 /\ rr'[q].acked = 0
        BY DEF FreshInv
    <2> DEFINE longer == Append(rr[q].cm, "DISCONNECTED")
    <2>1. rr[q] \in ReplicaRdma
        BY <1>0
    <2>2. rr'[q] = rr[q] \/ (rr[q].conn /\ rr'[q] = [rr[q] EXCEPT !.cm = longer])
        BY <1>0, <1>22, RestartEffect
    <2> HIDE DEF longer
    <2>3. CASE rr[q].conn /\ rr'[q] = [rr[q] EXCEPT !.cm = longer]
        <3>1. rr'[q].conn = rr[q].conn /\ rr'[q].est = rr[q].est
              /\ rr'[q].bytes = rr[q].bytes /\ rr'[q].acked = rr[q].acked
            BY <2>1, <2>3 DEF ReplicaRdma
        <3> QED
            BY <2>3, <3>1 DEF FreshInv
    <2> QED
        BY <2>2, <2>3 DEF FreshInv
<1>23. ASSUME NEW c \in Command, ClientWrite(c) PROVE FreshInv'
    BY <1>1, <1>23 DEF ClientWrite
<1>24. CASE UNCHANGED vars
    BY <1>1, <1>24 DEF vars
<1> QED
    BY <1>2, <1>3, <1>4, <1>5, <1>6, <1>7, <1>8, <1>9, <1>11, <1>12, <1>13, <1>14,
       <1>15, <1>16, <1>17, <1>18, <1>19, <1>20, <1>21, <1>22, <1>23, <1>24 DEF AnyStep

\* A restart of the Primary ends every connection it holds or is asked for.
LEMMA CmRestart ==
    ASSUME TypeOK, CmInv, PrimaryRestart PROVE CmInv'
<1>1. /\ rm' = rm /\ pr'.conn = NoConn /\ listenQ' = <<>> /\ NoConn \notin Replica
    BY ReplicationAssumption DEF PrimaryRestart, NoPrimaryRdma
<1>2. QueueOnce' /\ \A q \in Replica : ~InQueue(q)'
    BY <1>1 DEF QueueOnce, InQueue
<1>3. ASSUME NEW q \in Replica PROVE (ConnPhase(q) /\ CmLife(q) /\ BothHear(q))'
    <2>1. ConnPhase(q) /\ CmLife(q) /\ BothHear(q) /\ rr[q] \in ReplicaRdma
        BY DEF CmInv, TypeOK
    <2>2. /\ rr[q].conn /\ (q = pr.conn \/ InQueue(q)) =>
                 rr'[q] = [rr[q] EXCEPT !.cm = Append(rr[q].cm, "DISCONNECTED")]
          /\ ~(rr[q].conn /\ (q = pr.conn \/ InQueue(q))) => rr'[q] = rr[q]
        BY RestartEffect
    <2>3. CASE rr[q].conn /\ q = pr.conn
        BY <1>1, <1>2, <2>2, <2>3, CmNotified
    <2>4. CASE rr[q].conn /\ InQueue(q)
        <3>1. CmWaits(q)
            BY <2>1, <2>4 DEF CmLife, CmResolves, CmAccepted, CmUp
        <3>2. rr'[q] = [rr[q] EXCEPT !.cm = Append(rr[q].cm, "DISCONNECTED")] /\ rr[q].cm = <<>>
            BY <2>2, <2>4, <3>1 DEF CmWaits
        <3>3. rr'[q] = [rr[q] EXCEPT !.cm = <<"DISCONNECTED">>]
            BY <3>2
        <3>4. /\ rr'[q].conn = rr[q].conn /\ rr'[q].est = rr[q].est
              /\ rr'[q].recvPosted = rr[q].recvPosted /\ rr'[q].cm = <<"DISCONNECTED">>
            BY <2>1, <3>3 DEF ReplicaRdma
        <3>5. Ends(<<"DISCONNECTED">>) /\ <<"DISCONNECTED">> # <<>>
            BY DEF Ends
        <3>6. CmUp(q)'
            BY <1>1, <1>2, <3>1, <3>4, <3>5 DEF CmUp, CmWaits
        <3>7. ConnPhase(q)' /\ BothHear(q)'
            BY <1>1, <1>2, <2>1, <3>4 DEF ConnPhase, Early, BothHear
        <3> QED
            BY <3>6, <3>7 DEF CmLife
    <2>5. CASE ~(rr[q].conn /\ (q = pr.conn \/ InQueue(q)))
        <3>1. rr'[q] = rr[q]
            BY <2>2, <2>5
        <3>2. CmLife(q)'
            BY <1>1, <1>2, <2>1, <2>5, <3>1
            DEF CmLife, CmResolves, CmWaits, CmAccepted, CmUp
        <3>3. ConnPhase(q)' /\ BothHear(q)'
            BY <1>1, <1>2, <2>1, <3>1 DEF ConnPhase, Early, BothHear
        <3> QED
            BY <3>2, <3>3
    <2> QED
        BY <2>3, <2>4, <2>5
<1> QED
    BY <1>2, <1>3 DEF CmInv

\* CmInv is kept by every step.
LEMMA CmStep ==
    ASSUME TypeInv, FreshInv, CmInv, AnyStep PROVE CmInv'
<1>0. TypeOK
    BY DEF TypeInv
<1>1. ASSUME UNCHANGED <<listenQ, rr, rm>>, pr'.conn = pr.conn, Hurt(pr.cm) => Hurt(pr'.cm)
      PROVE  CmInv'
    BY <1>1, CmQuiet
<1>2. ASSUME NEW r \in Replica \cup {NoConn}, DropStep(r) PROVE CmInv'
    BY <1>0, <1>2, CmDropReplica DEF DropStep
<1>3. ASSUME NEW r \in Replica, NEW store, HangUpStep(r, store) PROVE CmInv'
    BY <1>0, <1>3, CmDropPrimary DEF HangUpStep, PrimaryKept
<1>4. CASE PrimaryAccept \/ PrimaryReject
    BY <1>0, <1>4, CmRequest
<1>5. CASE PrimaryDisconnect
    <2>1. PICK p : p = pr.conn
        OBVIOUS
    <2>2. p \in Replica
        BY <1>5, <2>1, DataHeld DEF PrimaryDisconnect
    <2>3. pr'.conn = p /\ Hurt(pr'.cm) /\ rr' = NotifyReplica(p, "DISCONNECTED")
          /\ UNCHANGED <<listenQ, rm>>
        BY <1>0, <1>5, <2>1, DisconnectEffect
    <2> QED
        BY <1>0, <2>1, <2>2, <2>3, CmEnding
<1>6. CASE PrimaryEstablished
    <2>1. /\ pr'.conn = pr.conn /\ pr'.cm = Tail(pr.cm) /\ pr.cm # <<>>
          /\ Head(pr.cm) = "ESTABLISHED" /\ pr.cm \in Seq(CmEvent)
          /\ UNCHANGED <<listenQ, rm, rr>>
        BY <1>0, <1>6, EstablishedEffect
    <2>2. Hurt(pr.cm) => Hurt(Tail(pr.cm))
        BY <2>1, EventTaken
    <2> QED
        BY <1>1, <2>1, <2>2
<1>7. CASE PrimarySendDone
    BY <1>0, <1>1, <1>7, SendDoneEffect
<1>8. CASE FinishStep
    <2>1. rr' = rr /\ rm' = rm /\ listenQ' = listenQ /\ \A q \in Replica : pr'.conn # q
        BY <1>8, ReplicationAssumption DEF FinishStep, NoPrimaryRdma
    <2>2. QueueOnce'
        BY <2>1 DEF CmInv, QueueOnce
    <2>3. ASSUME NEW q \in Replica PROVE (ConnPhase(q) /\ CmLife(q) /\ BothHear(q))'
        <3>1. ConnPhase(q) /\ CmLife(q)
            BY DEF CmInv
        <3>2. InQueue(q)' <=> InQueue(q)
            BY <2>1 DEF InQueue
        <3>3. CmLife(q)'
            BY <2>1, <3>1, <3>2 DEF CmLife, CmResolves, CmWaits, CmAccepted, CmUp
        <3> QED
            BY <2>1, <3>1, <3>2, <3>3 DEF ConnPhase, Early, BothHear
    <2> QED
        BY <2>2, <2>3 DEF CmInv
<1>9. CASE StreamStep
    BY <1>1, <1>9 DEF StreamStep
<1>10. ASSUME NEW p \in Replica, NEW n \in Nat, NextChunkStep(p, n) \/ FirstChunkStep(p, n)
       PROVE  CmInv'
    BY <1>1, <1>10 DEF NextChunkStep, FirstChunkStep, ChunkSent, Polls
<1>11. ASSUME NEW p \in Replica, AckStep(p) PROVE CmInv'
    BY <1>1, <1>11 DEF AckStep, AckTaken, Polls
<1>12. ASSUME NEW r \in Replica, PingStep(r) \/ PsyncStep(r) PROVE CmInv'
    BY <1>1, <1>12 DEF PingStep, PsyncStep
<1>13. ASSUME NEW r \in Replica, ReplicaConnect(r) PROVE CmInv'
    BY <1>0, <1>13, ConnectEffect, CmAloneQuiet DEF PrimaryKept
<1>14. ASSUME NEW r \in Replica,
              \/ HandshakeStep(r) \/ ReplicaResolveRoute(r) \/ ReplicaRdmaConnect(r)
              \/ ReplicaEstablished(r) \/ FinishedStep(r)
       PROVE  CmInv'
    <2>1. ~rr[r].conn => ~rr[r].est
        BY DEF FreshInv, NoReplicaRdma
    <2> QED
        BY <1>14, <2>1, CmReplica
<1>15. ASSUME NEW r \in Replica, CellStep(r) \/ CommandStep(r) \/ OnlineStep(r) PROVE CmInv'
    <2>1. /\ Alone(r) /\ listenQ' = listenQ /\ pr' = pr /\ rr'[r] = rr[r] /\ ~rr[r].conn
          /\ rm[r].state \in {"CATCH_UP", "ONLINE"}
        BY <1>15 DEF CellStep, CommandStep, OnlineStep, Follows, TokenTaken, PrimaryKept
    <2>2. rm \in [Replica -> ReplicaManager]
        BY <1>0 DEF TypeOK
    <2>3. rm'[r].state \in {"CATCH_UP", "ONLINE"}
        <3>1. CASE CommandStep(r)
            <4>1. PICK o : rm'[r] = [rm[r] EXCEPT !.offset = o]
                BY <3>1 DEF CommandStep, CommandDone
            <4> QED
                BY <2>1, <2>2, <4>1 DEF ReplicaManager
        <3>2. CASE CellStep(r) \/ OnlineStep(r)
            BY <2>1, <3>2 DEF CellStep, CellKept, OnlineStep
        <3> QED
            BY <1>15, <3>1, <3>2
    <2> QED
        BY <2>1, <2>3, CmAloneQuiet
<1>16. ASSUME NEW r \in Replica, ReplicaSendAck(r) PROVE CmInv'
    BY <1>0, <1>16, SendAckEffect, CmAloneQuiet DEF PrimaryKept
<1>17. ASSUME NEW r \in Replica, ReplicaSendDone(r) PROVE CmInv'
    BY <1>0, <1>17, ReplicaSendDoneEffect, CmAloneQuiet DEF PrimaryKept
<1>18. ASSUME NEW r \in Replica, ChunkStep(r) PROVE CmInv'
    BY <1>18, CmAloneQuiet DEF ChunkStep, ChunkTaken, ChunkWritten, ChunkInstalled, PrimaryKept
<1>19. ASSUME NEW r \in Replica, BreakStep(r) PROVE CmInv'
    BY <1>0, <1>19, CmEnding DEF BreakStep, PrimaryKept
<1>20. CASE PrimaryRestart
    BY <1>0, <1>20, CmRestart
<1>21. ASSUME NEW c \in Command, ClientWrite(c) PROVE CmInv'
    BY <1>1, <1>21 DEF ClientWrite
<1>22. CASE UNCHANGED vars
    BY <1>1, <1>22 DEF vars
<1> QED
    BY <1>2, <1>3, <1>4, <1>5, <1>6, <1>7, <1>8, <1>9, <1>10, <1>11, <1>12, <1>13,
       <1>14, <1>15, <1>16, <1>17, <1>18, <1>19, <1>20, <1>21, <1>22 DEF AnyStep

\* Both hold at first.
LEMMA CmInit == Init => FreshInv /\ CmInv
<1> SUFFICES ASSUME Init PROVE FreshInv /\ CmInv
    OBVIOUS
<1>1. /\ rm = [r \in Replica |-> ReplicaStarted]
      /\ rr = [r \in Replica |-> NoReplicaRdma]
      /\ listenQ = <<>> /\ pr = NoPrimaryRdma
    BY DEF Init
<1>2. FreshInv
    BY <1>1 DEF FreshInv, NoReplicaRdma
<1>3. QueueOnce /\ \A q \in Replica : ~InQueue(q) /\ pr.conn # q
    BY <1>1, ReplicationAssumption DEF QueueOnce, InQueue, NoPrimaryRdma
<1>4. \A q \in Replica : ~rr[q].conn /\ rm[q].state = "DOWN"
    BY <1>1 DEF NoReplicaRdma, ReplicaStarted
<1> QED
    BY <1>2, <1>3, <1>4 DEF CmInv, ConnPhase, CmLife, BothHear

-----------------------------------------------------------------------------
(* The Primary's slot and the state of its round.                           *)

SnapshotAt(o) == SnapshotOf(hist[o + 1], o)

\* The slot, the state and the held connection agree.
SlotShape ==
    /\ pm.state \in {"DISCONNECTED", "FULL_SYNC", "CATCH_UP", "ONLINE"}
    /\ (pm.state = "DISCONNECTED") <=> (pm.conn = NoConn)
    /\ pr.conn # NoConn => pm.state = "FULL_SYNC" /\ pr.recvPosted
    /\ pm.state = "CATCH_UP" => pm.aofLeft # Closed

\* The file that is being sent is the snapshot of the round's offset, at which
\* a command begins; what is read of it is what is sent.
RoundFile ==
    pm.state = "FULL_SYNC" =>
        /\ Boundary(pm.offset)
        /\ pm.aofLeft = Closed
        /\ pm.fileSize = SnapSize
        /\ snapFile = SnapshotAt(pm.offset)
        /\ pm.reader # Closed => pm.reader + pr.sent = SnapSize

\* The transfer ends when all of it is sent and acknowledged.
RoundEnd ==
    /\ pr.acked <= pr.sent
    /\ pr.discPending => /\ pr.sent = SnapSize /\ pr.acked = SnapSize
                         /\ pm.reader = Closed

RoundInv == SlotShape /\ RoundFile /\ RoundEnd

\* A step that only moves Replicas or CM events of the held connection.
LEMMA RoundQuiet ==
    ASSUME RoundInv, UNCHANGED <<aof, hist, snapFile, pm>>,
           pr'.conn = pr.conn, pr'.sent = pr.sent, pr'.acked = pr.acked,
           pr'.discPending = pr.discPending, pr'.recvPosted = pr.recvPosted
    PROVE  RoundInv'
<1>1. Boundary(pm.offset)' <=> Boundary(pm.offset)
    BY DEF Boundary
<1>2. SnapshotAt(pm.offset)' = SnapshotAt(pm.offset)
    BY DEF SnapshotAt
<1>3. SlotShape'
    BY DEF RoundInv, SlotShape
<1>4. RoundFile'
    BY <1>1, <1>2 DEF RoundInv, RoundFile
<1>5. RoundEnd'
    BY DEF RoundInv, RoundEnd
<1> QED
    BY <1>3, <1>4, <1>5 DEF RoundInv

\* No round.
LEMMA RoundNone ==
    ASSUME NEW o, pm' = PrimaryStarted(o), pr' = NoPrimaryRdma
    PROVE  RoundInv'
    BY DEF RoundInv, SlotShape, RoundFile, RoundEnd, PrimaryStarted, NoPrimaryRdma

\* The stream goes on: the full sync is over.
LEMMA RoundStreams ==
    ASSUME TypeInv, pm.conn # NoConn, pm'.conn = pm.conn,
           pr' = NoPrimaryRdma,
           pm'.state \in {"CATCH_UP", "ONLINE"},
           pm'.state = "CATCH_UP" => pm'.aofLeft # Closed
    PROVE  RoundInv'
    BY DEF RoundInv, SlotShape, RoundFile, RoundEnd, NoPrimaryRdma

\* RoundInv is kept by every step.
LEMMA RoundStep ==
    ASSUME TypeInv, LogInv, RoundInv, Grows, AnyStep PROVE RoundInv'
<1>0. /\ TypeOK /\ pm \in PrimaryManager /\ pr \in PrimaryRdma
      /\ pr.sent \in Nat /\ pr.acked \in Nat /\ SnapSize \in Nat \ {0}
      /\ pr.conn = NoConn => pr = NoPrimaryRdma
      /\ aof \in Seq(Cell) /\ Len(aof) \in Nat /\ pm.offset \in Nat
    BY ReplicationAssumption DEF TypeInv, TypeOK, ReaderOpen, PrimaryRdma, PrimaryManager
<1>1. ASSUME UNCHANGED <<aof, hist, snapFile, pm, pr>> PROVE RoundInv'
    BY <1>1, RoundQuiet
<1>2. ASSUME NEW r \in Replica \cup {NoConn}, DropStep(r) PROVE RoundInv'
    <2>1. CASE pm.conn = r
        <3>1. pm' = PrimaryStarted(pm.offset) /\ pr' = NoPrimaryRdma
            BY <1>0, <1>2, <2>1, DropReplicaEffect DEF DropStep
        <3>2. PICK o : pm' = PrimaryStarted(o)
            BY <3>1
        <3> QED
            BY <3>1, <3>2, RoundNone
    <2>2. CASE pm.conn # r
        BY <1>0, <1>1, <1>2, <2>2, DropReplicaEffect DEF DropStep
    <2> QED
        BY <2>1, <2>2
<1>3. ASSUME NEW r \in Replica, NEW store, HangUpStep(r, store) PROVE RoundInv'
    <2> DEFINE longer == Append(pr.cm, "DISCONNECTED")
    <2>1. pr' = pr \/ pr' = [pr EXCEPT !.cm = longer]
        BY <1>0, <1>3, DropPrimaryEffect DEF HangUpStep
    <2> HIDE DEF longer
    <2>2. /\ pr'.conn = pr.conn /\ pr'.sent = pr.sent /\ pr'.acked = pr.acked
          /\ pr'.discPending = pr.discPending /\ pr'.recvPosted = pr.recvPosted
        BY <1>0, <2>1 DEF PrimaryRdma
    <2> QED
        BY <1>3, <2>2, RoundQuiet DEF HangUpStep, PrimaryKept
<1>4. CASE PrimaryAccept
    <2>1. PICK h : h = Head(listenQ)
        OBVIOUS
    <2>2. /\ pm.state = "FULL_SYNC" /\ pr.conn = NoConn
          /\ pr'.conn = h /\ pr'.sent = 0 /\ pr'.acked = 0
          /\ ~pr'.discPending /\ pr'.recvPosted
          /\ UNCHANGED <<aof, hist, snapFile, pm>>
        BY <1>0, <1>4, <2>1, AcceptEffect
    <2>3. pr.sent = 0
        BY <1>0, <2>2 DEF NoPrimaryRdma
    <2>4. SlotShape'
        BY <2>2 DEF RoundInv, SlotShape
    <2>5. RoundFile'
        BY <2>2, <2>3 DEF RoundInv, RoundFile, Boundary, SnapshotAt
    <2>6. RoundEnd'
        BY <2>2 DEF RoundEnd
    <2> QED
        BY <2>4, <2>5, <2>6 DEF RoundInv
<1>5. CASE PrimaryReject
    BY <1>1, <1>5 DEF PrimaryReject
<1>6. CASE PrimaryEstablished
    BY <1>0, <1>6, EstablishedEffect, RoundQuiet
<1>7. CASE PrimarySendDone
    BY <1>0, <1>7, SendDoneEffect, RoundQuiet
<1>8. CASE PrimaryDisconnect
    <2>1. /\ pr'.conn = pr.conn /\ pr'.sent = pr.sent /\ pr'.recvPosted = pr.recvPosted
          /\ pr'.acked = pr.acked /\ pr'.discPending
          /\ pm'.state = pm.state /\ pm'.conn = pm.conn
          /\ pm'.offset = pm.offset /\ pm'.fileSize = pm.fileSize
          /\ pm'.aofLeft = pm.aofLeft /\ pm'.reader = Closed
          /\ pm.state = "FULL_SYNC"
          /\ pm.reader = 0 /\ pr.acked = pr.sent
          /\ UNCHANGED <<aof, hist, snapFile>>
        BY <1>0, <1>8, DisconnectEffect
    <2>2. pr.sent = SnapSize
        BY <1>0, <2>1 DEF RoundInv, RoundFile, Closed
    <2>3. SlotShape' /\ RoundEnd'
        BY <1>0, <2>1, <2>2 DEF RoundInv, SlotShape, RoundEnd
    <2>4. RoundFile'
        BY <2>1 DEF RoundInv, RoundFile, Boundary, SnapshotAt
    <2> QED
        BY <2>3, <2>4 DEF RoundInv
<1>9. CASE FinishStep
    <2>1. /\ pm'.conn = pm.conn /\ pm'.state \in {"CATCH_UP", "ONLINE"}
          /\ pm'.state = "CATCH_UP" => pm'.aofLeft # Closed
        <3>1. ASSUME NEW n \in Nat, AofSent("CATCH_UP", pm.offset, Len(aof), n)
              PROVE  pm'.conn = pm.conn /\ pm'.state = "CATCH_UP" /\ pm'.aofLeft # Closed
            BY <1>0, <3>1 DEF AofSent, Closed
        <3>2. ASSUME OnlineSent(pm.offset)
              PROVE  pm'.conn = pm.conn /\ pm'.state = "ONLINE"
            BY <3>2 DEF OnlineSent
        <3> QED
            BY <1>9, <3>1, <3>2 DEF FinishStep
    <2>2. pm.conn # NoConn /\ pr' = NoPrimaryRdma
        BY <1>9 DEF FinishStep, RoundInv, SlotShape
    <2> QED
        BY <2>1, <2>2, RoundStreams
<1>10. CASE StreamStep
    <2>1. /\ pm.conn \in Replica /\ pm.state \in {"CATCH_UP", "ONLINE"} /\ pr' = pr
        BY <1>10 DEF StreamStep
    <2>2. /\ pm'.conn = pm.conn /\ pm'.state \in {"CATCH_UP", "ONLINE"}
          /\ pm'.state = "CATCH_UP" => pm'.aofLeft # Closed
        <3>1. ASSUME NEW n \in Nat, NEW end \in Nat, AofSent(pm.state, SentPos, end, n)
              PROVE  pm'.conn = pm.conn /\ pm'.state = pm.state /\ pm'.aofLeft # Closed
            BY <1>0, <3>1 DEF AofSent, Closed
        <3>2. ASSUME OnlineSent(SentPos)
              PROVE  pm'.conn = pm.conn /\ pm'.state = "ONLINE"
            BY <3>2 DEF OnlineSent
        <3> QED
            BY <1>10, <2>1, <3>1, <3>2 DEF StreamStep
    <2>3. pr' = NoPrimaryRdma /\ pm.conn # NoConn
        BY <1>0, <2>1, ReplicationAssumption DEF RoundInv, SlotShape
    <2> QED
        BY <2>2, <2>3, RoundStreams
<1>11. ASSUME NEW p \in Replica, NEW n \in Nat, NextChunkStep(p, n) \/ FirstChunkStep(p, n)
       PROVE  RoundInv'
    <2>1. /\ pm'.state = pm.state /\ pm'.conn = pm.conn
          /\ pm'.offset = pm.offset /\ pm'.fileSize = pm.fileSize
          /\ pm'.aofLeft = pm.aofLeft
          /\ pm.reader \in Nat /\ pm'.reader = pm.reader - n /\ n <= pm.reader
          /\ pr'.conn = pr.conn /\ pr'.sent = pr.sent + n
          /\ pr'.acked = pr.acked /\ pr'.discPending = pr.discPending
          /\ pr'.recvPosted = pr.recvPosted
          /\ pm.state = "FULL_SYNC" /\ ~pr.discPending /\ UNCHANGED <<aof, hist, snapFile>>
        BY <1>11 DEF NextChunkStep, FirstChunkStep, ChunkSent, Polls
    <2>2. SlotShape'
        BY <2>1 DEF RoundInv, SlotShape
    <2>3. RoundFile'
        BY <1>0, <2>1 DEF RoundInv, RoundFile, Boundary, SnapshotAt, Closed
    <2>4. RoundEnd'
        BY <1>0, <2>1 DEF RoundInv, RoundEnd
    <2> QED
        BY <2>2, <2>3, <2>4 DEF RoundInv
<1>12. ASSUME NEW p \in Replica, AckStep(p) PROVE RoundInv'
    <2>1. /\ pr'.conn = pr.conn /\ pr'.sent = pr.sent /\ pr'.acked = pr.sent
          /\ pr'.discPending = pr.discPending /\ pr'.recvPosted = pr.recvPosted
          /\ ~pr.discPending /\ UNCHANGED <<aof, hist, snapFile, pm>>
        BY <1>12 DEF AckStep, AckTaken, Polls
    <2>2. SlotShape'
        BY <2>1 DEF RoundInv, SlotShape
    <2>3. RoundFile'
        BY <2>1 DEF RoundInv, RoundFile, Boundary, SnapshotAt
    <2>4. RoundEnd'
        BY <1>0, <2>1 DEF RoundInv, RoundEnd
    <2> QED
        BY <2>2, <2>3, <2>4 DEF RoundInv
<1>13. ASSUME NEW r \in Replica, PingStep(r) PROVE RoundInv'
    BY <1>1, <1>13 DEF PingStep
<1>14. ASSUME NEW r \in Replica, PsyncStep(r) PROVE RoundInv'
    <2>1. /\ pr.conn = NoConn /\ pr' = pr /\ UNCHANGED <<aof, hist, db>>
          /\ snapFile' = SnapshotOf(db, Len(aof))
          /\ pm'.state = "FULL_SYNC" /\ pm'.conn = r /\ pm'.offset = Len(aof)
          /\ pm'.fileSize = SnapSize /\ pm'.reader = SnapSize /\ pm'.aofLeft = Closed
        BY <1>14 DEF PsyncStep
    <2>2. pr.sent = 0 /\ pr.acked = 0 /\ ~pr.discPending
        BY <1>0, <2>1 DEF NoPrimaryRdma
    <2>3. SlotShape' /\ RoundEnd'
        BY <1>0, <2>1, <2>2, ReplicationAssumption DEF SlotShape, RoundEnd
    <2>4. hist[Len(aof) + 1] = db
        BY DEF LogInv
    <2>5. snapFile' = SnapshotAt(pm.offset)'
        BY <2>1, <2>4 DEF SnapshotAt
    <2>6. Boundary(pm.offset)'
        BY <1>0, <2>1 DEF Boundary
    <2>7. RoundFile'
        BY <1>0, <2>1, <2>2, <2>5, <2>6 DEF RoundFile
    <2> QED
        BY <2>3, <2>7 DEF RoundInv
<1>15. ASSUME NEW r \in Replica, ReplicaConnect(r) \/ ReplicaResolveRoute(r)
              \/ ReplicaEstablished(r) \/ ReplicaSendAck(r) \/ ReplicaSendDone(r)
       PROVE  RoundInv'
    BY <1>1, <1>15 DEF ReplicaConnect, ReplicaResolveRoute, ReplicaEstablished,
                       ReplicaSendAck, ReplicaSendDone, primaryVars
<1>16. ASSUME NEW r \in Replica, ReplicaRdmaConnect(r) PROVE RoundInv'
    BY <1>1, <1>16 DEF ReplicaRdmaConnect
<1>17. ASSUME NEW r \in Replica, HandshakeStep(r) \/ CellStep(r) \/ CommandStep(r)
              \/ OnlineStep(r) \/ FinishedStep(r) \/ ChunkStep(r)
       PROVE  RoundInv'
    BY <1>1, <1>17 DEF HandshakeStep, PongTaken, ResyncTaken, CellStep, CommandStep, OnlineStep,
                       Follows, TokenTaken, FinishedStep, ChunkStep, ChunkTaken, PrimaryKept
<1>18. ASSUME NEW r \in Replica, BreakStep(r) PROVE RoundInv'
    BY <1>18, RoundQuiet DEF BreakStep, PrimaryKept
<1>19. CASE PrimaryRestart
    <2>1. PICK o : pm' = PrimaryStarted(o)
        BY <1>19 DEF PrimaryRestart
    <2> QED
        BY <1>19, <2>1, RoundNone DEF PrimaryRestart
<1>20. ASSUME NEW c \in Command, ClientWrite(c) PROVE RoundInv'
    <2>1. UNCHANGED <<snapFile, pm, pr>>
        BY <1>20 DEF ClientWrite
    <2>2. SlotShape' /\ RoundEnd'
        BY <2>1 DEF RoundInv, SlotShape, RoundEnd
    <2>3. CASE pm.state = "FULL_SYNC"
        <3>1. Boundary(pm.offset) /\ snapFile = SnapshotAt(pm.offset)
            BY <2>3 DEF RoundInv, RoundFile
        <3>2. PICK o \in Nat : o = pm.offset
            BY <1>0
        <3>3. Boundary(o)' /\ hist'[o + 1] = hist[o + 1]
            <4>1. Boundary(o)
                BY <3>1, <3>2
            <4>2. Boundary(o)'
                BY <4>1 DEF Grows
            <4>3. o + 1 \in 1 .. Len(aof) + 1
                BY <1>0, <4>1 DEF Boundary
            <4> QED
                BY <4>2, <4>3 DEF Grows
        <3>4. Boundary(pm.offset)' /\ snapFile' = SnapshotAt(pm.offset)'
            BY <2>1, <3>1, <3>2, <3>3 DEF SnapshotAt
        <3>5. RoundFile'
            BY <2>1, <2>3, <3>4 DEF RoundInv, RoundFile
        <3> QED
            BY <2>2, <3>5 DEF RoundInv
    <2>4. CASE pm.state # "FULL_SYNC"
        BY <2>1, <2>2, <2>4 DEF RoundInv, RoundFile
    <2> QED
        BY <2>3, <2>4
<1>21. CASE UNCHANGED vars
    BY <1>1, <1>21 DEF vars
<1> QED
    BY <1>2, <1>3, <1>4, <1>5, <1>6, <1>7, <1>8, <1>9, <1>10, <1>11, <1>12, <1>13,
       <1>14, <1>15, <1>16, <1>17, <1>18, <1>19, <1>20, <1>21 DEF AnyStep

\* No round runs at first.
LEMMA RoundInit == Init => RoundInv
    BY DEF Init, RoundInv, SlotShape, RoundFile, RoundEnd, PrimaryStarted, NoPrimaryRdma

-----------------------------------------------------------------------------
(* The lines of the handshake.                                              *)

Resync(o, id) ==
    [line |-> "FULLRESYNC_RDMA", off |-> o, size |-> SnapSize, id |-> id]

\* One line at a time is on its way, and the one that names the round names the
\* offset of the round that holds the slot, if it is still this Replica's.
Shakes(r) ==
    \/ /\ tcp[r].p2r = <<>> /\ tcp[r].r2p \in {<<>>, <<"PING">>, <<"PSYNC">>}
       /\ pm.conn # r
    \/ /\ tcp[r].p2r = <<Pong>> /\ tcp[r].r2p = <<>>
       /\ pm.conn # r
    \/ /\ tcp[r].r2p = <<>>
       /\ \E o, id \in Nat :
             /\ tcp[r].p2r = <<Resync(o, id)>>
             /\ Boundary(o)
             /\ pm.conn = r => pm.state = "FULL_SYNC" /\ pm.offset = o

Lines(r) ==
    /\ rm[r].state = "DOWN" =>
          tcp[r].p2r = <<>> /\ tcp[r].r2p = <<>> /\ pm.conn # r
    /\ rm[r].state = "HANDSHAKE" => Shakes(r)
    /\ rm[r].state \in {"FULL_SYNC", "CATCH_UP", "ONLINE"} => tcp[r].r2p = <<>>

LineInv == \A r \in Replica : Lines(r)

\* A step that leaves the lines of q alone, or cuts what q has sent.
LEMMA LinesKept ==
    ASSUME LineInv, Grows, NEW q \in Replica, rm'[q].state = rm[q].state,
           tcp'[q].p2r = tcp[q].p2r, tcp'[q].r2p \in {<<>>, tcp[q].r2p},
           pm'.conn = q => /\ pm.conn = q /\ pm'.state = pm.state
                           /\ pm'.offset = pm.offset
    PROVE  Lines(q)'
<1>1. Lines(q)
    BY DEF LineInv
<1>2. ASSUME rm[q].state = "HANDSHAKE" PROVE Shakes(q)'
    <2>1. CASE \/ /\ tcp[q].p2r = <<>> /\ tcp[q].r2p \in {<<>>, <<"PING">>, <<"PSYNC">>}
                  /\ pm.conn # q
               \/ /\ tcp[q].p2r = <<Pong>> /\ tcp[q].r2p = <<>>
                  /\ pm.conn # q
        BY <2>1 DEF Shakes
    <2>2. CASE /\ tcp[q].r2p = <<>>
               /\ \E o, id \in Nat :
                     /\ tcp[q].p2r = <<Resync(o, id)>>
                     /\ Boundary(o)
                     /\ pm.conn = q => pm.state = "FULL_SYNC" /\ pm.offset = o
        <3>1. PICK o \in Nat, id \in Nat :
                     /\ tcp[q].p2r = <<Resync(o, id)>>
                     /\ Boundary(o)
                     /\ pm.conn = q => pm.state = "FULL_SYNC" /\ pm.offset = o
            BY <2>2
        <3>2. Boundary(o)'
            BY <3>1 DEF Grows
        <3> QED
            BY <2>2, <3>1, <3>2 DEF Shakes
    <2> QED
        BY <1>1, <1>2, <2>1, <2>2 DEF Lines, Shakes
<1> QED
    BY <1>1, <1>2 DEF Lines

\* A step of Replica r leaves the lines of the others alone.
LEMMA LinesAlone ==
    ASSUME LineInv, Grows, NEW r \in Replica, Alone(r), pm' = pm, Lines(r)'
    PROVE  LineInv'
<1>1. ASSUME NEW q \in Replica, q # r PROVE Lines(q)'
    <2>1. rm'[q] = rm[q] /\ tcp'[q] = tcp[q]
        BY <1>1 DEF Alone, Unmoved
    <2> QED
        BY <2>1, LinesKept
<1> QED
    BY <1>1 DEF LineInv

\* The stream is only sent to a Replica that has left the handshake.
LEMMA OwnerShakenHands ==
    ASSUME TypeInv, SlotInv, CmInv, RoundInv, LineInv, FinishStep \/ StreamStep,
           NEW q \in Replica, q = pm.conn
    PROVE  rm[q].state \notin {"DOWN", "HANDSHAKE"}
<1>1. Lines(q) /\ ConnPhase(q)
    BY DEF LineInv, CmInv
<1>2. CASE StreamStep
    BY <1>1, <1>2 DEF Lines, Shakes, StreamStep
<1>3. CASE FinishStep
    <2>1. pr.sent > 0
        BY <1>3, ReplicationAssumption DEF FinishStep, RoundInv, RoundEnd
    <2>2. pr.conn = q
        BY <2>1 DEF SlotInv, SnapshotToSlotOwner
    <2> QED
        BY <1>1, <2>2 DEF ConnPhase, Early
<1> QED
    BY <1>2, <1>3

\* What the stream changes of the connections.
LEMMA StreamTcp ==
    ASSUME TypeInv, RoundInv, FinishStep \/ StreamStep
    PROVE  /\ pm.conn \in Replica /\ pm'.conn = pm.conn
           /\ \A q \in Replica : q # pm.conn => tcp'[q] = tcp[q]
           /\ tcp'[pm.conn].r2p = tcp[pm.conn].r2p
           /\ tcp'[pm.conn].primary = tcp[pm.conn].primary
           /\ rm' = rm
<1>1. /\ TypeOK /\ pm \in PrimaryManager
    BY DEF TypeInv, TypeOK
<1>2. pm.conn \in Replica
    BY <1>1 DEF FinishStep, StreamStep, RoundInv, SlotShape, PrimaryManager
<1>3. pm'.conn = pm.conn /\ (tcp' = tcp \/ \E tokens : tcp' = Send(pm.conn, tokens)) /\ rm' = rm
    <2>1. ASSUME NEW s, NEW pos, NEW end, NEW n, AofSent(s, pos, end, n)
          PROVE  pm'.conn = pm.conn /\ \E tokens : tcp' = Send(pm.conn, tokens)
        BY <2>1 DEF AofSent
    <2>2. ASSUME NEW pos, OnlineSent(pos)
          PROVE  pm'.conn = pm.conn /\ \E tokens : tcp' = Send(pm.conn, tokens)
        BY <2>2 DEF OnlineSent
    <2>3. CASE FinishStep
        BY <2>1, <2>2, <2>3 DEF FinishStep
    <2>4. CASE StreamStep
        BY <2>1, <2>2, <2>4 DEF StreamStep
    <2> QED
        BY <2>3, <2>4
<1>4. CASE tcp' = tcp
    BY <1>2, <1>3, <1>4
<1>5. ASSUME NEW tokens, tcp' = Send(pm.conn, tokens)
      PROVE  /\ \A q \in Replica : q # pm.conn => tcp'[q] = tcp[q]
             /\ tcp'[pm.conn].r2p = tcp[pm.conn].r2p
             /\ tcp'[pm.conn].primary = tcp[pm.conn].primary
    BY <1>1, <1>2, <1>5, SendEffect
<1> QED
    BY <1>2, <1>3, <1>4, <1>5

\* LineInv is kept by every step.
LEMMA LinesStep ==
    ASSUME TypeInv, SlotInv, CmInv, RoundInv, LineInv, Grows, AnyStep
    PROVE  LineInv'
<1>0. TypeOK /\ rm \in [Replica -> ReplicaManager] /\ aof \in Seq(Cell)
    BY DEF TypeInv, TypeOK
<1>1. ASSUME UNCHANGED <<rm, tcp>>,
             pm'.conn # NoConn => /\ pm'.conn = pm.conn /\ pm'.state = pm.state
                                  /\ pm'.offset = pm.offset
      PROVE  LineInv'
    <2> SUFFICES ASSUME NEW q \in Replica PROVE Lines(q)'
        BY DEF LineInv
    <2> QED
        BY <1>1, LinesKept, ReplicationAssumption
<1>2. ASSUME NEW r \in Replica \cup {NoConn}, DropStep(r) PROVE LineInv'
    <2> SUFFICES ASSUME NEW q \in Replica PROVE Lines(q)'
        BY DEF LineInv
    <2>1. tcp'[q].p2r = tcp[q].p2r /\ tcp'[q].r2p \in {<<>>, tcp[q].r2p} /\ rm' = rm
        BY <1>0, <1>2, DropReplicaEffect DEF DropStep
    <2>2. pm' = pm \/ pm'.conn = NoConn
        BY <1>0, <1>2, DropReplicaEffect DEF DropStep, PrimaryStarted
    <2> QED
        BY <2>1, <2>2, LinesKept, ReplicationAssumption
<1>3. ASSUME NEW r \in Replica, NEW store, HangUpStep(r, store) PROVE LineInv'
    <2>1. Alone(r) /\ rm'[r].state = "DISCONNECTED" /\ pm' = pm
        BY <1>0, <1>3, DropPrimaryEffect DEF HangUpStep, PrimaryKept, Alone
    <2>2. Lines(r)'
        BY <2>1 DEF Lines
    <2> QED
        BY <2>1, <2>2, LinesAlone
<1>4. CASE PrimaryAccept \/ PrimaryReject \/ PrimaryEstablished \/ PrimarySendDone
    BY <1>1, <1>4 DEF PrimaryAccept, PrimaryReject, PrimaryEstablished, PrimarySendDone,
                      replicaVars
<1>5. CASE PrimaryDisconnect
    BY <1>0, <1>1, <1>5, DisconnectEffect
<1>6. CASE FinishStep \/ StreamStep
    <2>1. PICK p : p = pm.conn
        OBVIOUS
    <2>2. /\ p \in Replica /\ pm'.conn = p /\ rm' = rm
          /\ \A q \in Replica : q # p => tcp'[q] = tcp[q]
          /\ tcp'[p].r2p = tcp[p].r2p
        BY <1>6, <2>1, StreamTcp
    <2>3. ASSUME NEW q \in Replica, q # p PROVE Lines(q)'
        BY <2>2, <2>3, LinesKept
    <2>4. Lines(p)'
        <3>1. rm[p].state \notin {"DOWN", "HANDSHAKE"} /\ Lines(p)
            BY <1>6, <2>1, <2>2, OwnerShakenHands DEF LineInv
        <3> QED
            BY <2>2, <3>1 DEF Lines
    <2> QED
        BY <2>3, <2>4 DEF LineInv
<1>7. ASSUME NEW p \in Replica, NEW n \in Nat, NextChunkStep(p, n) \/ FirstChunkStep(p, n)
      PROVE  LineInv'
    BY <1>1, <1>7 DEF NextChunkStep, FirstChunkStep, ChunkSent, Polls
<1>8. ASSUME NEW p \in Replica, AckStep(p) PROVE LineInv'
    BY <1>1, <1>8 DEF AckStep, AckTaken, Polls
<1>9. ASSUME NEW r \in Replica, PingStep(r) PROVE LineInv'
    <2>1. ASSUME NEW q \in Replica, q # r PROVE Lines(q)'
        BY <1>9, <2>1, LinesKept DEF PingStep
    <2>2. Lines(r)'
        <3>1. /\ rm' = rm /\ pm' = pm /\ tcp[r].r2p # <<>> /\ Head(tcp[r].r2p) = "PING"
              /\ tcp'[r].r2p = Tail(tcp[r].r2p) /\ pm.conn # r
              /\ rm[r].state # "DISCONNECTED" => tcp'[r].p2r = Append(tcp[r].p2r, Pong)
            BY <1>9 DEF PingStep, ReplicaClosed
        <3>2. Lines(r)
            BY DEF LineInv
        <3>3. ASSUME rm[r].state = "HANDSHAKE" PROVE Shakes(r)'
            <4>1. tcp[r].p2r = <<>> /\ tcp[r].r2p = <<"PING">>
                BY <3>1, <3>2, <3>3 DEF Lines, Shakes
            <4>2. tcp'[r].p2r = <<Pong>> /\ tcp'[r].r2p = <<>>
                BY <3>1, <3>3, <4>1
            <4> QED
                BY <3>1, <4>2 DEF Shakes
        <3> QED
            BY <3>1, <3>2, <3>3 DEF Lines
    <2> QED
        BY <2>1, <2>2 DEF LineInv
<1>10. ASSUME NEW r \in Replica, PsyncStep(r) PROVE LineInv'
    <2>1. ASSUME NEW q \in Replica, q # r PROVE Lines(q)'
        BY <1>10, <2>1, LinesKept DEF PsyncStep
    <2>2. Lines(r)'
        <3>1. /\ rm' = rm /\ tcp[r].r2p # <<>> /\ Head(tcp[r].r2p) = "PSYNC"
              /\ tcp'[r].r2p = Tail(tcp[r].r2p) /\ aof' = aof
              /\ pm'.state = "FULL_SYNC" /\ pm'.conn = r /\ pm'.offset = Len(aof)
            BY <1>10 DEF PsyncStep
        <3>2. Lines(r) /\ syncCount + 1 \in Nat /\ Len(aof) \in Nat
            BY <1>0 DEF LineInv, TypeOK
        <3>3. ASSUME rm[r].state = "HANDSHAKE" PROVE Shakes(r)'
            <4>1. tcp[r].p2r = <<>> /\ tcp[r].r2p = <<"PSYNC">>
                BY <3>1, <3>2, <3>3 DEF Lines, Shakes
            <4>2. PICK o \in Nat, id \in Nat : o = Len(aof) /\ id = syncCount + 1
                BY <3>2
            <4>3. tcp'[r].p2r = Append(tcp[r].p2r, Resync(o, id))
                BY <1>10, <3>3, <4>2 DEF PsyncStep, ReplicaClosed, Resync
            <4>4. tcp'[r].p2r = <<Resync(o, id)>> /\ tcp'[r].r2p = <<>>
                BY <3>1, <4>1, <4>3
            <4>5. Boundary(o)'
                BY <3>1, <4>2 DEF Boundary
            <4> QED
                BY <3>1, <4>2, <4>4, <4>5 DEF Shakes
        <3> QED
            BY <3>1, <3>2, <3>3 DEF Lines
    <2> QED
        BY <2>1, <2>2 DEF LineInv
<1>11. ASSUME NEW r \in Replica, ReplicaConnect(r) PROVE LineInv'
    <2>1. /\ Alone(r) /\ pm' = pm /\ rm[r].state = "DOWN" /\ rm'[r].state = "HANDSHAKE"
          /\ tcp'[r].r2p = <<"PING">> /\ tcp'[r].p2r = tcp[r].p2r
        BY <1>0, <1>11, ConnectEffect DEF PrimaryKept
    <2>2. Lines(r)'
        BY <2>1 DEF LineInv, Lines, Shakes
    <2> QED
        BY <2>1, <2>2, LinesAlone
<1>12. ASSUME NEW r \in Replica, HandshakeStep(r) PROVE LineInv'
    <2>0. /\ Alone(r) /\ pm' = pm /\ rm[r].state = "HANDSHAKE" /\ tcp[r].p2r # <<>>
          /\ Lines(r) /\ Shakes(r)
        BY <1>12 DEF HandshakeStep, PrimaryKept, LineInv, Lines
    <2>1. CASE PongTaken(r)
        <3>1. /\ Head(tcp[r].p2r) = Pong /\ rm'[r] = rm[r]
              /\ tcp'[r].p2r = Tail(tcp[r].p2r) /\ tcp'[r].r2p = Append(tcp[r].r2p, "PSYNC")
            BY <2>1 DEF PongTaken
        <3>2. ASSUME NEW o, NEW id, tcp[r].p2r = <<Resync(o, id)>> PROVE FALSE
            BY <3>1, <3>2 DEF Resync, Pong
        <3>3. tcp[r].p2r = <<Pong>> /\ tcp[r].r2p = <<>> /\ pm.conn # r
            BY <2>0, <3>2 DEF Shakes
        <3>4. tcp'[r].p2r = <<>> /\ tcp'[r].r2p = <<"PSYNC">>
            BY <3>1, <3>3
        <3>5. Lines(r)'
            BY <2>0, <3>1, <3>3, <3>4 DEF Lines, Shakes
        <3> QED
            BY <2>0, <3>5, LinesAlone
    <2>2. CASE ResyncTaken(r, Head(tcp[r].p2r))
        <3>1. /\ Head(tcp[r].p2r) \in FullResync /\ rm'[r].state = "FULL_SYNC"
              /\ tcp'[r].r2p = tcp[r].r2p
            BY <2>2 DEF ResyncTaken
        <3>2. tcp[r].p2r # <<Pong>>
            BY <3>1 DEF Pong, FullResync
        <3>3. Lines(r)'
            BY <2>0, <3>1, <3>2 DEF Lines, Shakes
        <3> QED
            BY <2>0, <3>3, LinesAlone
    <2> QED
        BY <1>12, <2>1, <2>2 DEF HandshakeStep
<1>13. ASSUME NEW r \in Replica, Alone(r), pm' = pm, tcp'[r].r2p = tcp[r].r2p,
              rm[r].state \in {"FULL_SYNC", "CATCH_UP", "ONLINE"},
              rm'[r].state \in {"FULL_SYNC", "CATCH_UP", "ONLINE"}
       PROVE  LineInv'
    <2>1. Lines(r)'
        BY <1>13 DEF LineInv, Lines
    <2> QED
        BY <1>13, <2>1, LinesAlone
<1>14. ASSUME NEW r \in Replica, CellStep(r) \/ CommandStep(r) \/ OnlineStep(r) PROVE LineInv'
    <2>1. /\ Alone(r) /\ pm' = pm /\ tcp'[r].r2p = tcp[r].r2p
          /\ rm[r].state \in {"CATCH_UP", "ONLINE"}
        BY <1>14 DEF CellStep, CommandStep, OnlineStep, Follows, TokenTaken, PrimaryKept
    <2>2. rm'[r].state \in {"CATCH_UP", "ONLINE"}
        <3>1. CASE CommandStep(r)
            <4>1. PICK o : rm'[r] = [rm[r] EXCEPT !.offset = o]
                BY <3>1 DEF CommandStep, CommandDone
            <4> QED
                BY <1>0, <2>1, <4>1 DEF ReplicaManager
        <3>2. CASE CellStep(r) \/ OnlineStep(r)
            BY <2>1, <3>2 DEF CellStep, CellKept, OnlineStep
        <3> QED
            BY <1>14, <3>1, <3>2
    <2> QED
        BY <1>13, <2>1, <2>2
<1>15. ASSUME NEW r \in Replica, ChunkStep(r) PROVE LineInv'
    BY <1>13, <1>15 DEF ChunkStep, ChunkTaken, ChunkWritten, ChunkInstalled, PrimaryKept
<1>16. ASSUME NEW r \in Replica, ReplicaResolveRoute(r) \/ ReplicaEstablished(r)
              \/ ReplicaSendAck(r) \/ ReplicaSendDone(r)
       PROVE  LineInv'
    BY <1>1, <1>16 DEF ReplicaResolveRoute, ReplicaEstablished,
                       ReplicaSendAck, ReplicaSendDone, primaryVars
<1>17. ASSUME NEW r \in Replica, ReplicaRdmaConnect(r) PROVE LineInv'
    BY <1>1, <1>17 DEF ReplicaRdmaConnect
<1>18. ASSUME NEW r \in Replica, FinishedStep(r) \/ BreakStep(r) PROVE LineInv'
    BY <1>1, <1>18 DEF FinishedStep, BreakStep, PrimaryKept
<1>19. CASE PrimaryRestart
    <2> SUFFICES ASSUME NEW q \in Replica PROVE Lines(q)'
        BY DEF LineInv
    <2>1. tcp'[q].p2r = tcp[q].p2r /\ tcp'[q].r2p \in {<<>>, tcp[q].r2p} /\ rm' = rm
        BY <1>0, <1>19, RestartEffect
    <2>2. pm'.conn = NoConn
        BY <1>19 DEF PrimaryRestart, PrimaryStarted
    <2> QED
        BY <2>1, <2>2, LinesKept, ReplicationAssumption
<1>20. ASSUME NEW c \in Command, ClientWrite(c) PROVE LineInv'
    BY <1>1, <1>20 DEF ClientWrite
<1>21. CASE UNCHANGED vars
    BY <1>1, <1>21 DEF vars
<1> QED
    BY <1>2, <1>3, <1>4, <1>5, <1>6, <1>7, <1>8, <1>9, <1>10, <1>11, <1>12,
       <1>14, <1>15, <1>16, <1>17, <1>18, <1>19, <1>20, <1>21 DEF AnyStep

\* No Replica has said anything at first.
LEMMA LinesInit == Init => LineInv
<1> SUFFICES ASSUME Init, NEW q \in Replica PROVE Lines(q)
    BY DEF LineInv
<1>1. rm[q].state = "DOWN" /\ tcp[q].p2r = <<>> /\ tcp[q].r2p = <<>> /\ pm.conn = NoConn
    BY DEF Init, ReplicaStarted, PrimaryStarted
<1> QED
    BY <1>1, ReplicationAssumption DEF Lines
=============================================================================
