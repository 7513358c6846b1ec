---------------------------- MODULE Replication -----------------------------
(***************************************************************************)
(* Primary-Replica replication: the replication manager of the Primary,    *)
(* the replication manager of every Replica process, the TCP control       *)
(* connections between them and the RDMA connection that carries the       *)
(* snapshot.                                                               *)
(*                                                                         *)
(* A process is one thread of cooperative coroutines: a handler or stream  *)
(* callback runs to its end before another one starts, so one call is one  *)
(* action.  The one exception is a stream call that takes a CM event, or   *)
(* submits an ACK, and then polls the completion queue: that poll may find *)
(* nothing, so it is an action of its own, of this call or of the next.    *)
(* A Replica process connects once in its life (there is no reconnection), *)
(* so its name also names its TCP connection and its RDMA connection; a    *)
(* restarted Replica is another element of Replica.  Its working directory *)
(* may hold an AOF from an earlier life.                                   *)
(***************************************************************************)
EXTENDS KVEngine

CONSTANTS
    Replica,      \* Replica processes
    NoConn,       \* fd -1, a NULL connection
    NotServing,   \* what a read of a LOADING Replica returns
    SnapSize,     \* cells in a snapshot file
    ChunkCap,     \* KVS_REPLICATION_RDMA_BUFFER_CAPACITY: cells of one chunk
    ReadCap,      \* BUFFER_LENGTH: AOF cells read and sent by one stream call
    OldAof,       \* what a Replica may find in its appendonly.aof at start
    MaxAof,       \* bound: AOF cells of the Primary
    MaxFaults,    \* bound: failures injected
    ConnectInTime \* TRUE: no connect deadline expires while the Primary serves

ASSUME ReplicationAssumption ==
    /\ NoConn \notin Replica
    /\ NotServing \notin Database
    /\ SnapSize \in Nat \ {0}
    /\ ChunkCap \in Nat \ {0}
    /\ ReadCap \in Nat \ {0}
    /\ OldAof \subseteq Seq(Cell)
    /\ MaxAof \in Nat
    /\ MaxFaults \in Nat
    /\ ConnectInTime \in BOOLEAN

VARIABLES
    db,         \* the Primary's engine
    aof,        \* the Primary's appendonly.aof
    hist,       \* history: hist[o + 1] is the engine at AOF offset o
    snapFile,   \* the Primary's replication.snapshot
    syncCount,  \* how many full_sync_id values have been generated
    pm,         \* the Primary's replication manager
    pr,         \* the Primary's rdma_sync and the held RDMA connection
    listenQ,    \* CONNECT_REQUESTs waiting at the Primary's RDMA listener
    rm,         \* rm[r]: the replication manager of Replica r
    rr,         \* rr[r]: rdma_sync and RDMA connection of Replica r
    rs,         \* rs[r]: engine and files of Replica r
    tcp,        \* tcp[r]: the control connection of Replica r
    wire,       \* wire[r]: RDMA messages between Replica r and the Primary
    faults      \* how many failures have been injected

primaryVars == <<db, aof, hist, snapFile, syncCount, pm, pr, listenQ>>
replicaVars == <<rm, rr, rs>>
vars == <<db, aof, hist, snapFile, syncCount, pm, pr, listenQ,
          rm, rr, rs, tcp, wire, faults>>

-----------------------------------------------------------------------------
(* Data.                                                                    *)

Closed == -1   \* a reader or a writer whose fd is -1

\* A snapshot file of the engine d at AOF offset o.  The header, the records
\* and the CRC are cut into SnapSize cells.
SnapCell == [db : Database, off : Nat, part : 1 .. SnapSize]

SnapshotOf(d, o) ==
    [i \in 1 .. SnapSize |-> [db |-> d, off |-> o, part |-> i]]

\* kvs_snapshot_store_load_with_checkpoint accepts a file only when its header,
\* length and CRC agree, that is when it is one whole saved snapshot.
Loadable(file) ==
    /\ file # <<>>
    /\ file = SnapshotOf(file[1].db, file[1].off)

\* The lines that travel Primary to Replica next to raw AOF cells.
Pong          == [line |-> "PONG"]
FullResync    == [line : {"FULLRESYNC_RDMA"}, off : Nat, size : Nat, id : Nat]
OnlineLine    == [line : {"ONLINE"}, off : Nat]
Token         == {Pong} \cup FullResync \cup OnlineLine \cup Cell

RdmaMessage   == [kind : {"READY", "SNAPSHOT_ACK"}, n : Nat]

CmEvent == {"ADDR_RESOLVED", "ROUTE_RESOLVED", "ESTABLISHED",
            "DISCONNECTED", "ERROR"}

ManagerState == {"DISCONNECTED", "HANDSHAKE", "FULL_SYNC", "CATCH_UP",
                 "ONLINE"}

Min2(a, b) == IF a <= b THEN a ELSE b

-----------------------------------------------------------------------------
(* Types.                                                                   *)

PrimaryManager ==
    [state    : ManagerState,
     conn     : Replica \cup {NoConn},  \* snapshot_connection_fd
     syncId   : Nat,                    \* full_sync_id, 0 when empty
     offset   : Nat,                    \* replication_offset
     fileSize : Nat \cup {-1},          \* snapshot_file_size
     reader   : Nat \cup {Closed},      \* snapshot_reader.remaining
     aofPos   : Nat,                    \* aof_reader.offset
     aofLeft  : Nat \cup {Closed}]      \* aof_reader.remaining

PrimaryRdma ==
    [conn        : Replica \cup {NoConn},  \* rdma_sync.connection
     est         : BOOLEAN,                \* established
     sent        : Nat,                    \* snapshot_bytes
     acked       : Nat,                    \* acknowledged_bytes
     sendPending : BOOLEAN,
     discPending : BOOLEAN,
     recvPosted  : BOOLEAN,                \* connection->recv_pending
     cm          : Seq(CmEvent)]           \* CM events of the connection

ReplicaManager ==
    [state    : ManagerState \cup {"DOWN"},  \* DOWN: not started yet
     syncId   : Nat,
     offset   : Nat,
     fileSize : Nat,
     writer   : Nat \cup {Closed}]           \* snapshot_writer.remaining

ReplicaRdma ==
    [conn        : BOOLEAN,
     est         : BOOLEAN,
     bytes       : Nat,                      \* snapshot_bytes
     acked       : Nat,                      \* acknowledged_bytes
     sendPending : BOOLEAN,
     recvPosted  : BOOLEAN,
     cm          : Seq(CmEvent)]

ReplicaStore ==
    [db     : Database,
     aof    : Seq(Cell),      \* appendonly.aof
     tmp    : Seq(SnapCell),  \* snapshot.db.replication.tmp
     snapDb : Seq(SnapCell),  \* snapshot.db, empty when there is none
     buf    : Seq(Cell)]      \* bytes of an incomplete command

TcpConn ==
    [primary : {"none", "open", "closed"},   \* the Primary's end
     p2r     : Seq(Token),
     r2p     : Seq({"PING", "PSYNC"})]

Wire == [pr : Seq(Seq(SnapCell)), rp : Seq(RdmaMessage)]

\* TypeOK: every variable has the type of the C object it stands for.
TypeOK ==
    /\ db \in Database
    /\ aof \in Seq(Cell)
    /\ hist \in Seq(Database)
    /\ snapFile \in Seq(SnapCell)
    /\ syncCount \in Nat
    /\ pm \in PrimaryManager
    /\ pr \in PrimaryRdma
    /\ listenQ \in Seq(Replica)
    /\ rm \in [Replica -> ReplicaManager]
    /\ rr \in [Replica -> ReplicaRdma]
    /\ rs \in [Replica -> ReplicaStore]
    /\ tcp \in [Replica -> TcpConn]
    /\ wire \in [Replica -> Wire]
    /\ faults \in Nat

-----------------------------------------------------------------------------
(* Initial state: the Primary has recovered and listens, no Replica runs.   *)

NoPrimaryRdma ==
    [conn |-> NoConn, est |-> FALSE, sent |-> 0, acked |-> 0,
     sendPending |-> FALSE, discPending |-> FALSE, recvPosted |-> FALSE,
     cm |-> <<>>]

NoReplicaRdma ==
    [conn |-> FALSE, est |-> FALSE, bytes |-> 0, acked |-> 0,
     sendPending |-> FALSE, recvPosted |-> FALSE, cm |-> <<>>]

\* kvs_replication_init of a Primary whose AOF ends at offset.
PrimaryStarted(offset) ==
    [state |-> "DISCONNECTED", conn |-> NoConn, syncId |-> 0,
     offset |-> offset, fileSize |-> -1, reader |-> Closed,
     aofPos |-> 0, aofLeft |-> Closed]

\* kvs_replication_init of a Replica.
ReplicaStarted ==
    [state |-> "DOWN", syncId |-> 0, offset |-> 0, fileSize |-> 0,
     writer |-> Closed]

EmptyWire == [pr |-> <<>>, rp |-> <<>>]

Init ==
    /\ db = EmptyDb
    /\ aof = <<>>
    /\ hist = <<EmptyDb>>
    /\ snapFile = <<>>
    /\ syncCount = 0
    /\ pm = PrimaryStarted(0)
    /\ pr = NoPrimaryRdma
    /\ listenQ = <<>>
    /\ rm = [r \in Replica |-> ReplicaStarted]
    /\ rr = [r \in Replica |-> NoReplicaRdma]
    /\ \E old \in [Replica -> OldAof] :
           rs = [r \in Replica |->
                   [db |-> EmptyDb, aof |-> old[r], tmp |-> <<>>,
                    snapDb |-> <<>>, buf |-> <<>>]]
    /\ tcp = [r \in Replica |-> [primary |-> "none", p2r |-> <<>>, r2p |-> <<>>]]
    /\ wire = [r \in Replica |-> EmptyWire]
    /\ faults = 0

-----------------------------------------------------------------------------
(* Closing a connection, on either side.                                    *)

ReplicaClosed(r) == rm[r].state = "DISCONNECTED"

\* The CM event e reaches the Replica end of RDMA connection q, if it exists.
NotifyReplica(q, e) ==
    IF q # NoConn /\ rr[q].conn
    THEN [rr EXCEPT ![q].cm = Append(@, e)]
    ELSE rr

\* The CM event e reaches the Primary end of RDMA connection r, if it is held.
NotifyPrimary(r, e) ==
    IF pr.conn = r THEN [pr EXCEPT !.cm = Append(@, e)] ELSE pr

CutWire(q) ==
    IF q = NoConn THEN wire ELSE [wire EXCEPT ![q] = EmptyWire]

\* Mutant: the slot is released but the socket of connection r stays open.
BugDropWithoutClose(r) ==
    /\ tcp' = [tcp EXCEPT ![r].r2p = <<>>]
    /\ IF pm.conn = r
       THEN /\ pm' = PrimaryStarted(pm.offset)
            /\ pr' = NoPrimaryRdma
            /\ rr' = NotifyReplica(pr.conn, "DISCONNECTED")
            /\ wire' = CutWire(pr.conn)
       ELSE UNCHANGED <<pm, pr, rr, wire>>

\* server_reader leaves its loop for the Primary's end of connection r, then
\* kvs_replication_on_replica_disconnected runs.
DropReplica(r) ==
    /\ tcp' = [tcp EXCEPT ![r].primary = "closed", ![r].r2p = <<>>]
    /\ IF pm.conn = r
       THEN /\ pm' = PrimaryStarted(pm.offset)
            /\ pr' = NoPrimaryRdma
            /\ rr' = NotifyReplica(pr.conn, "DISCONNECTED")
            /\ wire' = CutWire(pr.conn)
       ELSE UNCHANGED <<pm, pr, rr, wire>>

\* Mutant: an ONLINE Replica that loses the Primary waits for more catch-up.
BugKeepFollowing(r, store) ==
    /\ rm' = [rm EXCEPT ![r].state = IF @ = "ONLINE" THEN "CATCH_UP"
                                     ELSE "DISCONNECTED",
                        ![r].syncId = 0, ![r].writer = Closed]
    /\ rr' = [rr EXCEPT ![r] = NoReplicaRdma]
    /\ rs' = [rs EXCEPT ![r] = [store EXCEPT !.tmp = <<>>, !.buf = <<>>]]
    /\ tcp' = [tcp EXCEPT ![r].p2r = <<>>]
    /\ pr' = NotifyPrimary(r, "DISCONNECTED")
    /\ wire' = [wire EXCEPT ![r] = EmptyWire]

\* server_reader leaves its loop for the Replica's end, then
\* kvs_replication_on_primary_disconnected runs.  store is what the handler
\* left of the engine and the files.
DropPrimary(r, store) ==
    /\ rm' = [rm EXCEPT ![r].state = "DISCONNECTED", ![r].syncId = 0,
                        ![r].writer = Closed]
    /\ rr' = [rr EXCEPT ![r] = NoReplicaRdma]
    /\ rs' = [rs EXCEPT ![r] = [store EXCEPT !.tmp = <<>>, !.buf = <<>>]]
    /\ tcp' = [tcp EXCEPT ![r].p2r = <<>>]
    /\ pr' = NotifyPrimary(r, "DISCONNECTED")
    /\ wire' = [wire EXCEPT ![r] = EmptyWire]

\* ntyco_send_all of tokens on connection r; a closed Replica discards them.
Send(r, tokens) ==
    IF ReplicaClosed(r) THEN tcp ELSE [tcp EXCEPT ![r].p2r = @ \o tokens]

-----------------------------------------------------------------------------
(* The Primary's clients.                                                   *)

\* A write command of a client: executed, appended to the AOF and flushed
\* before the reply.  A command that does not return OK changes nothing.
ClientWrite(c) ==
    /\ Len(aof) + CmdLen <= MaxAof
    /\ ExecStatus(db, c) = "OK"
    /\ db' = Execute(db, c)
    /\ aof' = aof \o Encode(c)
    /\ hist' = hist \o [i \in 1 .. CmdLen |->
                          IF i = CmdLen THEN Execute(db, c) ELSE db]
    /\ UNCHANGED <<snapFile, syncCount, pm, pr, listenQ, rm, rr, rs, tcp,
                   wire, faults>>

-----------------------------------------------------------------------------
(* The Primary: control lines (kvs_replication_frame_protocol).  The slot   *)
(* owner's coroutine stays in its stream loop and reads nothing.            *)

PrimaryReads(r, line) ==
    /\ tcp[r].primary = "open"
    /\ pm.conn # r
    /\ tcp[r].r2p # <<>>
    /\ Head(tcp[r].r2p) = line

PrimaryPing(r) ==
    /\ PrimaryReads(r, "PING")
    /\ tcp' = [tcp EXCEPT ![r].r2p = Tail(@),
                          ![r].p2r = IF ReplicaClosed(r) THEN @
                                     ELSE Append(@, Pong)]
    /\ UNCHANGED <<primaryVars, replicaVars, wire, faults>>

\* Mutant: only the RDMA connection is looked at, not the slot.
BugBusyRdmaOnly == pr.conn # NoConn

\* PSYNC: the only slot is taken, or an RDMA connection is still held.
Busy == pm.conn # NoConn \/ pr.conn # NoConn

\* PSYNC: save replication.snapshot with the checkpoint O, open it, draw a new
\* full_sync_id and answer FULLRESYNC_RDMA; EBUSY closes the connection.
PrimaryPsync(r) ==
    /\ PrimaryReads(r, "PSYNC")
    /\ IF Busy
       THEN /\ DropReplica(r)
            /\ UNCHANGED <<snapFile, syncCount>>
       ELSE /\ snapFile' = SnapshotOf(db, Len(aof))
            /\ syncCount' = syncCount + 1
            /\ pm' = [pm EXCEPT !.state = "FULL_SYNC", !.conn = r,
                                !.syncId = syncCount + 1,
                                !.offset = Len(aof), !.fileSize = SnapSize,
                                !.reader = SnapSize,
                                !.aofPos = 0, !.aofLeft = Closed]
            /\ tcp' = [tcp EXCEPT
                         ![r].r2p = Tail(@),
                         ![r].p2r = IF ReplicaClosed(r) THEN @
                                    ELSE Append(@, [line |-> "FULLRESYNC_RDMA",
                                                    off |-> Len(aof),
                                                    size |-> SnapSize,
                                                    id |-> syncCount + 1])]
            /\ UNCHANGED <<pr, rr, wire>>
    /\ UNCHANGED <<db, aof, hist, listenQ, rm, rs, faults>>

\* Mutant: the stream loop does not probe its socket, so that the end of the
\* slot owner goes unnoticed.
BugNoProbe(r) ==
    /\ tcp[r].primary = "open"
    /\ ReplicaClosed(r)
    /\ tcp[r].r2p = <<>>
    /\ pm.conn # r
    /\ DropReplica(r)
    /\ UNCHANGED <<db, aof, hist, snapFile, syncCount, listenQ, rm, rs, faults>>

\* The Replica closed its end: recv returns 0, or the stream loop's MSG_PEEK
\* probe does, or a send fails.  The probe sees the end of the stream only when
\* no unread byte is in front of it.
PrimaryPeerClosed(r) ==
    /\ tcp[r].primary = "open"
    /\ ReplicaClosed(r)
    /\ tcp[r].r2p = <<>>
    /\ DropReplica(r)
    /\ UNCHANGED <<db, aof, hist, snapFile, syncCount, listenQ, rm, rs, faults>>

-----------------------------------------------------------------------------
(* The Primary: full sync (kvs_replication_stream in state FULL_SYNC).      *)

\* kvs_rdma_listener_poll takes a CONNECT_REQUEST while no connection is held:
\* prepare (which posts the first receive) and accept.  A request whose sender
\* is gone is accepted too; the failure shows in a later CM event.
PrimaryAccept ==
    /\ pm.state = "FULL_SYNC"
    /\ listenQ # <<>>
    /\ pr.conn = NoConn
    /\ LET q == Head(listenQ) IN
       /\ \E events \in IF rr[q].conn THEN {<<"ESTABLISHED">>}
                        ELSE {<<"ERROR">>, <<"ESTABLISHED", "DISCONNECTED">>} :
             pr' = [NoPrimaryRdma EXCEPT !.conn = q, !.recvPosted = TRUE,
                                         !.cm = events]
       /\ rr' = NotifyReplica(q, "ESTABLISHED")
    /\ listenQ' = Tail(listenQ)
    /\ UNCHANGED <<db, aof, hist, snapFile, syncCount, pm, rm, rs, tcp, wire,
                   faults>>

\* kvs_rdma_listener_poll takes a CONNECT_REQUEST while a connection is held:
\* the request is rejected, the held connection is untouched.
PrimaryReject ==
    /\ pm.state = "FULL_SYNC"
    /\ listenQ # <<>>
    /\ pr.conn # NoConn
    /\ rr' = NotifyReplica(Head(listenQ), "ERROR")
    /\ listenQ' = Tail(listenQ)
    /\ UNCHANGED <<db, aof, hist, snapFile, syncCount, pm, pr, rm, rs, tcp,
                   wire, faults>>

PrimaryCmEvent(e) ==
    /\ pm.state = "FULL_SYNC"
    /\ pr.cm # <<>>
    /\ Head(pr.cm) = e

PrimaryEstablished ==
    /\ PrimaryCmEvent("ESTABLISHED")
    /\ pr' = [pr EXCEPT !.est = TRUE, !.cm = Tail(@)]
    /\ UNCHANGED <<db, aof, hist, snapFile, syncCount, pm, listenQ,
                   replicaVars, tcp, wire, faults>>

\* Mutant: the reader subtracts the size of the buffer, not of what it read.
BugReaderRemaining(state, pos, end) ==
    LET n == Min2(ReadCap, end - pos) IN
    /\ pm' = [pm EXCEPT !.state = state, !.reader = Closed,
                        !.aofPos = pos + n, !.aofLeft = end - pos - ReadCap]
    /\ tcp' = Send(pm.conn, SubSeq(aof, pos + 1, pos + n))

\* Mutant: the reader does not subtract what it read from what remains.
BugReaderNotConsumed(state, pos, end) ==
    LET n == Min2(ReadCap, end - pos) IN
    /\ pm' = [pm EXCEPT !.state = state, !.reader = Closed,
                        !.aofPos = pos + n, !.aofLeft = end - pos]
    /\ tcp' = Send(pm.conn, SubSeq(aof, pos + 1, pos + n))

\* kvs_aof_reader_open [pos, end) if needed, kvs_aof_reader_read of one block,
\* and its transmission.
SendAof(state, pos, end) ==
    LET n == Min2(ReadCap, end - pos) IN
    /\ pm' = [pm EXCEPT !.state = state, !.reader = Closed,
                        !.aofPos = pos + n, !.aofLeft = end - pos - n]
    /\ tcp' = Send(pm.conn, SubSeq(aof, pos + 1, pos + n))

\* Mutant: ONLINE announces where the round began, not where it ended.
BugOnlineOldOffset(pos) ==
    /\ pm' = [pm EXCEPT !.state = "ONLINE", !.reader = Closed, !.offset = pos,
                        !.aofPos = 0, !.aofLeft = Closed]
    /\ tcp' = Send(pm.conn, <<[line |-> "ONLINE", off |-> pm.offset]>>)

\* The round is sent up to the end of the AOF: announce it.
SendOnline(pos) ==
    /\ pm' = [pm EXCEPT !.state = "ONLINE", !.reader = Closed, !.offset = pos,
                        !.aofPos = 0, !.aofLeft = Closed]
    /\ tcp' = Send(pm.conn, <<[line |-> "ONLINE", off |-> pos]>>)

\* The end of a full sync that the Primary itself asked for.
TransferComplete ==
    /\ pr.discPending
    /\ ~pr.sendPending
    /\ pr.sent = pm.fileSize
    /\ pr.acked = pr.sent

\* DISCONNECTED: after a complete transfer close the RDMA connection, start the
\* catch-up at O (kvs_replication_primary_start_catch_up) and go on with the AOF
\* in the same call; otherwise the round fails.
PrimaryDisconnected ==
    /\ PrimaryCmEvent("DISCONNECTED")
    /\ IF TransferComplete
       THEN /\ pr' = NoPrimaryRdma
            /\ wire' = CutWire(pr.conn)
            /\ IF Len(aof) > pm.offset
               THEN SendAof("CATCH_UP", pm.offset, Len(aof))
               ELSE SendOnline(pm.offset)
            /\ UNCHANGED rr
       ELSE DropReplica(pm.conn)
    /\ UNCHANGED <<db, aof, hist, snapFile, syncCount, listenQ, rm, rs, faults>>

\* Any CM event the handler does not expect ends the round.
PrimaryCmError ==
    /\ PrimaryCmEvent("ERROR")
    /\ DropReplica(pm.conn)
    /\ UNCHANGED <<db, aof, hist, snapFile, syncCount, listenQ, rm, rs, faults>>

\* The data part of the stream call runs on an established connection that is
\* not being closed, when no CM event was pending.
PrimaryData ==
    /\ pm.state = "FULL_SYNC"
    /\ pr.cm = <<>>
    /\ pr.est
    /\ ~pr.discPending

\* Mutant: the next chunk does not wait for the ACK of the last one.
BugChunkSettledBySend ==
    /\ ~pr.sendPending
    /\ pr.sent > 0
    /\ pm.reader # Closed

\* The last chunk is acknowledged and its SEND has completed.
ChunkSettled ==
    /\ ~pr.sendPending
    /\ pr.sent > 0
    /\ pr.acked = pr.sent
    /\ pm.reader # Closed

\* Mutant: every read starts at the beginning of the file.
BugChunkFromStart == SubSeq(snapFile, 1, Min2(ChunkCap, pm.reader))

\* kvs_snapshot_reader_read: the next chunk of replication.snapshot.
NextChunk ==
    LET at == pm.fileSize - pm.reader
    IN  SubSeq(snapFile, at + 1, at + Min2(ChunkCap, pm.reader))

\* kvs_replication_rdma_send_snapshot_chunk.  base and net are pr and wire with
\* what the caller changed in them; a message to a vanished peer is lost.
SendChunk(base, net) ==
    /\ pm' = [pm EXCEPT !.reader = @ - Min2(ChunkCap, @)]
    /\ pr' = [base EXCEPT !.sent = @ + Min2(ChunkCap, pm.reader),
                          !.sendPending = TRUE]
    /\ wire' = IF rr[pr.conn].conn
               THEN [net EXCEPT ![pr.conn].pr = Append(@, NextChunk)]
               ELSE net

PrimarySendNext ==
    /\ PrimaryData
    /\ ChunkSettled
    /\ pm.reader > 0
    /\ SendChunk(pr, wire)
    /\ UNCHANGED <<db, aof, hist, snapFile, syncCount, listenQ, replicaVars,
                   tcp, faults>>

\* Mutant: the transfer ends when everything is sent, acknowledged or not.
BugDisconnectUnacked ==
    /\ PrimaryData
    /\ ~pr.sendPending
    /\ pm.reader = 0
    /\ pr' = [pr EXCEPT !.discPending = TRUE, !.cm = Append(@, "DISCONNECTED")]
    /\ pm' = [pm EXCEPT !.reader = Closed]
    /\ rr' = NotifyReplica(pr.conn, "DISCONNECTED")
    /\ UNCHANGED <<db, aof, hist, snapFile, syncCount, listenQ, rm, rs, tcp,
                   wire, faults>>

\* The whole snapshot is acknowledged: rdma_disconnect, which both ends see as
\* a DISCONNECTED event.
PrimaryDisconnect ==
    /\ PrimaryData
    /\ ChunkSettled
    /\ pm.reader = 0
    /\ pr' = [pr EXCEPT !.discPending = TRUE, !.cm = Append(@, "DISCONNECTED")]
    /\ pm' = [pm EXCEPT !.reader = Closed]
    /\ rr' = NotifyReplica(pr.conn, "DISCONNECTED")
    /\ UNCHANGED <<db, aof, hist, snapFile, syncCount, listenQ, rm, rs, tcp,
                   wire, faults>>

\* A SEND completion; it may be polled before or after the peer has answered.
PrimarySendDone ==
    /\ PrimaryData
    /\ pr.sendPending
    /\ pr' = [pr EXCEPT !.sendPending = FALSE]
    /\ UNCHANGED <<db, aof, hist, snapFile, syncCount, pm, listenQ,
                   replicaVars, tcp, wire, faults>>

\* Mutant: the full_sync_id of a READY is not compared.
BugAnyReady(msg) == msg.kind = "READY"

\* READY <full_sync_id> of this round.
IsReady(msg) == msg = [kind |-> "READY", n |-> pm.syncId]

\* A RECV completion: the message was written into the posted buffer, which is
\* posted again once the message is checked.  The first message must be the
\* READY of this round, every later one the ACK of all that was sent.
PrimaryRecv ==
    /\ PrimaryData
    /\ ~ChunkSettled
    /\ pr.recvPosted
    /\ wire[pr.conn].rp # <<>>
    /\ LET msg == Head(wire[pr.conn].rp)
           net == [wire EXCEPT ![pr.conn].rp = Tail(@)]
       IN  IF pr.sent > 0
           THEN IF /\ msg = [kind |-> "SNAPSHOT_ACK", n |-> pr.sent]
                   /\ pr.acked < pr.sent
                THEN /\ pr' = [pr EXCEPT !.acked = pr.sent]
                     /\ wire' = net
                     /\ UNCHANGED <<pm, rr, tcp>>
                ELSE DropReplica(pm.conn)
           ELSE IF IsReady(msg)
                THEN /\ SendChunk(pr, net)
                     /\ UNCHANGED <<rr, tcp>>
                ELSE DropReplica(pm.conn)
    /\ UNCHANGED <<db, aof, hist, snapFile, syncCount, listenQ, rm, rs, faults>>

-----------------------------------------------------------------------------
(* The Primary: AOF streaming (the rest of kvs_replication_stream).         *)

PrimaryStreams ==
    /\ pm.conn # NoConn
    /\ pm.state \in {"CATCH_UP", "ONLINE"}
    /\ UNCHANGED <<db, aof, hist, snapFile, syncCount, pr, listenQ,
                   replicaVars, wire, faults>>

\* Another block of the current round.
PrimarySendAof ==
    /\ PrimaryStreams
    /\ pm.aofLeft > 0
    /\ SendAof(pm.state, pm.aofPos, pm.aofPos + pm.aofLeft)

\* The round is read to its end but the AOF has grown: the next round.
PrimaryNextRound ==
    /\ PrimaryStreams
    /\ pm.aofLeft = 0
    /\ Len(aof) > pm.aofPos
    /\ SendAof(pm.state, pm.aofPos, Len(aof))

\* Nothing is left to send: announce ONLINE, or wait if already announced.
PrimaryCaughtUp ==
    /\ PrimaryStreams
    /\ pm.aofLeft = 0
    /\ Len(aof) = pm.aofPos
    /\ IF pm.state = "ONLINE"
       THEN /\ pm' = [pm EXCEPT !.offset = pm.aofPos, !.aofPos = 0,
                                !.aofLeft = Closed]
            /\ UNCHANGED tcp
       ELSE SendOnline(pm.aofPos)

\* Mutant: an idle stream waits for a whole block.
BugResumeFullBlock ==
    /\ PrimaryStreams
    /\ pm.state = "ONLINE"
    /\ pm.aofLeft = Closed
    /\ Len(aof) >= pm.offset + ReadCap
    /\ SendAof("ONLINE", pm.offset, Len(aof))

\* ONLINE and idle, and the AOF has grown past what was sent.
PrimaryResume ==
    /\ PrimaryStreams
    /\ pm.state = "ONLINE"
    /\ pm.aofLeft = Closed
    /\ Len(aof) > pm.offset
    /\ SendAof("ONLINE", pm.offset, Len(aof))

-----------------------------------------------------------------------------
(* The Replica: TCP side.  One step receives one token and runs the handler *)
(* on it; a longer recv is several such steps, because the handler leaves   *)
(* incomplete input in the buffer.  While the RDMA connection exists the    *)
(* coroutine stays in its stream loop and reads nothing.                    *)

\* ntyco_connector: connect once, then PING.
ReplicaConnect(r) ==
    /\ rm[r].state = "DOWN"
    /\ rm' = [rm EXCEPT ![r].state = "HANDSHAKE"]
    /\ tcp' = [tcp EXCEPT ![r].primary = "open", ![r].r2p = <<"PING">>]
    /\ UNCHANGED <<primaryVars, rr, rs, wire, faults>>

ReplicaReads(r, states) ==
    /\ rm[r].state \in states
    /\ ~rr[r].conn
    /\ tcp[r].p2r # <<>>

\* kvs_replication_upstream_frame_protocol: PONG is answered by PSYNC,
\* FULLRESYNC_RDMA opens the temporary file and starts the RDMA connection.
ReplicaHandshake(r) ==
    /\ ReplicaReads(r, {"HANDSHAKE"})
    /\ LET line == Head(tcp[r].p2r) IN
       IF line = Pong
       THEN /\ tcp' = [tcp EXCEPT ![r].p2r = Tail(@), ![r].r2p = Append(@, "PSYNC")]
            /\ UNCHANGED <<rm, rr, rs, pr, wire>>
       ELSE IF line \in FullResync
       THEN /\ rm' = [rm EXCEPT ![r].state = "FULL_SYNC", ![r].syncId = line.id,
                                ![r].offset = line.off,
                                ![r].fileSize = line.size,
                                ![r].writer = line.size]
            /\ rs' = [rs EXCEPT ![r].tmp = <<>>]
            /\ rr' = [rr EXCEPT ![r].conn = TRUE, ![r].cm = <<"ADDR_RESOLVED">>]
            /\ tcp' = [tcp EXCEPT ![r].p2r = Tail(@)]
            /\ UNCHANGED <<pr, wire>>
       ELSE DropPrimary(r, rs[r])
    /\ UNCHANGED <<db, aof, hist, snapFile, syncCount, pm, listenQ, faults>>

\* kvs_replication_catch_up_command_protocol: AOF cells collect in the input
\* buffer until they are one command, which must execute with status OK; it is
\* appended to the local AOF and the local end becomes the offset.
ReplicaCatchUp(r) ==
    /\ ReplicaReads(r, {"CATCH_UP", "ONLINE"})
    /\ Head(tcp[r].p2r) \in Cell
    /\ LET store == rs[r]
           input == Append(store.buf, Head(tcp[r].p2r))
           c     == input[1].cmd
       IN  IF Len(input) < CmdLen
           THEN /\ rs' = [rs EXCEPT ![r].buf = input]
                /\ tcp' = [tcp EXCEPT ![r].p2r = Tail(@)]
                /\ UNCHANGED <<rm, rr, pr, wire>>
           ELSE IF /\ Hole # input[1]
                   /\ input = Encode(c)
                   /\ ExecStatus(store.db, c) = "OK"
                THEN /\ rs' = [rs EXCEPT ![r].db = Execute(@, c),
                                         ![r].aof = @ \o input,
                                         ![r].buf = <<>>]
                     /\ rm' = [rm EXCEPT
                                 ![r].offset = Len(store.aof) + Len(input)]
                     /\ tcp' = [tcp EXCEPT ![r].p2r = Tail(@)]
                     /\ UNCHANGED <<rr, pr, wire>>
                ELSE DropPrimary(r, store)
    /\ UNCHANGED <<db, aof, hist, snapFile, syncCount, pm, listenQ, faults>>

\* kvs_replication_online_control_frame_protocol: ONLINE n is accepted only at
\* local AOF offset n; inside an unfinished command it is a parse error.
ReplicaControlLine(r) ==
    /\ ReplicaReads(r, {"CATCH_UP", "ONLINE"})
    /\ Head(tcp[r].p2r) \notin Cell
    /\ LET line == Head(tcp[r].p2r) IN
       IF /\ line \in OnlineLine
          /\ rs[r].buf = <<>>
          /\ line.off = Len(rs[r].aof)
       THEN /\ rm' = [rm EXCEPT ![r].state = "ONLINE", ![r].offset = line.off]
            /\ tcp' = [tcp EXCEPT ![r].p2r = Tail(@)]
            /\ UNCHANGED <<rr, rs, pr, wire>>
       ELSE DropPrimary(r, rs[r])
    /\ UNCHANGED <<db, aof, hist, snapFile, syncCount, pm, listenQ, faults>>

\* The Primary closed its end: recv returns 0, or the stream loop's MSG_PEEK
\* probe does once no unread byte is in front of the end of the stream.
ReplicaPeerClosed(r) ==
    /\ rm[r].state \notin {"DOWN", "DISCONNECTED"}
    /\ tcp[r].primary = "closed"
    /\ tcp[r].p2r = <<>>
    /\ DropPrimary(r, rs[r])
    /\ UNCHANGED <<db, aof, hist, snapFile, syncCount, pm, listenQ, faults>>

-----------------------------------------------------------------------------
(* The Replica: RDMA side (kvs_replication_upstream_stream).                *)

ReplicaCmEvent(r, e) ==
    /\ rr[r].conn
    /\ rr[r].cm # <<>>
    /\ Head(rr[r].cm) = e

\* ADDR_RESOLVED: ask for the route.
ReplicaResolveRoute(r) ==
    /\ ReplicaCmEvent(r, "ADDR_RESOLVED")
    /\ rr' = [rr EXCEPT ![r].cm = Append(Tail(@), "ROUTE_RESOLVED")]
    /\ UNCHANGED <<primaryVars, rm, rs, tcp, wire, faults>>

\* ROUTE_RESOLVED: post the first receive, then rdma_connect, whose request
\* waits at the listener until a stream call of the Primary polls it.
ReplicaRdmaConnect(r) ==
    /\ ReplicaCmEvent(r, "ROUTE_RESOLVED")
    /\ rr' = [rr EXCEPT ![r].cm = Tail(@), ![r].recvPosted = TRUE]
    /\ listenQ' = Append(listenQ, r)
    /\ UNCHANGED <<db, aof, hist, snapFile, syncCount, pm, pr, rm, rs, tcp,
                   wire, faults>>

\* A message to a vanished Primary end is lost.
SendToPrimary(r, msg) ==
    IF pr.conn = r THEN [wire EXCEPT ![r].rp = Append(@, msg)] ELSE wire

\* ESTABLISHED: the connect deadline is cleared and READY names the round.
ReplicaEstablished(r) ==
    /\ ReplicaCmEvent(r, "ESTABLISHED")
    /\ rr' = [rr EXCEPT ![r].cm = Tail(@), ![r].est = TRUE,
                        ![r].sendPending = TRUE]
    /\ wire' = SendToPrimary(r, [kind |-> "READY", n |-> rm[r].syncId])
    /\ UNCHANGED <<primaryVars, rm, rs, tcp, faults>>

\* DISCONNECTED: the normal end only when the snapshot is installed and its
\* last byte acknowledged; then TCP input resumes.
ReplicaDisconnected(r) ==
    /\ ReplicaCmEvent(r, "DISCONNECTED")
    /\ IF /\ rm[r].state = "CATCH_UP"
          /\ rr[r].bytes = rm[r].fileSize
          /\ rr[r].acked = rr[r].bytes
       THEN /\ rr' = [rr EXCEPT ![r] = NoReplicaRdma]
            /\ wire' = [wire EXCEPT ![r] = EmptyWire]
            /\ UNCHANGED <<rm, rs, tcp, pr>>
       ELSE DropPrimary(r, rs[r])
    /\ UNCHANGED <<db, aof, hist, snapFile, syncCount, pm, listenQ, faults>>

\* REJECTED, UNREACHABLE and every other CM event.
ReplicaCmError(r) ==
    /\ ReplicaCmEvent(r, "ERROR")
    /\ DropPrimary(r, rs[r])
    /\ UNCHANGED <<db, aof, hist, snapFile, syncCount, pm, listenQ, faults>>

\* The three-second deadline passes before ESTABLISHED was polled.
ReplicaTimeout(r) ==
    /\ rr[r].conn
    /\ ~rr[r].est
    /\ ConnectInTime => pm.conn # r
    /\ DropPrimary(r, rs[r])
    /\ UNCHANGED <<db, aof, hist, snapFile, syncCount, pm, listenQ, faults>>

ReplicaData(r) ==
    /\ rr[r].conn
    /\ rr[r].cm = <<>>
    /\ rr[r].est

\* Mutant: one ACK for every two chunks.
BugAckEverySecond(r) ==
    ~rr[r].sendPending /\ rr[r].bytes > rr[r].acked + ChunkCap

AckDue(r) == ~rr[r].sendPending /\ rr[r].bytes > rr[r].acked

\* The cumulative ACK of everything written so far.
ReplicaSendAck(r) ==
    /\ ReplicaData(r)
    /\ AckDue(r)
    /\ rr' = [rr EXCEPT ![r].sendPending = TRUE, ![r].acked = rr[r].bytes]
    /\ wire' = SendToPrimary(r, [kind |-> "SNAPSHOT_ACK", n |-> rr[r].bytes])
    /\ UNCHANGED <<primaryVars, rm, rs, tcp, faults>>

\* The completion queue is polled unless an ACK is due or the final ACK is out.
ReplicaPollsCq(r) ==
    /\ ReplicaData(r)
    /\ ~AckDue(r)
    /\ ~ /\ rm[r].state = "CATCH_UP"
         /\ rr[r].bytes = rm[r].fileSize
         /\ rr[r].acked = rr[r].bytes

ReplicaSendDone(r) ==
    /\ ReplicaPollsCq(r)
    /\ rr[r].sendPending
    /\ rr' = [rr EXCEPT ![r].sendPending = FALSE]
    /\ UNCHANGED <<primaryVars, rm, rs, tcp, wire, faults>>

\* The file of a received chunk (kvs_snapshot_writer_write).
Written(r, chunk) == [rs[r] EXCEPT !.tmp = @ \o chunk]

\* kvs_replication_finish_full_sync: rename the file to snapshot.db, rebuild the
\* engine from it and set the AOF to the checkpoint.
Installable(r, store) ==
    /\ Loadable(store.tmp)
    /\ store.tmp[1].off = rm[r].offset

\* Mutant: the snapshot is loaded from the temporary file, which is then
\* deleted instead of renamed.
BugInstallWithoutRename(r, store) ==
    [store EXCEPT !.tmp = <<>>, !.db = store.tmp[1].db,
                  !.aof = ResetToOffset(@, rm[r].offset)]

Installed(r, store) ==
    [store EXCEPT !.snapDb = store.tmp, !.tmp = <<>>,
                  !.db = store.tmp[1].db,
                  !.aof = ResetToOffset(@, rm[r].offset)]

\* The snapshot is committed but not loaded: the engine is emptied.
InstallRefused(store) ==
    [store EXCEPT !.snapDb = store.tmp, !.tmp = <<>>, !.db = EmptyDb]

\* A RECV completion carries a chunk of at most the bytes still expected.
ReplicaRecvChunk(r) ==
    /\ ReplicaPollsCq(r)
    /\ rr[r].recvPosted
    /\ wire[r].pr # <<>>
    /\ LET chunk == Head(wire[r].pr)
           store == Written(r, chunk)
           last  == Len(chunk) = rm[r].writer
       IN  IF \/ rm[r].state # "FULL_SYNC"
              \/ Len(chunk) > rm[r].writer
           THEN DropPrimary(r, rs[r])
           ELSE IF last /\ ~Installable(r, store)
           THEN DropPrimary(r, InstallRefused(store))
           ELSE /\ rs' = [rs EXCEPT ![r] = IF last THEN Installed(r, store)
                                           ELSE store]
                /\ rm' = [rm EXCEPT ![r].writer = IF last THEN Closed
                                                  ELSE @ - Len(chunk),
                                    ![r].state = IF last THEN "CATCH_UP"
                                                 ELSE "FULL_SYNC"]
                /\ rr' = [rr EXCEPT ![r].bytes = @ + Len(chunk)]
                /\ wire' = [wire EXCEPT ![r].pr = Tail(@)]
                /\ UNCHANGED <<tcp, pr>>
    /\ UNCHANGED <<db, aof, hist, snapFile, syncCount, pm, listenQ, faults>>

-----------------------------------------------------------------------------
(* Failures.                                                                *)

Fault ==
    /\ faults < MaxFaults
    /\ faults' = faults + 1

\* A call of the Primary's handler or stream callback for connection r fails
\* (file, memory or socket error) and the connection is closed.
PrimaryFailure(r) ==
    /\ Fault
    /\ tcp[r].primary = "open"
    /\ DropReplica(r)
    /\ UNCHANGED <<db, aof, hist, snapFile, syncCount, listenQ, rm, rs>>

\* The same on the Replica's side, or the end of the Replica process.
ReplicaFailure(r) ==
    /\ Fault
    /\ rm[r].state \notin {"DOWN", "DISCONNECTED"}
    /\ DropPrimary(r, rs[r])
    /\ UNCHANGED <<db, aof, hist, snapFile, syncCount, pm, listenQ>>

\* The last chunk arrives, the file is committed, and loading it or resetting
\* the AOF fails: the engine is left empty.
ReplicaInstallFailure(r) ==
    /\ Fault
    /\ ReplicaPollsCq(r)
    /\ rm[r].state = "FULL_SYNC"
    /\ wire[r].pr # <<>>
    /\ Len(Head(wire[r].pr)) = rm[r].writer
    /\ \E a \in {rs[r].aof, ResetToOffset(rs[r].aof, rm[r].offset)} :
          DropPrimary(r, [InstallRefused(Written(r, Head(wire[r].pr)))
                             EXCEPT !.aof = a])
    /\ UNCHANGED <<db, aof, hist, snapFile, syncCount, pm, listenQ>>

\* The established RDMA connection breaks under both ends.
RdmaBreak(r) ==
    /\ Fault
    /\ pr.conn = r
    /\ rr[r].conn
    /\ pr' = NotifyPrimary(r, "DISCONNECTED")
    /\ rr' = NotifyReplica(r, "DISCONNECTED")
    /\ wire' = [wire EXCEPT ![r] = EmptyWire]
    /\ UNCHANGED <<db, aof, hist, snapFile, syncCount, pm, listenQ, rm, rs, tcp>>

\* The Primary process dies and starts again: sockets and RDMA connections are
\* gone, the engine is recovered from snapshot and AOF.
PrimaryRestart ==
    /\ Fault
    /\ pm' = PrimaryStarted(Len(aof))
    /\ pr' = NoPrimaryRdma
    /\ listenQ' = <<>>
    /\ rr' = [r \in Replica |->
                IF /\ rr[r].conn
                   /\ r = pr.conn \/ \E i \in 1 .. Len(listenQ) : listenQ[i] = r
                THEN [rr[r] EXCEPT !.cm = Append(@, "DISCONNECTED")]
                ELSE rr[r]]
    /\ wire' = [r \in Replica |-> EmptyWire]
    /\ tcp' = [r \in Replica |->
                IF tcp[r].primary = "open"
                THEN [tcp[r] EXCEPT !.primary = "closed", !.r2p = <<>>]
                ELSE tcp[r]]
    /\ UNCHANGED <<db, aof, hist, snapFile, syncCount, rm, rs>>

-----------------------------------------------------------------------------
(* The specification.                                                       *)

PrimaryStep ==
    \/ PrimaryAccept \/ PrimaryReject
    \/ PrimaryEstablished \/ PrimaryDisconnected \/ PrimaryCmError
    \/ PrimarySendNext \/ PrimaryDisconnect \/ PrimarySendDone \/ PrimaryRecv
    \/ PrimarySendAof \/ PrimaryNextRound \/ PrimaryCaughtUp \/ PrimaryResume

PrimaryConnStep(r) == PrimaryPing(r) \/ PrimaryPsync(r) \/ PrimaryPeerClosed(r)

ReplicaStep(r) ==
    \/ ReplicaHandshake(r) \/ ReplicaCatchUp(r) \/ ReplicaControlLine(r)
    \/ ReplicaPeerClosed(r)
    \/ ReplicaResolveRoute(r) \/ ReplicaRdmaConnect(r) \/ ReplicaEstablished(r)
    \/ ReplicaDisconnected(r) \/ ReplicaCmError(r) \/ ReplicaTimeout(r)
    \/ ReplicaSendAck(r) \/ ReplicaSendDone(r) \/ ReplicaRecvChunk(r)

Failure ==
    \/ \E r \in Replica : \/ PrimaryFailure(r) \/ ReplicaFailure(r)
                          \/ ReplicaInstallFailure(r) \/ RdmaBreak(r)
    \/ PrimaryRestart

Next ==
    \/ \E c \in Command : ClientWrite(c)
    \/ PrimaryStep
    \/ \E r \in Replica : PrimaryConnStep(r) \/ ReplicaConnect(r) \/ ReplicaStep(r)
    \/ Failure

Spec == Init /\ [][Next]_vars

\* The scheduler resumes every coroutine that can run: the stream loop of the
\* slot owner, the reader of every other connection, and the upstream
\* coroutine of every Replica.  Clients, new Replicas and failures are free.
Fairness ==
    /\ WF_vars(PrimaryStep)
    /\ \A r \in Replica : /\ WF_vars(PrimaryConnStep(r))
                           /\ WF_vars(ReplicaStep(r))

FairSpec == Spec /\ Fairness

-----------------------------------------------------------------------------
(* Safety.                                                                  *)

\* The Replica serves or is about to serve the Primary's data.
Following(r) == rm[r].state \in {"CATCH_UP", "ONLINE"}

\* ReadersInBounds: the open AOF reader never points past the end of the AOF
\* and the open snapshot reader never past the end of the file that was
\* announced, so no read of either can come up short; the checks of the stream
\* call for an AOF that ends before what was sent are never needed.
ReadersInBounds ==
    /\ pm.offset <= Len(aof)
    /\ pm.aofLeft # Closed => pm.aofPos + pm.aofLeft <= Len(aof)
    /\ pm.reader # Closed => /\ pm.reader <= pm.fileSize
                             /\ pm.fileSize = Len(snapFile)

\* ReplicaPrefix: from the installation of the snapshot on, the engine of a
\* Replica is exactly the engine the Primary had at the AOF offset the Replica
\* has reached, whatever was cut between two reads, sends or receives.
ReplicaPrefix ==
    \A r \in Replica :
        Following(r) => /\ Len(rs[r].aof) <= Len(aof)
                        /\ rs[r].db = hist[Len(rs[r].aof) + 1]

\* Promotable: the files of a following Replica recover to its engine:
\* snapshot.db plus the AOF behind its checkpoint (legacy_hybrid recovery).
Promotable ==
    \A r \in Replica :
        Following(r) =>
            /\ Loadable(rs[r].snapDb)
            /\ LET s == rs[r].snapDb[1]
               IN  Replay(s.db, rs[r].aof, s.off)
                       = [db |-> rs[r].db, pos |-> Len(rs[r].aof)]

\* ReceiverReady: an RDMA message is only sent to a peer whose single posted
\* receive buffer is free for it; otherwise the connection would be torn down.
ReceiverReady ==
    \A r \in Replica :
        /\ Len(wire[r].pr) <= 1
        /\ wire[r].pr # <<>> => rr[r].recvPosted
        /\ Len(wire[r].rp) <= 1
        /\ wire[r].rp # <<>> => pr.conn = r /\ pr.recvPosted

\* SnapshotToSlotOwner: snapshot bytes flow over RDMA only to the Replica whose
\* control connection owns the slot, also when a CONNECT_REQUEST of an earlier
\* round was accepted.
SnapshotToSlotOwner == pr.sent > 0 => pr.conn = pm.conn

\* ReceivedPrefix: what a Replica has written of the snapshot, with the chunk
\* that is on its way, is a prefix of the snapshot announced to it, and the
\* writer waits for exactly the rest.
ReceivedPrefix ==
    \A r \in Replica :
        rm[r].state = "FULL_SYNC" =>
            LET whole == SnapshotOf(hist[rm[r].offset + 1], rm[r].offset)
                got   == IF wire[r].pr = <<>> THEN rs[r].tmp
                         ELSE rs[r].tmp \o Head(wire[r].pr)
            IN  /\ rm[r].writer + Len(rs[r].tmp) = rm[r].fileSize
                /\ got = SubSeq(whole, 1, Len(got))

\* DisconnectAfterInstall: when the Primary ends the RDMA transfer, the Replica
\* at the other end has installed the snapshot of this round.
DisconnectAfterInstall ==
    pr.discPending /\ rr[pr.conn].conn =>
        /\ rm[pr.conn].state = "CATCH_UP"
        /\ rm[pr.conn].offset = pm.offset
        /\ rs[pr.conn].snapDb = snapFile

\* OnlineAccepted: an ONLINE n line that reaches the head of the input finds the
\* Replica at a command boundary and at local offset n: the check of the
\* handler never closes a healthy connection.
OnlineAccepted ==
    \A r \in Replica :
        /\ ReplicaReads(r, {"CATCH_UP", "ONLINE"})
        /\ Head(tcp[r].p2r) \in OnlineLine
        => rs[r].buf = <<>> /\ Head(tcp[r].p2r).off = Len(rs[r].aof)

\* SnapshotFrozen: while a round owns the slot, no PSYNC of another connection
\* takes the slot over, replaces the snapshot file that is being sent or renews
\* the full_sync_id the peer was told.
SnapshotFrozen ==
    [][pm.conn # NoConn /\ pm'.conn # NoConn =>
          /\ pm'.conn = pm.conn
          /\ pm'.syncId = pm.syncId
          /\ snapFile' = snapFile]_vars

\* Refines: replication implements the abstract replicated log; a Replica reads
\* LOADING to its clients unless it is ONLINE.
Log == INSTANCE ReplicatedLog WITH
    history  <- hist,
    position <- [r \in Replica |-> IF Following(r) THEN Len(rs[r].aof) ELSE -1],
    readable <- [r \in Replica |->
                   IF rm[r].state = "ONLINE" THEN rs[r].db ELSE NotServing]

Refines == Log!AbsSpec

-----------------------------------------------------------------------------
(* Liveness.                                                                *)

\* EventuallyOnline: without failures a Replica that connected goes ONLINE.
EventuallyOnline ==
    \A r \in Replica :
        (rm[r].state = "HANDSHAKE") ~> (rm[r].state = "ONLINE")

\* Convergence: an ONLINE Replica keeps catching up with the whole AOF.
Convergence ==
    \A r \in Replica :
        []<>(rm[r].state = "ONLINE" => Len(rs[r].aof) = Len(aof))

\* RoundEnds: whatever fails, a synchronisation ends: ONLINE or given up.
RoundEnds ==
    \A r \in Replica :
        (rm[r].state \in {"HANDSHAKE", "FULL_SYNC", "CATCH_UP"}) ~>
            (rm[r].state \in {"ONLINE", "DISCONNECTED"})

\* SlotReleased: the Primary's only slot is taken back from a Replica that is
\* gone, so that the next PSYNC is not refused for ever.
SlotReleased ==
    \A r \in Replica :
        (pm.conn = r /\ ReplicaClosed(r)) ~> (pm.conn # r)
=============================================================================
