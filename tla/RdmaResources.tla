--------------------------- MODULE RdmaResources ---------------------------
(***************************************************************************)
(* Who owns the RDMA resources of a server, and how they are released when *)
(* calls of the verbs and CM libraries fail.                               *)
(*                                                                         *)
(* A connection object (rdma_transport.c) holds up to nine resources; its  *)
(* close gives them back in a fixed order and stops at the first call that *)
(* fails, leaving the object to be closed again.  The replication manager  *)
(* (replication.c) has two pointers to connections, rdma_sync.connection   *)
(* and rdma_cleanup_connection, and on a Primary the listener, whose event *)
(* channel the connections it accepted share.                              *)
(*                                                                         *)
(* One call of the program is one action.  "held" is what the libraries    *)
(* have handed out, whatever the program's pointers say.                   *)
(***************************************************************************)
EXTENDS Naturals, FiniteSets, Sequences

CONSTANTS Conn,       \* connection objects that calloc may return
          NULL,       \* the null pointer; as a fault, no fault
          CloseFails, \* may a call that releases a resource fail?
          MaxFaults   \* how many library calls fail in a behaviour

ASSUME RdmaAssumption ==
    /\ NULL \notin Conn
    /\ IsFiniteSet(Conn)
    /\ CloseFails \in BOOLEAN
    /\ MaxFaults \in Nat

VARIABLES
    role,       \* "primary" or "replica"
    phase,      \* "init", "running", "stopping", "destroyed" or "abandoned"
    slot,       \* the control connection that owns the round, and its state
    sync,       \* rdma_sync.connection
    cleanup,    \* rdma_cleanup_connection
    allocated,  \* connection objects not yet freed
    held,       \* resources of each connection object
    listener,   \* resources of the listener
    faults      \* library calls that have failed so far

vars == <<role, phase, slot, sync, cleanup, allocated, held, listener, faults>>

Phase == {"init", "running", "stopping", "destroyed", "abandoned"}
Slot == {"free", "handshake", "full_sync", "catch_up", "failing"}

-----------------------------------------------------------------------------
(***************************************************************************)
(* The resources of one connection.                                        *)
(***************************************************************************)

\* What kvs_rdma_connection_prepare creates, in its order; "recv" is the
\* posted receive.
Setup == <<"pd", "cq", "qp", "buffers", "send_mr", "recv_mr", "recv">>

Resource == {Setup[i] : i \in DOMAIN Setup} \cup
            {"cm_id", "channel", "event", "send"}

\* The place of a resource in the order of kvs_rdma_connection_close; the work
\* requests end with the queue pair.
Rank == [r \in Resource |->
           CASE r = "event"                  -> 1
             [] r \in {"qp", "send", "recv"} -> 2
             [] r = "send_mr"                -> 3
             [] r = "recv_mr"                -> 4
             [] r = "buffers"                -> 5
             [] r = "cq"                     -> 6
             [] r = "pd"                     -> 7
             [] r = "cm_id"                  -> 8
             [] r = "channel"                -> 9]

\* The calls of the close that report failure.
Fallible == {"event", "qp", "send_mr", "recv_mr", "cq", "pd", "cm_id"}

\* Which release of the resources h may fail; NULL: all succeed.
ReleaseFault(h) ==
    {NULL} \cup (IF CloseFails THEN h \cap Fallible ELSE {})

\* The buffers are freed first, whatever happens to their regions.
BugLeft(h, f) ==
    IF f = NULL THEN {}
    ELSE {r \in h : Rank[r] >= Rank[f]} \ {"buffers"}

\* What is left of h when its release stops at f.
Left(h, f) == IF f = NULL THEN {} ELSE {r \in h : Rank[r] >= Rank[f]}

Cost(f) == IF f = NULL THEN 0 ELSE 1

\* The first n resources of the setup.
Made(n) == {Setup[i] : i \in 1..n}

\* What a failed setup that made n resources tries to give back itself:
\* kvs_rdma_queuepair_init undoes the pd and cq, kvs_rdma_buffers_init the
\* buffers and regions, and after them nothing is undone.
Undone(n) == IF n < 3 THEN Made(n)
             ELSE IF n < 6 THEN Made(n) \ Made(3)
             ELSE {}

\* The outcomes of kvs_rdma_connection_prepare for a connection that holds h,
\* followed by the accept or connect it is for.
Prepared(h) ==
    {[ok |-> TRUE, held |-> h \cup Made(7), cost |-> 0],
     [ok |-> FALSE, held |-> h \cup Made(7), cost |-> 1]}
    \cup UNION {{[ok |-> FALSE,
                  held |-> h \cup (Made(n) \ Undone(n)) \cup Left(Undone(n), f),
                  cost |-> 1 + Cost(f)] : f \in ReleaseFault(Undone(n))}
                : n \in 0..6}

Spend(n) == /\ faults + n <= MaxFaults
            /\ faults' = faults + n

-----------------------------------------------------------------------------
Init ==
    /\ role \in {"primary", "replica"}
    /\ phase = "init"
    /\ slot = "free"
    /\ sync = NULL
    /\ cleanup = NULL
    /\ allocated = {}
    /\ held = [c \in Conn |-> {}]
    /\ listener = {}
    /\ faults = 0

\* A connection object that calloc can return now.
Fresh == Conn \ allocated

\* kvs_rdma_connection_close of the connection p, stopping at f, with NULL
\* left in the pointer when it succeeds.
Closed(p, f) == IF p = NULL \/ f = NULL THEN NULL ELSE p

HeldBy(p) == IF p = NULL THEN {} ELSE held[p]

-----------------------------------------------------------------------------
(***************************************************************************)
(* Primary: the listener and the rounds.                                   *)
(***************************************************************************)

\* kvs_replication_start_rdma_listener.  A failure leaves what was made for
\* kvs_replication_destroy: the empty listener when the channel or the id
\* cannot be made, all of it when bind or listen fails.
StartListener ==
    /\ role = "primary" /\ phase = "init"
    /\ \/ /\ listener' = {"struct", "channel", "listen_id"}
          /\ phase' = "running"
          /\ UNCHANGED faults
       \/ /\ listener' \in {{}, {"struct"}, {"struct", "channel", "listen_id"}}
          /\ phase' = "stopping"
          /\ Spend(1)
    /\ UNCHANGED <<role, slot, sync, cleanup, allocated, held>>

\* PSYNC on a control connection: refused (EBUSY) unless the slot is free and
\* no connection of an earlier round is left; a refusal changes nothing.
Psync ==
    /\ role = "primary" /\ phase = "running" /\ slot = "free"
    /\ sync = NULL /\ cleanup = NULL
    /\ slot' = "full_sync"
    /\ UNCHANGED <<role, phase, sync, cleanup, allocated, held, listener, faults>>

\* The stream polls the listener in FULL_SYNC, unless a connection waits for
\* its cleanup or an event for its acknowledgement.
Polls ==
    /\ phase = "running" /\ slot = "full_sync"
    /\ cleanup = NULL
    /\ "event" \notin HeldBy(sync)

\* A CONNECT_REQUEST while there is no connection: the new object takes the
\* event and the id, becomes rdma_sync.connection and is prepared and
\* accepted; the event is acknowledged either way.
PollRequest(c) ==
    /\ role = "primary" /\ Polls /\ sync = NULL
    /\ \E o \in Prepared({"cm_id", "event"}), f \in ReleaseFault({"event"}) :
          /\ held' = [held EXCEPT ![c] = IF f = NULL THEN o.held \ {"event"}
                                         ELSE o.held]
          /\ slot' = IF o.ok /\ f = NULL THEN slot ELSE "failing"
          /\ Spend(o.cost + Cost(f))
    /\ allocated' = allocated \cup {c}
    /\ sync' = c
    /\ UNCHANGED <<role, phase, cleanup, listener>>

\* The owner whose acknowledgement failed is forgotten.
BugSeparateOwner(c, h, f) ==
    /\ held' = [held EXCEPT ![c] = Left(h, f)]
    /\ cleanup' = IF f \in {NULL, "event"} THEN NULL ELSE c
    /\ allocated' = IF f = NULL THEN allocated ELSE allocated \cup {c}

\* What becomes of a separate owner c that holds h, when its acknowledgement
\* or its close stops at f: freed, or kept as rdma_cleanup_connection.
SeparateOwner(c, h, f) ==
    /\ held' = [held EXCEPT ![c] = Left(h, f)]
    /\ cleanup' = IF f = NULL THEN NULL ELSE c
    /\ allocated' = IF f = NULL THEN allocated ELSE allocated \cup {c}

\* A CONNECT_REQUEST while there is a connection is rejected; the reject, the
\* acknowledgement or the close of the new id may fail, and each ends the
\* round.
PollExtraRequest(c) ==
    /\ role = "primary" /\ Polls /\ sync # NULL
    /\ \E f \in ReleaseFault({"event", "cm_id"}), rejected \in BOOLEAN :
          /\ SeparateOwner(c, {"cm_id", "event"}, f)
          /\ slot' = IF f = NULL /\ rejected THEN slot ELSE "failing"
          /\ Spend(Cost(f) + (IF rejected THEN 0 ELSE 1))
    /\ UNCHANGED <<role, phase, sync, listener>>

\* An event that belongs neither to a request nor to the connection.
PollStrayEvent(c) ==
    /\ role = "primary" /\ Polls
    /\ \E f \in ReleaseFault({"event"}) :
          /\ SeparateOwner(c, {"event"}, f)
          /\ Spend(Cost(f))
    /\ slot' = "failing"
    /\ UNCHANGED <<role, phase, sync, listener>>

\* An event of the connection itself that announces or ends nothing, or is an
\* error; not acknowledged, it stays with the connection.
PollOwnEvent ==
    /\ Polls /\ sync # NULL
    /\ \E f \in ReleaseFault({"event"}), ok \in BOOLEAN :
          /\ held' = [held EXCEPT ![sync] = @ \cup (IF f = NULL THEN {} ELSE {"event"})]
          /\ slot' = IF f = NULL /\ ok THEN slot ELSE "failing"
          /\ Spend(Cost(f))
    /\ UNCHANGED <<role, phase, sync, cleanup, allocated, listener>>

\* The connection is closed at the end of a complete transfer; then the
\* catch-up begins, unless the close fails.
TransferDone ==
    /\ Polls /\ sync # NULL
    /\ {"qp", "recv_mr"} \subseteq held[sync] /\ "send" \notin held[sync]
    /\ \E f \in ReleaseFault(held[sync]) :
          /\ held' = [held EXCEPT ![sync] = Left(@, f)]
          /\ allocated' = IF f = NULL THEN allocated \ {sync} ELSE allocated
          /\ sync' = Closed(sync, f)
          /\ slot' = IF f = NULL THEN "catch_up" ELSE "failing"
          /\ Spend(Cost(f))
    /\ UNCHANGED <<role, phase, cleanup, listener>>

-----------------------------------------------------------------------------
(***************************************************************************)
(* Both ends: work requests, and the end of a round.                       *)
(***************************************************************************)

\* kvs_rdma_post_send and kvs_rdma_post_recv: one of each at a time.
Post(w) ==
    /\ Polls /\ sync # NULL
    /\ {"qp", "recv_mr"} \subseteq held[sync]
    /\ w \notin held[sync]
    /\ held' = [held EXCEPT ![sync] = @ \cup {w}]
    /\ UNCHANGED <<role, phase, slot, sync, cleanup, allocated, listener, faults>>

\* kvs_rdma_poll_completion finds the work request w completed.
Complete(w) ==
    /\ Polls /\ sync # NULL
    /\ w \in held[sync]
    /\ held' = [held EXCEPT ![sync] = @ \ {w}]
    /\ UNCHANGED <<role, phase, slot, sync, cleanup, allocated, listener, faults>>

\* A handler returns -1, the peer is gone or the deadline has passed.
RoundFails ==
    /\ phase = "running" /\ slot \in {"handshake", "full_sync", "catch_up"}
    /\ slot' = "failing"
    /\ UNCHANGED <<role, phase, sync, cleanup, allocated, held, listener, faults>>

\* The slot is given up without closing the connection.
BugDisconnected ==
    /\ phase = "running" /\ slot = "failing"
    /\ slot' = "free"
    /\ UNCHANGED <<role, phase, sync, cleanup, allocated, held, listener, faults>>

\* kvs_replication_on_replica_disconnected and
\* kvs_replication_on_primary_disconnected: the connection is closed once, and
\* the slot is given up whether or not that succeeds.
Disconnected ==
    /\ phase = "running" /\ slot = "failing"
    /\ \E f \in ReleaseFault(HeldBy(sync)) :
          /\ held' = [c \in Conn |-> IF c = sync THEN Left(held[c], f) ELSE held[c]]
          /\ allocated' = IF f = NULL THEN allocated \ {sync} ELSE allocated
          /\ sync' = Closed(sync, f)
          /\ Spend(Cost(f))
    /\ slot' = "free"
    /\ UNCHANGED <<role, phase, cleanup, listener>>

-----------------------------------------------------------------------------
(***************************************************************************)
(* Replica: the connection it starts, on a channel of its own.             *)
(***************************************************************************)

\* kvs_replication_on_primary_connected; the connector runs once.
Connect ==
    /\ role = "replica" /\ phase = "init"
    /\ phase' = "running"
    /\ slot' = "handshake"
    /\ UNCHANGED <<role, sync, cleanup, allocated, held, listener, faults>>

\* kvs_rdma_connection_start, which keeps what it has made when it fails.
RdmaStart(c) ==
    /\ role = "replica" /\ phase = "running" /\ slot = "handshake"
    /\ sync = NULL
    /\ allocated' = allocated \cup {c}
    /\ sync' = c
    /\ \/ /\ held' = [held EXCEPT ![c] = {"channel", "cm_id"}]
          /\ slot' = "full_sync"
          /\ UNCHANGED faults
       \/ /\ \E h \in {{}, {"channel"}, {"channel", "cm_id"}} :
                held' = [held EXCEPT ![c] = h]
          /\ slot' = "failing"
          /\ Spend(1)
    /\ UNCHANGED <<role, phase, cleanup, listener>>

\* ROUTE_RESOLVED: the connection is prepared and connected.
RouteResolved ==
    /\ role = "replica" /\ Polls
    /\ sync # NULL /\ held[sync] = {"channel", "cm_id"}
    /\ \E o \in Prepared(held[sync] \cup {"event"}), f \in ReleaseFault({"event"}) :
          /\ held' = [held EXCEPT ![sync] = IF f = NULL THEN o.held \ {"event"}
                                            ELSE o.held]
          /\ slot' = IF o.ok /\ f = NULL THEN slot ELSE "failing"
          /\ Spend(o.cost + Cost(f))
    /\ UNCHANGED <<role, phase, sync, cleanup, allocated, listener>>

-----------------------------------------------------------------------------
\* The listener is closed although a connection could not be.
BugDestroy ==
    /\ phase \in {"running", "stopping"}
    /\ \E fs \in ReleaseFault(HeldBy(sync)) :
          /\ held' = [c \in Conn |->
                        IF c = cleanup THEN {}
                        ELSE IF c = sync THEN Left(held[c], fs)
                        ELSE held[c]]
          /\ sync' = Closed(sync, fs)
          /\ cleanup' = NULL
          /\ allocated' = {c \in allocated : c = sync'}
          /\ Spend(Cost(fs))
    /\ listener' = {}
    /\ phase' = "destroyed"
    /\ slot' = "free"
    /\ UNCHANGED role

\* kvs_replication_destroy: the waiting connection, the connection of the
\* round, then the listener; it returns at the first that cannot be closed,
\* with the manager still initialised.
Destroy ==
    /\ phase \in {"running", "stopping"}
    /\ \E fc \in ReleaseFault(HeldBy(cleanup)), fs \in ReleaseFault(HeldBy(sync)),
          fl \in {NULL} \cup (IF CloseFails THEN listener \cap {"listen_id"} ELSE {}) :
          /\ fc # NULL => fs = NULL
          /\ fc # NULL \/ fs # NULL => fl = NULL
          /\ cleanup' = Closed(cleanup, fc)
          /\ sync' = IF fc = NULL THEN Closed(sync, fs) ELSE sync
          /\ held' = [c \in Conn |->
                        IF c = cleanup THEN Left(held[c], fc)
                        ELSE IF c = sync /\ fc = NULL THEN Left(held[c], fs)
                        ELSE held[c]]
          /\ allocated' = {c \in allocated : c \in {cleanup', sync'}}
          /\ listener' = IF fc = NULL /\ fs = NULL /\ fl = NULL THEN {} ELSE listener
          /\ phase' = IF fc = NULL /\ fs = NULL /\ fl = NULL
                      THEN "destroyed" ELSE "abandoned"
          /\ Spend(Cost(fc) + Cost(fs) + Cost(fl))
    /\ slot' = "free"
    /\ UNCHANGED role

\* A server that has stopped does nothing more.
Stopped ==
    /\ phase \in {"destroyed", "abandoned"}
    /\ UNCHANGED vars

Round ==
    \/ Psync
    \/ \E c \in Fresh : PollRequest(c) \/ PollExtraRequest(c) \/ PollStrayEvent(c)
    \/ PollOwnEvent
    \/ TransferDone
    \/ \E w \in {"send", "recv"} : Post(w) \/ Complete(w)
    \/ RoundFails
    \/ Disconnected
    \/ \E c \in Fresh : RdmaStart(c)
    \/ RouteResolved

Next == StartListener \/ Connect \/ Round \/ Destroy \/ Stopped

Spec == Init /\ [][Next]_vars

\* The coroutine whose handler failed goes on to the close callback, and a
\* Replica is started again until its PSYNC is answered.
FairSpec == Spec /\ WF_vars(Disconnected) /\ WF_vars(Psync)

-----------------------------------------------------------------------------
\* The variables have the shape of the manager's and the connections' fields.
TypeOK ==
    /\ role \in {"primary", "replica"}
    /\ phase \in Phase
    /\ slot \in Slot
    /\ sync \in Conn \cup {NULL}
    /\ cleanup \in Conn \cup {NULL}
    /\ allocated \subseteq Conn
    /\ held \in [Conn -> SUBSET Resource]
    /\ listener \subseteq {"struct", "channel", "listen_id"}
    /\ faults \in 0..MaxFaults

\* Whatever fails, a connection object and everything the libraries handed out
\* for it can still be reached for a later close, through exactly one of the
\* manager's two pointers (kvs_rdma_listener_poll prepares an owner before it
\* takes the event for this).
Reachable ==
    /\ \A c \in Conn : held[c] # {} => c \in allocated
    /\ allocated = {sync, cleanup} \ {NULL}
    /\ sync = NULL \/ sync # cleanup

\* What must not be released before something else that uses it.
Uses == {<<"qp", "pd">>, <<"qp", "cq">>, <<"qp", "cm_id">>,
         <<"send_mr", "pd">>, <<"send_mr", "buffers">>,
         <<"recv_mr", "pd">>, <<"recv_mr", "buffers">>,
         <<"send", "qp">>, <<"send", "send_mr">>,
         <<"recv", "qp">>, <<"recv", "recv_mr">>}

\* However often a setup, an unwinding or a close stops half way, nothing that
\* remains refers to something released: no work request to an unregistered
\* buffer, no region to a freed buffer or domain, no queue pair to a closed
\* completion queue, and no id to a channel that is gone.
NothingDangling ==
    /\ \A c \in Conn, u \in Uses : u[1] \in held[c] => u[2] \in held[c]
    /\ \A c \in Conn : "cm_id" \in held[c] =>
          "channel" \in held[c] \/ "channel" \in listener
    /\ "listen_id" \in listener => "channel" \in listener

\* kvs_replication_destroy that reports the manager uninitialised has returned
\* every resource; otherwise what it could not close is still held.
DestroyComplete ==
    phase = "destroyed" =>
       /\ \A c \in Conn : held[c] = {}
       /\ sync = NULL /\ cleanup = NULL /\ listener = {}

\* Whichever calls fail, and however often a setup, an unwinding or a close stops
\* half way: every RDMA resource can still be reached for a later close, through
\* exactly one of the manager's two pointers; none refers to one that is released;
\* and kvs_replication_destroy that reports success has returned all of them.
ResourcesOwned ==
    /\ TypeOK
    /\ Reachable
    /\ NothingDangling
    /\ DestroyComplete
=============================================================================
