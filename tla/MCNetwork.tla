----------------------------- MODULE MCNetwork ------------------------------
(***************************************************************************)
(* Connections of clients and the resources of RDMA connections for TLC.   *)
(* A behaviour is one of one part, chosen by the initial state: the        *)
(* resources stay in their initial state when a client's connection runs,  *)
(* and the variables of the connection hold nothing otherwise.             *)
(* RdmaResources is there twice: with releases that fail, for what is      *)
(* never lost then, and with releases that succeed, for what then always   *)
(* happens again.                                                          *)
(***************************************************************************)
EXTENDS RdmaResources, Integers

VARIABLES
    part,                                   \* what this behaviour is one of
    port, pc, selected, expired, input, capacity, output, net, ending, sent,
    executed, delivered                     \* ClientConnection

clientVars == <<port, pc, selected, expired, input, capacity, output, net,
                ending, sent, executed, delivered>>
allVars == <<part, vars, clientVars>>

None == "-"

R(kind, size, at) == [kind |-> kind, size |-> size, at |-> at]

\* Commands of one cell and of the largest size, and requests that are none.
AllRequests == {R("cmd", 1, 0), R("cmd", 4, 0), R("bad", 3, 2),
                R("endless", 5, 0), R("line", 2, 2), R("ping", 2, 0)}

Client == INSTANCE ClientConnection WITH
    Request <- AllRequests, Limit <- 4, BufferLength <- 2, Threshold <- 2,
    Listeners <- {"PRIMARY", "OTHER"}, StopAndWait <- FALSE, MaxRequests <- 3,
    listener <- port

\* Setting up may fail, giving back may not.
Again == INSTANCE RdmaResources WITH CloseFails <- FALSE, MaxFaults <- 4

ASSUME NetworkAssumption == Client!ConnectionAssumption /\ 4 <= MaxFaults

NoClient ==
    /\ port = None /\ pc = None /\ selected = None /\ expired = None
    /\ input = None /\ capacity = None /\ output = None /\ net = None
    /\ ending = None /\ sent = None /\ executed = None /\ delivered = None

NetworkInit ==
    \/ part = "client" /\ Client!Init /\ Init /\ role = "primary"
    \/ part = "rdma" /\ Init /\ NoClient
    \/ part = "again" /\ Again!Init /\ NoClient

InClient == part = "client" /\ UNCHANGED <<part, vars>>
InRdma == part = "rdma" /\ UNCHANGED <<part, clientVars>>
InAgain == part = "again" /\ UNCHANGED <<part, clientVars>>

NetworkNext ==
    \/ InClient /\ Client!Next
    \/ InRdma /\ Next
    \/ InAgain /\ Again!Next

\* Of a connection: the scheduler resumes a reader whose socket is ready or whose
\* sleep is over, and time passes; nothing is assumed of the peer.  Of a round:
\* the coroutine whose handler failed goes on to the close callback, and a
\* Replica is started again until its PSYNC is answered.
FairNetworkSpec ==
    /\ NetworkInit /\ [][NetworkNext]_allVars
    /\ WF_allVars(InClient /\ Client!Server)
    /\ WF_allVars(InClient /\ Client!DeadlinePasses)
    /\ WF_allVars(InAgain /\ Again!Disconnected)
    /\ WF_allVars(InAgain /\ Again!Psync)

-----------------------------------------------------------------------------
(* The safety of the resources is ResourcesOwned of RdmaResources.          *)

\* Wherever TCP cuts and joins the requests and however replies are batched: no
\* request is executed twice or out of order, and every execution has exactly
\* one reply, in the same order.  A connection that is closed before its replies
\* are sent loses at most one batch of them, the last ones.  No peer makes the
\* input buffer grow past the limit of one command, not even with a request that
\* never ends.
RepliesInOrder ==
    part = "client" =>
        /\ Client!TypeOK
        /\ Client!RepliesInOrder
        /\ Client!InputBounded

\* Every command on a connection that has carried only commands is answered, or
\* the connection is closed: no reply stays in the output buffer, no complete
\* request in the input buffer.
AllAnswered ==
    \A k \in 1 .. 3 :
        (part = "client" /\ Len(sent) >= k /\ Client!CommandsUpTo(k))
            ~> (part = "client" /\ (Len(delivered) >= k \/ pc = "closed"))

\* A connection to the Primary's port is identified or closed, although the
\* peer may send a byte at a time for ever.
IdentifiedOrClosed ==
    part = "client" ~> (part = "client" /\ (selected \/ pc = "closed"))

\* After a failed round of which every release succeeded, a Replica that starts
\* again is given a new full synchronisation by the Primary still running.
SyncAgain ==
    (part = "again" /\ role = "primary" /\ phase = "running" /\ slot = "failing")
       ~> (slot = "full_sync" \/ phase # "running")
=============================================================================
