-------------------------- MODULE ClientConnection --------------------------
(***************************************************************************)
(* One accepted TCP connection: server_reader (src/network/ntyco.c) with   *)
(* its input and output buffers (buffer.c), the identification of the      *)
(* peer, and the request handler kvs_network_protocol (kvstore.c).         *)
(*                                                                         *)
(* A request is a run of cells, so that TCP may cut it anywhere and join   *)
(* it with its neighbours.  Its kind says what the parser makes of it:     *)
(*   cmd      a complete length-prefixed command                           *)
(*   bad      one in which the parser meets an error in cell `at'          *)
(*   endless  one that is neither complete nor wrong within the limit      *)
(*   line     text that does not begin with '*', not even a prefix of the  *)
(*            replication handshake from cell `at' on                      *)
(*   ping     the handshake PING\r\n of a Replica                          *)
(* The rest of a request whose front was thrown away is not a command.     *)
(***************************************************************************)
EXTENDS Integers, Sequences, FiniteSets, Functions

CONSTANTS
    Request,      \* [kind, size, at] records a peer may send
    Limit,        \* KVS_MAX_CLIENT_COMMAND_BYTES
    BufferLength, \* BUFFER_LENGTH: the first capacity of the input buffer
    Threshold,    \* NTYCO_REPLY_BATCH_THRESHOLD, in replies
    Listeners,    \* which listeners accept: "PRIMARY" identifies its peers
    StopAndWait,  \* the client sends a request only when all are answered
    MaxRequests   \* bound: requests of the connection

ConnectionAssumption ==
    /\ Request \subseteq [kind : {"cmd", "bad", "endless", "line", "ping"},
                          size : Nat \ {0}, at : Nat]
    /\ \A r \in Request : r.kind = "cmd" => r.size <= Limit
    /\ \A r \in Request : r.kind = "endless" => r.size > Limit
    /\ \A r \in Request : r.kind = "line" => r.at <= r.size /\ r.at <= Limit
    /\ \A r \in Request : r.kind = "ping" => r.size <= Limit
    /\ Limit \in Nat \ {0} /\ BufferLength \in Nat \ {0}
    \* doubled again and again, the first capacity meets the limit: 1 KiB and 1 MiB
    /\ \E caps \in SUBSET (1 .. Limit) :
          BufferLength \in caps /\ \A c \in caps : c < Limit => 2 * c \in caps
    /\ Threshold \in Nat \ {0}
    /\ Listeners \subseteq {"PRIMARY", "OTHER"}
    /\ StopAndWait \in BOOLEAN
    /\ MaxRequests \in Nat

VARIABLES
    pc,         \* where server_reader is
    listener,   \* which listener accepted the connection
    selected,   \* protocol_selected
    expired,    \* identification_deadline_ms has passed
    input,      \* the cells in the input buffer
    capacity,   \* its capacity
    output,     \* replies in the output buffer
    net,        \* cells under way to the server
    ending,     \* the peer: "open", "fin" (it will send no more) or "reset"
    sent,       \* history: the requests, in the order they were sent
    executed,   \* history: the positions in sent of the executed requests
    delivered   \* replies handed to TCP for the client

vars == <<pc, listener, selected, expired, input, capacity, output, net,
          ending, sent, executed, delivered>>
client == <<net, ending, sent>>

Init ==
    /\ pc = "recv"
    /\ listener \in Listeners
    /\ selected = (listener = "OTHER")
    /\ expired = FALSE
    /\ input = <<>> /\ capacity = 0 /\ output = <<>>
    /\ net = <<>> /\ ending = "open"
    /\ sent = <<>> /\ executed = <<>> /\ delivered = <<>>

-----------------------------------------------------------------------------
(* The peer and time.                                                       *)

Cells(id, r) == [i \in 1 .. r.size |-> [id |-> id, part |-> i]]

Send(r) ==
    /\ ending = "open" /\ Len(sent) < MaxRequests
    /\ StopAndWait => Len(delivered) >= Len(sent)
    /\ sent' = Append(sent, r)
    /\ net' = net \o Cells(Len(sent) + 1, r)
    /\ UNCHANGED <<pc, listener, selected, expired, input, capacity, output,
                   ending, executed, delivered>>

\* The peer shuts its sending side down, or the connection breaks.
End(how) ==
    /\ ending = "open"
    /\ ending' = how
    /\ UNCHANGED <<pc, listener, selected, expired, input, capacity, output,
                   net, sent, executed, delivered>>

\* Five seconds since the accept have passed.
DeadlinePasses ==
    /\ ~selected /\ ~expired
    /\ expired' = TRUE
    /\ UNCHANGED <<pc, listener, selected, input, capacity, output, executed,
                   delivered>>
    /\ UNCHANGED client

-----------------------------------------------------------------------------
(* Receiving.                                                               *)

\* kvs_input_buffer_ensure_space(&input, 1): a full buffer is doubled.
Ensured(cap, len) ==
    IF cap = 0 THEN BufferLength ELSE IF cap - len >= 1 THEN cap ELSE 2 * cap

\* Mutant: recv is offered a whole BUFFER_LENGTH, not the room that is left.
BugRecv(n) ==
    /\ pc = "recv" /\ ending # "reset"
    /\ selected \/ ~expired
    /\ n <= Len(net) /\ n <= BufferLength
    /\ capacity' = Ensured(capacity, Len(input))
    /\ input' = input \o SubSeq(net, 1, n)
    /\ net' = SubSeq(net, n + 1, Len(net))
    /\ pc' = "loop"
    /\ UNCHANGED <<listener, selected, expired, output, ending, sent, executed,
                   delivered>>

\* recv returns the first n cells, as many as have arrived and fit.  Until the
\* peer is identified the deadline is looked at before each attempt.
Recv(n) ==
    /\ pc = "recv" /\ ending # "reset"
    /\ selected \/ ~expired
    /\ LET cap == Ensured(capacity, Len(input)) IN
       /\ n <= Len(net) /\ n <= cap - Len(input)
       /\ capacity' = cap
    /\ input' = input \o SubSeq(net, 1, n)
    /\ net' = SubSeq(net, n + 1, Len(net))
    /\ pc' = "loop"
    /\ UNCHANGED <<listener, selected, expired, output, ending, sent, executed,
                   delivered>>

\* connection_closed: the replies that were not sent yet go with the output
\* buffer.  The input buffer goes too; nobody looks at it again.
Closed ==
    /\ pc' = "closed"
    /\ output' = <<>>
    /\ UNCHANGED <<listener, selected, expired, input, capacity, executed>>
    /\ UNCHANGED client

\* A buffer that is full, or not there yet, cannot be grown.
NoRoom ==
    /\ pc = "recv" /\ Ensured(capacity, Len(input)) # capacity
    /\ Closed /\ UNCHANGED delivered

\* recv returns 0 behind the last byte, or an error.
RecvEnds ==
    /\ pc = "recv"
    /\ ending = "reset" \/ (ending = "fin" /\ net = <<>>)
    /\ Closed /\ UNCHANGED delivered

\* Mutant: the deadline is looked at only while nothing arrives.
BugRecvTimesOut ==
    /\ pc = "recv" /\ ~selected /\ expired
    /\ net = <<>> /\ input = <<>>
    /\ Closed /\ UNCHANGED delivered

\* ntyco_recv_before_deadline gives up with ETIMEDOUT, whatever has arrived.
RecvTimesOut ==
    /\ pc = "recv" /\ ~selected /\ expired
    /\ Closed /\ UNCHANGED delivered

-----------------------------------------------------------------------------
(* One turn of the inner loop: identify, handle one request, batch.         *)

First == sent[input[1].id]

\* How many cells of the first request are in the buffer.
Have == Cardinality({i \in DOMAIN input : input[i].id = input[1].id})

\* kvs_identify_connection.
Kind ==
    CASE First.kind = "line" -> IF Have < First.at THEN "NEED_MORE" ELSE "INVALID"
      [] First.kind = "ping" -> IF Have < First.size THEN "NEED_MORE" ELSE "REPLICA"
      [] OTHER -> "CLIENT"

\* kvs_parse_command_limited.
Parsed ==
    IF input[1].part # 1 \/ First.kind \in {"line", "ping"} THEN "error"
    ELSE CASE First.kind = "cmd" -> IF Have = First.size THEN "done" ELSE "more"
           [] First.kind = "bad" -> IF Have >= First.at THEN "error" ELSE "more"
           [] First.kind = "endless" -> "more"

\* The peer is not known yet, or is a Replica, or nobody.
NeedMore ==
    /\ pc = "loop" /\ ~selected /\ Kind = "NEED_MORE"
    /\ pc' = "drain"
    /\ UNCHANGED <<listener, selected, expired, input, capacity, output,
                   executed, delivered>>
    /\ UNCHANGED client

Unknown ==
    /\ pc = "loop" /\ ~selected /\ Kind = "INVALID"
    /\ Closed /\ UNCHANGED delivered

\* From here on the connection is the one that Replication models.
BecomesReplica ==
    /\ pc = "loop" /\ ~selected /\ Kind = "REPLICA"
    /\ pc' = "replica" /\ selected' = TRUE
    /\ UNCHANGED <<listener, expired, input, capacity, output, executed,
                   delivered>>
    /\ UNCHANGED client

Handles ==
    /\ pc = "loop" /\ (selected \/ Kind = "CLIENT")
    /\ selected' = TRUE

\* After n cells were consumed for a reply: send when the batch is large
\* enough, go on while there is input, else leave the loop.
Reply(n, reply) ==
    /\ input' = SubSeq(input, n + 1, Len(input))
    /\ output' = Append(output, reply)
    /\ pc' = IF Len(output') >= Threshold THEN "flush"
             ELSE IF input' # <<>> THEN "loop" ELSE "drain"

\* Mutant: the whole buffer is consumed with the first command.
BugExecute ==
    /\ Handles /\ Parsed = "done"
    /\ executed' = Append(executed, input[1].id)
    /\ Reply(Len(input), [to |-> input[1].id, what |-> "done"])
    /\ UNCHANGED <<listener, expired, capacity, delivered>> /\ UNCHANGED client

\* kvs_execute_fields.
Execute ==
    /\ Handles /\ Parsed = "done"
    /\ executed' = Append(executed, input[1].id)
    /\ Reply(First.size, [to |-> input[1].id, what |-> "done"])
    /\ UNCHANGED <<listener, expired, capacity, delivered>> /\ UNCHANGED client

\* Mutant: a full buffer is not too long yet.
BugTooLong == Parsed = "more" /\ Len(input) > Limit

\* The buffer holds as much as one command may.
TooLong == Parsed = "more" /\ Len(input) >= Limit

\* -ERR invalid or oversized request: everything in the buffer is consumed.
Reject ==
    /\ Handles /\ (Parsed = "error" \/ TooLong)
    /\ Reply(Len(input), [to |-> 0, what |-> "error"])
    /\ UNCHANGED <<listener, expired, capacity, executed, delivered>>
    /\ UNCHANGED client

Incomplete ==
    /\ Handles /\ Parsed = "more" /\ ~TooLong
    /\ pc' = "drain"
    /\ UNCHANGED <<listener, expired, input, capacity, output, executed,
                   delivered>>
    /\ UNCHANGED client

\* The output buffer cannot be grown, before the handler is called or by it: a
\* GET whose value does not fit, for one, makes it return -1 (CommandExec has
\* all such commands, and that they change nothing).
ReplyFails ==
    /\ pc = "loop" /\ (selected \/ Kind \in {"CLIENT", "REPLICA"})
    /\ Closed /\ UNCHANGED delivered

\* Mutant: only full batches are sent.
BugFlush ==
    /\ pc \in {"flush", "drain"}
    /\ output # <<>> => ending # "reset"
    /\ IF pc = "flush" THEN delivered' = delivered \o output /\ output' = <<>>
       ELSE UNCHANGED <<delivered, output>>
    /\ pc' = IF pc = "flush" /\ input # <<>> THEN "loop"
             ELSE IF pc = "flush" THEN "drain" ELSE "recv"
    /\ UNCHANGED <<listener, selected, expired, input, capacity, executed>>
    /\ UNCHANGED client

\* ntyco_flush_output in the loop, and behind it before the next recv.
Flush ==
    /\ pc \in {"flush", "drain"}
    /\ output # <<>> => ending # "reset"
    /\ delivered' = delivered \o output
    /\ output' = <<>>
    /\ pc' = IF pc = "flush" /\ input # <<>> THEN "loop"
             ELSE IF pc = "flush" THEN "drain" ELSE "recv"
    /\ UNCHANGED <<listener, selected, expired, input, capacity, executed>>
    /\ UNCHANGED client

\* ntyco_send_all fails after the first n replies.
SendFails(n) ==
    /\ pc \in {"flush", "drain"} /\ output # <<>> /\ ending = "reset"
    /\ n < Len(output)
    /\ delivered' = delivered \o SubSeq(output, 1, n)
    /\ Closed

Server ==
    \/ \E n \in 1 .. 2 * Limit : Recv(n)
    \/ NoRoom \/ RecvEnds \/ RecvTimesOut
    \/ NeedMore \/ Unknown \/ BecomesReplica
    \/ Execute \/ Reject \/ Incomplete \/ ReplyFails
    \/ Flush
    \/ \E n \in 0 .. Threshold : SendFails(n)

Next ==
    \/ \E r \in Request : Send(r)
    \/ \E how \in {"fin", "reset"} : End(how)
    \/ DeadlinePasses
    \/ Server

Spec == Init /\ [][Next]_vars

\* The scheduler resumes a reader whose socket is ready or whose sleep is over;
\* time passes.  Nothing is assumed of the peer.
FairSpec == Spec /\ WF_vars(Server) /\ WF_vars(DeadlinePasses)

-----------------------------------------------------------------------------
(* Properties.                                                              *)

\* The variables have the shape of the reader's state; recv never writes past
\* the end of the input buffer.
TypeOK ==
    /\ pc \in {"recv", "loop", "flush", "drain", "closed", "replica"}
    /\ selected \in BOOLEAN /\ expired \in BOOLEAN
    /\ capacity \in Nat /\ Len(input) <= capacity
    /\ Len(output) <= Threshold
    /\ ending \in {"open", "fin", "reset"}
    /\ sent \in Seq(Request)
    /\ \A k \in DOMAIN executed : executed[k] \in DOMAIN sent

\* The requests up to the k-th are commands: until then the server and the
\* client agree on where a request begins.
CommandsUpTo(k) == \A j \in 1 .. k : sent[j].kind = "cmd"

Answers == delivered \o output
Done == {i \in DOMAIN Answers : Answers[i].what = "done"}

Replied == {Answers[i].to : i \in Done}
Unreplied == Range(executed) \ Replied

\* Wherever TCP cuts and joins the requests and however the replies are batched:
\* no request is executed twice, none is executed out of order, as long as all
\* were commands the k-th is the k-th to be executed, and every execution has
\* exactly one reply, in the same order.  A connection that the server closes may
\* take replies of executed requests with it; they are those of the last
\* executions and at most one batch, so a client that is cut off may only doubt
\* the requests behind the last reply it has.
RepliesInOrder ==
    /\ \A i, j \in DOMAIN executed : i < j => executed[i] < executed[j]
    /\ \A k \in DOMAIN executed : CommandsUpTo(k) => executed[k] = k
    /\ Replied \subseteq Range(executed)
    /\ \A i, j \in Done : i < j => Answers[i].to < Answers[j].to
    /\ pc # "closed" => Unreplied = {}
    /\ \A j \in Replied, k \in Unreplied : j < k
    /\ Cardinality(Unreplied) <= Threshold

\* No peer makes the input buffer grow past the limit of one command, not even
\* with a request that never ends, and a reader that waits has room.
InputBounded ==
    /\ capacity <= Limit
    /\ pc = "recv" => Len(input) < Limit

\* The k-th reply a client that waits for each reply receives is the reply to
\* its k-th request: an error in one request does not spoil the next.
UsableAfterError ==
    \A k \in DOMAIN delivered :
        k <= Len(sent) /\ sent[k].kind = "cmd" => delivered[k].what = "done"
=============================================================================
