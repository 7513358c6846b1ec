------------------------------ MODULE MCServer ------------------------------
(***************************************************************************)
(* The start of the server, its command execution and its protocol parser  *)
(* for TLC.  A behaviour is one of one part, chosen by the initial state,  *)
(* in which the executor rests in an initial state of its own, and the     *)
(* variables of the others hold nothing.                                   *)
(***************************************************************************)
EXTENDS CommandExec

VARIABLES
    part,                                   \* what this behaviour is one of
    pc, file, parsed, config, live, todo, leaked, status,
                                            \* ServerStart
    input                                   \* Codec

startVars == <<pc, file, parsed, config, live, todo, leaked, status>>
serverVars == <<part, startVars, vars, input>>

None == "-"

Ports == {"p1", "p2"}

Fields(f, values) == [kind : {"field"}, field : {f}, value : values]

\* Lines for all three roles, with two ports and every kind of error.
Lines ==
    [kind : {"skip", "malformed", "unknown"}, field : {None}, value : {None}]
    \cup Fields("role", {"standalone", "primary", "replica", "bad"})
    \cup Fields("service_port", Ports)
    \cup Fields("rdma_port", Ports)
    \cup Fields("persistence_mode", {"legacy_hybrid", "snapshot", "aof"})
    \cup Fields("replication_port", {"p1"})
    \cup Fields("primary_host", {"good"})
    \cup Fields("primary_port", {"p1", "bad"})
    \cup Fields("allocator", {"good"})

\* The five lines of a Replica, or four and one to spare.
Start == INSTANCE ServerStart WITH
    Line <- Lines, Port <- Ports, Unset <- None, MaxLines <- 5

\* Binary digits, room for two empty fields, and a size_t that a length of two
\* digits overflows.
Parser == INSTANCE Codec WITH
    Digit <- <<"0", "1">>, Other <- {}, FieldCapacity <- 2, Limit <- 17,
    SizeMax <- 2, MaxInput <- 18

ASSUME ServerAssumption ==
    Start!LineAssumption /\ Parser!CodecAssumption

NoStart ==
    /\ pc = None /\ file = None /\ parsed = None /\ config = None
    /\ live = None /\ todo = None /\ leaked = None /\ status = None

Resting == Init /\ role = "standalone" /\ mode = "aof"

ServerInit ==
    \/ part = "start" /\ Start!Init /\ Resting /\ input = None
    \/ part = "exec" /\ Init /\ NoStart /\ input = None
    \/ part = "parser" /\ Parser!Init /\ NoStart /\ Resting

ServerNext ==
    \/ part = "start" /\ Start!Next /\ UNCHANGED <<part, vars, input>>
    \/ part = "exec" /\ Next /\ UNCHANGED <<part, startVars, input>>
    \/ part = "parser" /\ Parser!Next /\ UNCHANGED <<part, startVars, vars>>

ServerSpec == ServerInit /\ [][ServerNext]_serverVars

-----------------------------------------------------------------------------
(* Properties.                                                              *)

\* The loader accepts exactly the files that are in order, whatever the order of
\* their lines; a field of another role is noticed before and after the role is
\* known.
AcceptedInOrder == part = "start" => Start!TypeOK /\ Start!AcceptedInOrder

\* Whatever fails at the start and when, at no moment of a way out is a component
\* up without what it works on.  A process that returns from main has released all
\* but what the destroy of the replication or of the allocator could not, and says
\* so of the allocator; exit() ends only a server in service that has an AOF.
CleanExit == part = "start" => Start!StandsOnLive /\ Start!CleanExit

\* The parser accepts exactly the commands of the format that are no longer than
\* the limit, to the byte; no length overflows into a shorter one.  A verdict on
\* the first bytes is final, however TCP cuts the stream.  What is parsed can be
\* written to the AOF and parsed back.
ParserExact ==
    part = "parser" =>
        /\ Parser!TypeOK
        /\ Parser!AcceptsCommands
        /\ Parser!VerdictFinal
        /\ Parser!RoundTrip
=============================================================================
