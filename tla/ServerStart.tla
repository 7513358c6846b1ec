---------------------------- MODULE ServerStart ----------------------------
(***************************************************************************)
(* From the configuration file to the end of the process: kvs_config_load  *)
(* (config.c), then main and kvs_server_run (kvstore.c), which start the   *)
(* components one after another and, from wherever they fail, take down    *)
(* what has been started; or exit(), which a serving process calls when it *)
(* cannot log a write or has lost its engines.                             *)
(*                                                                         *)
(* The text of a line is reduced to what the loader tells apart: skipped,  *)
(* malformed, an unknown name, or a field with a value that is legal or    *)
(* not.  Legal values of role, persistence_mode and the ports are kept.    *)
(***************************************************************************)
EXTENDS Naturals, Sequences, Functions

CONSTANTS
    Line,       \* the lines a file may contain
    Port,       \* port numbers
    Unset,      \* the value of a field that no line has set
    MaxLines    \* bound on the lines of a file

VARIABLES
    pc,         \* where the process is
    file,       \* the lines read so far
    parsed,     \* the temporary configuration and, as its domain, seen[]
    config,     \* main's configuration
    live,       \* components that are up
    todo,       \* components still to be started or to be taken down
    leaked,     \* components whose release failed
    status      \* what main would return: a failure until the service has ended

vars == <<pc, file, parsed, config, live, todo, leaked, status>>

-----------------------------------------------------------------------------
(***************************************************************************)
(* The configuration file.                                                 *)
(***************************************************************************)

Role == {"standalone", "primary", "replica"}
Mode == {"legacy_hybrid", "snapshot", "aof"}
PortField == {"service_port", "rdma_port", "replication_port", "primary_port"}
Field == {"role", "bind_ip", "log_level", "persistence_mode", "primary_host",
          "allocator"} \cup PortField

\* parse_field: the values each field accepts.
Legal(f) == CASE f = "role"              -> Role
              [] f = "persistence_mode"  -> Mode
              [] f \in PortField         -> Port
              [] OTHER                   -> {"good"}

\* Every line that the loader tells apart.
AnyLine == [kind : {"skip", "malformed", "unknown"}, field : {Unset}, value : {Unset}]
           \cup UNION {[kind : {"field"}, field : {f}, value : Legal(f) \cup {"bad"}]
                       : f \in Field}

LineAssumption == Line \subseteq AnyLine /\ "bad" \notin Port /\ MaxLines \in Nat

NoFields == [f \in {} |-> Unset]

Seen == DOMAIN parsed

\* A field may be given again.
BugRefused(l) ==
    \/ l.kind \in {"malformed", "unknown"}
    \/ l.kind = "field" /\ l.value \notin Legal(l.field)

\* The line ends the loading with an error: it is no pair, its name is
\* unknown, its field has been seen, or its value is not legal.
Refused(l) ==
    \/ l.kind \in {"malformed", "unknown"}
    \/ l.kind = "field" /\ (l.field \in Seen \/ l.value \notin Legal(l.field))

\* validate_config, test by test.
Valid ==
    /\ {"role", "service_port", "persistence_mode"} \subseteq Seen
    /\ "rdma_port" \in Seen =>
          parsed["role"] = "primary" /\ parsed["rdma_port"] # parsed["service_port"]
    /\ CASE parsed["role"] = "standalone" ->
              /\ Seen \cap {"replication_port", "primary_host", "primary_port"} = {}
              /\ parsed["persistence_mode"] \in {"snapshot", "aof"}
         [] parsed["role"] = "primary" ->
              Seen \cap {"replication_port", "primary_host", "primary_port"} = {}
         [] parsed["role"] = "replica" ->
              /\ {"primary_host", "primary_port"} \subseteq Seen
              /\ "replication_port" \notin Seen
    /\ parsed["role"] \in {"primary", "replica"} =>
          parsed["persistence_mode"] = "legacy_hybrid"
    /\ parsed["role"] = "primary" => "rdma_port" \in Seen

Init ==
    /\ pc = "load"
    /\ file = <<>>
    /\ parsed = NoFields
    /\ config = NoFields
    /\ live = {}
    /\ todo = <<>>
    /\ leaked = {}
    /\ status = "failure"

LoaderIdle == UNCHANGED <<config, live, todo, leaked, status>>

\* The value is stored before it is checked.
BugReadLine(l) ==
    /\ pc = "load" /\ Len(file) < MaxLines
    /\ file' = Append(file, l)
    /\ pc' = IF Refused(l) THEN "refused" ELSE pc
    /\ parsed' = IF l.kind = "field"
                 THEN [f \in Seen \cup {l.field} |->
                         IF f = l.field THEN l.value ELSE parsed[f]]
                 ELSE parsed
    /\ LoaderIdle

\* getline returns a line.
ReadLine(l) ==
    /\ pc = "load" /\ Len(file) < MaxLines
    /\ file' = Append(file, l)
    /\ IF Refused(l) THEN pc' = "refused" /\ UNCHANGED parsed
       ELSE /\ pc' = pc
            /\ parsed' = IF l.kind = "field"
                         THEN [f \in Seen \cup {l.field} |->
                                 IF f = l.field THEN l.value ELSE parsed[f]]
                         ELSE parsed
    /\ LoaderIdle

\* The file cannot be opened, read or closed.
LoadFails ==
    /\ pc = "load"
    /\ pc' = "failed"
    /\ UNCHANGED <<file, parsed>> /\ LoaderIdle

\* What kvs_server_run starts, in its order, for this configuration.
Startup(c) ==
    <<"allocator", "array", "rbtree", "hash", "skiplist">>
    \o (IF c["persistence_mode"] = "snapshot" THEN <<>> ELSE <<"aof">>)
    \o (IF c["role"] = "standalone" THEN <<>> ELSE <<"replication">>)
    \o (IF c["role"] = "primary" THEN <<"listener">> ELSE <<>>)
    \o <<"network">>

\* The end of the file: the fields are checked against each other, and only
\* an accepted configuration is copied to the caller's.
EndOfFile ==
    /\ pc = "load"
    /\ IF Valid THEN /\ pc' = "start"
                     /\ config' = parsed
                     /\ todo' = Startup(parsed)
       ELSE pc' = "refused" /\ UNCHANGED <<config, todo>>
    /\ UNCHANGED <<file, parsed, live, leaked, status>>

-----------------------------------------------------------------------------
(***************************************************************************)
(* The components.                                                         *)
(***************************************************************************)

Engines == <<"array", "rbtree", "hash", "skiplist">>

\* A failed start of the replication leaves the AOF open.
BugTakedown(component) ==
    CASE component = "allocator" -> <<>>
      [] component = "array" -> <<"allocator">>
      [] component = "rbtree" -> <<"array", "allocator">>
      [] component = "hash" -> <<"rbtree", "array", "allocator">>
      [] component = "skiplist" -> <<"hash", "rbtree", "array", "allocator">>
      [] component \in {"aof", "replication"} -> Engines \o <<"allocator">>
      [] component \in {"listener", "network"} ->
            <<"replication", "aof">> \o Engines \o <<"allocator">>

\* The releases on the way out when this component fails to start, main's
\* kvs_allocator_destroy included; releasing what is not up does nothing.
Takedown(component) ==
    CASE component = "allocator" -> <<>>
      [] component = "array" -> <<"allocator">>
      [] component = "rbtree" -> <<"array", "allocator">>
      [] component = "hash" -> <<"rbtree", "array", "allocator">>
      [] component = "skiplist" -> <<"hash", "rbtree", "array", "allocator">>
      [] component = "aof" -> Engines \o <<"allocator">>
      [] component = "replication" -> <<"aof">> \o Engines \o <<"allocator">>
      [] component \in {"listener", "network"} ->
            <<"replication", "aof">> \o Engines \o <<"allocator">>

\* The persistent state is recovered once the engines are up, and before the
\* AOF is opened; the Replica waits for its Primary's instead.
StartNext ==
    /\ pc = "start" /\ todo # <<>>
    /\ \/ /\ live' = live \cup {Head(todo)}
          /\ todo' = Tail(todo)
          /\ UNCHANGED pc
       \/ /\ pc' = "stop"
          \* a listener that did not start is kept, for the replication's end
          /\ live' = live \cup ({Head(todo)} \cap {"listener"})
          /\ todo' = Takedown(Head(todo))
    /\ UNCHANGED <<file, parsed, config, leaked, status>>

\* The snapshot of a server that has no AOF cannot be loaded.
RecoveryFails ==
    /\ pc = "start" /\ config["persistence_mode"] = "snapshot"
    /\ todo # <<>> /\ Head(todo) = "network"
    /\ pc' = "stop"
    /\ todo' = Engines \o <<"allocator">>
    /\ UNCHANGED <<file, parsed, config, live, leaked, status>>

Serving == pc = "start" /\ todo = <<>>

\* The network runtime returns.
ServiceEnds ==
    /\ Serving
    /\ pc' = "stop"
    /\ status' = "success"
    /\ live' = live \ {"network"}
    /\ todo' = Takedown("network")
    /\ UNCHANGED <<file, parsed, config, leaked>>

\* exit(): a write that the engine has made cannot be logged.
AppendFails ==
    /\ Serving /\ "aof" \in live
    /\ pc' = "aborted"
    /\ UNCHANGED <<file, parsed, config, live, todo, leaked, status>>

\* exit(): a Replica that replaces its data, or gives a failed replacement up,
\* has destroyed its engines and cannot create them again.
EnginesLost ==
    /\ Serving /\ config["role"] = "replica"
    /\ pc' = "aborted"
    /\ live' = live \ Range(Engines)
    /\ UNCHANGED <<file, parsed, config, todo, leaked, status>>

\* The listener outlives the replication manager.
BugReleased(c) == {c}

\* What is released by the release of a component: the listener belongs to
\* the replication manager.
Released(c) == IF c = "replication" THEN {"replication", "listener"} ELSE {c}

\* main does not look at what kvs_allocator_destroy returns.
BugStopNext ==
    /\ pc = "stop" /\ todo # <<>>
    /\ todo' = Tail(todo)
    /\ \/ live' = live \ Released(Head(todo)) /\ UNCHANGED leaked
       \/ /\ Head(todo) \in {"replication", "allocator"} \cap live
          /\ leaked' = leaked \cup (live \cap Released(Head(todo)))
          /\ UNCHANGED live
    /\ UNCHANGED <<pc, file, parsed, config, status>>

\* The next release.  kvs_replication_destroy may give up, and nobody asks;
\* kvs_allocator_destroy may, with an object still in use or a failing munmap,
\* and main reports it.
StopNext ==
    /\ pc = "stop" /\ todo # <<>>
    /\ todo' = Tail(todo)
    /\ \/ live' = live \ Released(Head(todo)) /\ UNCHANGED <<leaked, status>>
       \/ /\ Head(todo) \in {"replication", "allocator"} \cap live
          /\ leaked' = leaked \cup (live \cap Released(Head(todo)))
          /\ status' = IF Head(todo) = "allocator" THEN "failure" ELSE status
          /\ UNCHANGED live
    /\ UNCHANGED <<pc, file, parsed, config>>

\* main returns.
Exit ==
    /\ pc = "stop" /\ todo = <<>>
    /\ pc' = "exited"
    /\ UNCHANGED <<file, parsed, config, live, todo, leaked, status>>

Ended ==
    /\ pc \in {"refused", "failed", "exited", "aborted"}
    /\ UNCHANGED vars

Next ==
    \/ \E l \in Line : ReadLine(l)
    \/ LoadFails \/ EndOfFile
    \/ StartNext \/ RecoveryFails \/ ServiceEnds
    \/ AppendFails \/ EnginesLost
    \/ StopNext \/ Exit \/ Ended

Spec == Init /\ [][Next]_vars

-----------------------------------------------------------------------------
Component == {"allocator", "array", "rbtree", "hash", "skiplist", "aof",
              "replication", "listener", "network"}

\* The variables have the shape of the loader's and the server's state.
TypeOK ==
    /\ pc \in {"load", "refused", "failed", "start", "stop", "exited", "aborted"}
    /\ status \in {"success", "failure"}
    /\ file \in Seq(Line) /\ Len(file) <= MaxLines
    /\ Seen \subseteq Field
    /\ \A f \in Seen : parsed[f] \in Legal(f)
    /\ config = NoFields \/ config = parsed
    /\ live \subseteq Component /\ leaked \subseteq live
    /\ \A i \in 1..Len(todo) : todo[i] \in Component

\* What a role must and may configure, as the sample configurations do.
Required(r) == {"role", "service_port", "persistence_mode"}
               \cup (CASE r = "standalone" -> {}
                       [] r = "primary"    -> {"rdma_port"}
                       [] r = "replica"    -> {"primary_host", "primary_port"})

Optional == {"bind_ip", "log_level", "allocator"}

\* A file is in order: a property of its lines as a collection, whatever their
\* order and however far the loader has read.
InOrder(lines) ==
    LET fields == {i \in DOMAIN lines : lines[i].kind = "field"}
        names == {lines[i].field : i \in fields}
        Of(f) == lines[CHOOSE i \in fields : lines[i].field = f].value
    IN /\ \A i \in DOMAIN lines : lines[i].kind \in {"skip", "field"}
       /\ \A i \in fields : lines[i].value # "bad"
       /\ \A i, j \in fields : lines[i].field = lines[j].field => i = j
       /\ "role" \in names
       /\ Required(Of("role")) \subseteq names
       /\ names \subseteq Required(Of("role")) \cup Optional
       /\ Of("persistence_mode") \in
             IF Of("role") = "standalone" THEN {"snapshot", "aof"} ELSE {"legacy_hybrid"}
       /\ "rdma_port" \in names => Of("rdma_port") # Of("service_port")

\* The loader accepts exactly the files that are in order.  In particular the
\* order of the lines makes no difference, a field that only another role may
\* have is noticed before and after the role is known, and a server is started
\* only with every field that its role reads.
AcceptedInOrder ==
    /\ pc \in {"start", "stop", "exited", "aborted"} => InOrder(file)
    /\ pc = "refused" => ~InOrder(file)

\* What must be up for the other to be.
Needs == {<<e, "allocator">> : e \in Range(Engines)}
         \cup {<<"listener", "replication">>, <<"network", "allocator">>}
         \cup {<<"network", e>> : e \in Range(Engines)}
         \cup {<<"replication", "aof">>, <<"replication", "hash">>}

\* At no moment of the start or of a return to main is a component up without
\* what it works on, except for a replication manager that could not be closed.
\* After exit() nothing runs any more.
StandsOnLive ==
    pc # "aborted" => \A n \in Needs : n[1] \in live \ leaked => n[2] \in live

\* Whatever failed and when, a process that returns from main has released
\* everything but what kvs_replication_destroy or kvs_allocator_destroy could
\* not, and reports success only when the memory was given back.  Only a server
\* in service with an AOF ends by exit(), with a failure; it leaves what is up
\* to the kernel.
CleanExit ==
    /\ pc = "exited" => live = leaked /\ leaked \subseteq Released("replication") \cup {"allocator"}
    /\ pc = "exited" /\ status = "success" => "allocator" \notin live
    /\ pc = "aborted" => status = "failure" /\ {"allocator", "aof", "network"} \subseteq live
=============================================================================
