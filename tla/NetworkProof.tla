---------------------------- MODULE NetworkProof ----------------------------
(***************************************************************************)
(* The network: the ownership of the RDMA resources, for any number of     *)
(* connection objects and any number of failing library calls, and the     *)
(* connection of a client, for requests and buffers of any size.           *)
(*                                                                         *)
(* Nothing that is left by a setup, an unwinding or a close that stops     *)
(* half way dangles, because Rank, the order of kvs_rdma_connection_close, *)
(* never puts a resource before one that uses it (Ordered).                *)
(*                                                                         *)
(* What a client has sent and the server has not consumed, in the buffer   *)
(* and in the network, is one stream of cells (Flow): TCP moves the border *)
(* between the two, the handler consumes at its front.  Historic ties the  *)
(* executions to that front, Answered the replies to the executions.       *)
(***************************************************************************)
EXTENDS RdmaResources, SequenceTheorems, FiniteSetTheorems, WellFoundedInduction,
        TLAPS

-----------------------------------------------------------------------------
(* The resources of one connection.                                         *)

\* Nothing in h uses something that is not in h, and a queue pair that can receive
\* can send.
Sound(h) ==
    /\ \A u \in Uses : u[1] \in h => u[2] \in h
    /\ "qp" \in h /\ "recv_mr" \in h => "send_mr" \in h

\* The resources by name.
LEMMA ResourceNames ==
    Resource = {"pd", "cq", "qp", "buffers", "send_mr", "recv_mr", "recv",
                "cm_id", "channel", "event", "send"}
<1>1. DOMAIN Setup = 1 .. 7
    BY DEF Setup
<1>2. {Setup[i] : i \in DOMAIN Setup} =
          {"pd", "cq", "qp", "buffers", "send_mr", "recv_mr", "recv"}
    BY <1>1 DEF Setup
<1> QED
    BY <1>2 DEF Resource

\* The close releases no resource before one that uses it.
LEMMA Ordered ==
    /\ \A r \in Resource : Rank[r] \in Nat
    /\ \A u \in Uses : u[1] \in Resource /\ u[2] \in Resource /\ Rank[u[1]] <= Rank[u[2]]
    /\ Rank["cm_id"] < Rank["channel"] /\ Rank["qp"] < Rank["send_mr"]
<1>1. /\ Rank["event"] = 1 /\ Rank["qp"] = 2 /\ Rank["send"] = 2 /\ Rank["recv"] = 2
      /\ Rank["send_mr"] = 3 /\ Rank["recv_mr"] = 4 /\ Rank["buffers"] = 5
      /\ Rank["cq"] = 6 /\ Rank["pd"] = 7 /\ Rank["cm_id"] = 8 /\ Rank["channel"] = 9
    BY ResourceNames DEF Rank
<1> QED
    BY <1>1, ResourceNames DEF Uses

\* A release that stops at f leaves a part of h in which nothing dangles, and no
\* id without its channel.
LEMMA LeftSound ==
    ASSUME NEW h \in SUBSET Resource, NEW f, f = NULL \/ f \in Resource
    PROVE  /\ Left(h, f) \subseteq h
           /\ Sound(h) => Sound(Left(h, f))
           /\ "cm_id" \in Left(h, f) /\ "channel" \in h => "channel" \in Left(h, f)
<1>1. CASE f = NULL
    BY <1>1 DEF Left, Sound
<1>2. CASE f # NULL
    <2>1. Left(h, f) = {r \in h : Rank[r] >= Rank[f]}
        BY <1>2 DEF Left
    <2>2. Rank[f] \in Nat
        BY <1>2, Ordered
    <2>3. ASSUME Sound(h), NEW u \in Uses, u[1] \in Left(h, f) PROVE u[2] \in Left(h, f)
        <3>1. u[1] \in h /\ Rank[u[1]] >= Rank[f]
            BY <2>1, <2>3
        <3>2. u[2] \in h
            BY <2>3, <3>1 DEF Sound
        <3>3. Rank[u[1]] \in Nat /\ Rank[u[2]] \in Nat /\ Rank[u[1]] <= Rank[u[2]]
            BY Ordered
        <3> QED
            BY <2>1, <2>2, <3>1, <3>2, <3>3
    <2>4. ASSUME "cm_id" \in Left(h, f), "channel" \in h PROVE "channel" \in Left(h, f)
        <3>1. Rank["cm_id"] >= Rank[f]
            BY <2>1, <2>4
        <3>2. Rank["cm_id"] \in Nat /\ Rank["channel"] \in Nat /\ Rank["cm_id"] < Rank["channel"]
            BY Ordered, ResourceNames
        <3> QED
            BY <2>1, <2>2, <2>4, <3>1, <3>2
    <2>5. ASSUME Sound(h), "qp" \in Left(h, f), "recv_mr" \in Left(h, f)
          PROVE  "send_mr" \in Left(h, f)
        <3>1. Rank["qp"] >= Rank[f] /\ "send_mr" \in h
            BY <2>1, <2>5 DEF Sound
        <3>2. Rank["qp"] \in Nat /\ Rank["send_mr"] \in Nat /\ Rank["qp"] < Rank["send_mr"]
            BY Ordered, ResourceNames
        <3> QED
            BY <2>1, <2>2, <3>1, <3>2
    <2> QED
        BY <2>1, <2>3, <2>4, <2>5 DEF Sound
<1> QED
    BY <1>1, <1>2

\* What may fail is a resource.
LEMMA FaultTypes ==
    ASSUME NEW h \in SUBSET Resource, NEW f \in ReleaseFault(h)
    PROVE  (f = NULL \/ f \in Resource) /\ Cost(f) \in {0, 1} /\ Left(h, NULL) = {}
    BY DEF ReleaseFault, Cost, Left

\* What a setup has made after n calls.
LEMMA MadeIs ==
    /\ Made(0) = {} /\ Made(1) = {"pd"} /\ Made(2) = {"pd", "cq"}
    /\ Made(3) = {"pd", "cq", "qp"}
    /\ Made(4) = {"pd", "cq", "qp", "buffers"}
    /\ Made(5) = {"pd", "cq", "qp", "buffers", "send_mr"}
    /\ Made(6) = {"pd", "cq", "qp", "buffers", "send_mr", "recv_mr"}
    /\ Made(7) = {"pd", "cq", "qp", "buffers", "send_mr", "recv_mr", "recv"}
<1> DEFINE S(n) == {Setup[i] : i \in 1 .. n}
<1>1. /\ Setup[1] = "pd" /\ Setup[2] = "cq" /\ Setup[3] = "qp" /\ Setup[4] = "buffers"
      /\ Setup[5] = "send_mr" /\ Setup[6] = "recv_mr" /\ Setup[7] = "recv"
    BY DEF Setup
<1>2. 1 .. 0 = {} /\ 1 .. 1 = {1} /\ 1 .. 2 = {1, 2} /\ 1 .. 3 = {1, 2, 3}
      /\ 1 .. 4 = {1, 2, 3, 4} /\ 1 .. 5 = {1, 2, 3, 4, 5}
      /\ 1 .. 6 = {1, 2, 3, 4, 5, 6} /\ 1 .. 7 = {1, 2, 3, 4, 5, 6, 7}
    OBVIOUS
<1>3. \A n : Made(n) = S(n)
    BY DEF Made
<1> QED
    BY <1>1, <1>2 DEF Made

\* Whatever becomes of a setup, nothing dangles in what the connection holds then.
LEMMA PreparedSound ==
    ASSUME NEW h \in SUBSET {"cm_id", "channel", "event"}, "cm_id" \in h, NEW o \in Prepared(h)
    PROVE  /\ o.held \in SUBSET Resource /\ h \subseteq o.held
           /\ Sound(o.held) /\ Sound(o.held \ {"event"})
           /\ o.ok \in BOOLEAN /\ o.cost \in Nat
           /\ o.held \cap {"channel", "cm_id"} = h \cap {"channel", "cm_id"}
<1>1. h \subseteq Resource
    BY ResourceNames
<1>2. ASSUME NEW g \in SUBSET (Made(7)), o.held = h \cup g, Sound(h \cup g)
      PROVE  /\ o.held \in SUBSET Resource /\ h \subseteq o.held
             /\ Sound(o.held) /\ Sound(o.held \ {"event"})
             /\ o.held \cap {"channel", "cm_id"} = h \cap {"channel", "cm_id"}
    <2>1. Made(7) \subseteq Resource
        BY MadeIs, ResourceNames
    <2>2. \A u \in Uses : u[1] # "event" /\ u[2] # "event"
        BY DEF Uses
    <2>3. Sound(o.held \ {"event"})
        BY <1>2, <2>2 DEF Sound
    <2>4. "channel" \notin g /\ "cm_id" \notin g
        BY MadeIs
    <2> QED
        BY <1>1, <1>2, <2>1, <2>3, <2>4
<1>3. \A n \in {0, 1, 2, 3, 4, 5, 6, 7} : Sound(h \cup Made(n)) /\ Made(n) \subseteq Made(7)
    BY MadeIs DEF Sound, Uses
<1>4. CASE o \in {[ok |-> TRUE, held |-> h \cup Made(7), cost |-> 0],
                  [ok |-> FALSE, held |-> h \cup Made(7), cost |-> 1]}
    <2>1. o.held = h \cup Made(7) /\ o.ok \in BOOLEAN /\ o.cost \in Nat
        <3>1. CASE o = [ok |-> TRUE, held |-> h \cup Made(7), cost |-> 0]
            BY <3>1
        <3>2. CASE o = [ok |-> FALSE, held |-> h \cup Made(7), cost |-> 1]
            BY <3>2
        <3> QED
            BY <1>4, <3>1, <3>2
    <2> QED
        BY <1>2, <1>3, <2>1
<1>5. ASSUME NEW n \in 0 .. 6, NEW f \in ReleaseFault(Undone(n)),
             o = [ok |-> FALSE,
                  held |-> h \cup (Made(n) \ Undone(n)) \cup Left(Undone(n), f),
                  cost |-> 1 + Cost(f)]
      PROVE  /\ o.held \in SUBSET Resource /\ h \subseteq o.held
             /\ Sound(o.held) /\ Sound(o.held \ {"event"})
             /\ o.ok \in BOOLEAN /\ o.cost \in Nat
             /\ o.held \cap {"channel", "cm_id"} = h \cap {"channel", "cm_id"}
    <2>1. n \in {0, 1, 2, 3, 4, 5, 6}
        OBVIOUS
    <2>2. Undone(n) \subseteq Made(n) /\ Made(n) \subseteq Made(7) /\ Made(n) \subseteq Resource
        BY <1>3, <2>1, MadeIs, ResourceNames DEF Undone
    <2>3. (f = NULL \/ f \in Resource) /\ Cost(f) \in {0, 1}
        BY <2>2, FaultTypes
    <2> DEFINE l == Left(Undone(n), f)
               g == (Made(n) \ Undone(n)) \cup l
    <2>4. l \subseteq Undone(n) /\ (Sound(Undone(n)) => Sound(l))
        BY <2>2, <2>3, LeftSound
    <2>5. /\ f = NULL => l = {}
          /\ f # NULL => l = {r \in Undone(n) : Rank[r] >= Rank[f]}
        BY DEF Left
    <2>6. Sound(h \cup g)
        <3>1. CASE n \in {0, 1, 2}
            <4>1. Undone(n) = Made(n)
                BY <3>1 DEF Undone
            <4>2. g \subseteq {"pd", "cq"}
                BY <2>4, <3>1, <4>1, MadeIs
            <4> QED
                BY <4>2 DEF Sound, Uses
        <3>2. CASE n = 6
            <4>1. Undone(n) = {}
                BY <3>2 DEF Undone
            <4>2. g = Made(n)
                BY <2>4, <4>1
            <4> QED
                BY <1>3, <3>2, <4>2
        <3>3. CASE n \in {3, 4, 5}
            <4>1. Undone(n) = Made(n) \ Made(3)
                BY <3>3 DEF Undone
            <4>2. g = Made(3) \cup l
                BY <3>3, <4>1, MadeIs
            <4>3. l \subseteq {"buffers", "send_mr"}
                BY <2>4, <3>3, <4>1, MadeIs
            <4>4. "send_mr" \in l => "buffers" \in l
                <5>1. SUFFICES ASSUME "send_mr" \in l PROVE "buffers" \in l
                    OBVIOUS
                <5>2. f # NULL /\ "buffers" \in Undone(n)
                    BY <2>4, <2>5, <3>3, <4>1, <5>1, MadeIs
                <5>3. /\ Rank["send_mr"] \in Nat /\ Rank["buffers"] \in Nat /\ Rank[f] \in Nat
                      /\ Rank["send_mr"] <= Rank["buffers"]
                    <6>1. <<"send_mr", "buffers">> \in Uses
                        BY DEF Uses
                    <6> QED
                        BY <2>3, <5>2, <6>1, Ordered
                <5> HIDE DEF l
                <5> QED
                    BY <2>5, <5>1, <5>2, <5>3
            <4>5. Made(3) = {"pd", "cq", "qp"}
                BY MadeIs
            <4> HIDE DEF l, g
            <4> QED
                BY <4>2, <4>3, <4>4, <4>5 DEF Sound, Uses
        <3> QED
            BY <2>1, <3>1, <3>2, <3>3
    <2>7. g \subseteq Made(7)
        BY <2>2, <2>4
    <2>8. o.held = h \cup g /\ o.ok = FALSE /\ o.cost = 1 + Cost(f)
        BY <1>5
    <2> HIDE DEF g, l
    <2>9. o.cost \in Nat
        BY <2>3, <2>8
    <2> QED
        BY <1>2, <2>6, <2>7, <2>8, <2>9
<1> QED
    BY <1>4, <1>5 DEF Prepared

-----------------------------------------------------------------------------
(* The inductive invariant.                                                 *)

AllOfListener == {"struct", "channel", "listen_id"}

\* Nothing dangles in what a connection holds, and its id has a channel.
ConnSound(c) ==
    /\ Sound(held[c])
    /\ "cm_id" \in held[c] => "channel" \in held[c] \/ listener = AllOfListener

OwnInv ==
    /\ TypeOK
    /\ Reachable
    /\ \A c \in Conn : ConnSound(c)
    /\ DestroyComplete
    /\ "listen_id" \in listener => "channel" \in listener
    /\ phase = "init" => allocated = {}
    /\ role = "primary" /\ phase = "running" => listener = AllOfListener

\* One connection holds h afterwards, and the others what they held.
Holds(c, h) ==
    /\ held' = [held EXCEPT ![c] = h]
    /\ h \in SUBSET Resource
    /\ Sound(h)
    /\ "cm_id" \in h => "channel" \in h \/ listener = AllOfListener

LEMMA HoldsSound ==
    ASSUME OwnInv, NEW c \in Conn, NEW h, Holds(c, h), listener' = listener
    PROVE  /\ held' \in [Conn -> SUBSET Resource]
           /\ held'[c] = h /\ \A d \in Conn : d # c => held'[d] = held[d]
           /\ \A d \in Conn : ConnSound(d)'
<1>1. held \in [Conn -> SUBSET Resource]
    BY DEF OwnInv, TypeOK
<1>2. held' \in [Conn -> SUBSET Resource] /\ held'[c] = h /\ \A d \in Conn : d # c => held'[d] = held[d]
    BY <1>1 DEF Holds
<1>3. ASSUME NEW d \in Conn PROVE ConnSound(d)'
    <2>1. CASE d = c
        BY <1>2, <2>1 DEF Holds, ConnSound
    <2>2. CASE d # c
        <3>1. held'[d] = held[d]
            BY <1>2, <2>2
        <3> QED
            BY <3>1 DEF OwnInv, ConnSound
    <2> QED
        BY <2>1, <2>2
<1> QED
    BY <1>2, <1>3

\* A running manager goes on running; what is left to show concerns the connections.
LEMMA StillRunning ==
    ASSUME OwnInv, phase = "running", UNCHANGED <<role, phase, listener>>,
           TypeOK', Reachable', \A c \in Conn : ConnSound(c)'
    PROVE  OwnInv'
<1>1. DestroyComplete'
    BY DEF DestroyComplete
<1>2. /\ ("listen_id" \in listener => "channel" \in listener)'
      /\ (phase = "init" => allocated = {})'
      /\ (role = "primary" /\ phase = "running" => listener = AllOfListener)'
    BY DEF OwnInv
<1> QED
    BY <1>1, <1>2 DEF OwnInv

LEMMA SpendTypes ==
    ASSUME OwnInv, NEW n, n \in Nat, Spend(n)
    PROVE  faults' \in 0 .. MaxFaults
<1>1. faults \in Nat /\ MaxFaults \in Nat
    BY RdmaAssumption DEF OwnInv, TypeOK
<1> QED
    BY <1>1 DEF Spend

\* A connection that may be allocated holds nothing and is nobody's.
LEMMA FreshFacts ==
    ASSUME OwnInv, NEW c \in Fresh
    PROVE  /\ c \in Conn /\ c # NULL /\ c \notin allocated
           /\ c # sync /\ c # cleanup /\ held[c] = {}
<1>1. c \in Conn /\ c \notin allocated /\ c # NULL
    BY RdmaAssumption DEF Fresh
<1> QED
    BY <1>1 DEF OwnInv, Reachable

\* What is allocated holds nothing else.
LEMMA SyncFacts ==
    ASSUME OwnInv, sync # NULL
    PROVE  /\ sync \in Conn /\ sync \in allocated /\ held[sync] \in SUBSET Resource
           /\ ConnSound(sync) /\ sync # cleanup
    BY DEF OwnInv, Reachable, TypeOK

\* Nothing was ever allocated.
LEMMA InitOwn == Init => OwnInv
<1> SUFFICES ASSUME Init PROVE OwnInv
    OBVIOUS
<1>1. TypeOK
    BY RdmaAssumption DEF Init, TypeOK, Phase, Slot
<1>2. \A c \in Conn : ConnSound(c)
    BY DEF Init, ConnSound, Sound
<1> QED
    BY <1>1, <1>2 DEF Init, OwnInv, Reachable, DestroyComplete

\* Steps that touch no connection.
LEMMA PlainOwn ==
    ASSUME OwnInv, StartListener \/ Psync \/ RoundFails \/ Connect \/ UNCHANGED vars
    PROVE  OwnInv'
<1>1. UNCHANGED <<role, sync, cleanup, allocated, held>>
    BY DEF StartListener, Psync, RoundFails, Connect, vars
<1>2. CASE StartListener
    <2>1. /\ phase = "init" /\ role = "primary" /\ slot' = slot
          /\ listener' \in {{}, {"struct"}, AllOfListener}
          /\ phase' \in {"running", "stopping"}
          /\ phase' = "running" => listener' = AllOfListener
        BY <1>2 DEF StartListener, AllOfListener
    <2>2. faults' \in 0 .. MaxFaults
        <3>1. faults' = faults \/ Spend(1)
            BY <1>2 DEF StartListener
        <3> QED
            BY <3>1, SpendTypes DEF OwnInv, TypeOK
    <2>3. \A c \in Conn : held[c] = {}
        BY <2>1 DEF OwnInv, Reachable
    <2>4. \A c \in Conn : ConnSound(c)'
        BY <1>1, <2>3 DEF ConnSound, Sound
    <2>5. TypeOK'
        BY <1>1, <2>1, <2>2 DEF OwnInv, TypeOK, Phase, AllOfListener
    <2>6. Reachable'
        BY <1>1 DEF OwnInv, Reachable
    <2>7. DestroyComplete' /\ ("listen_id" \in listener => "channel" \in listener)'
        BY <2>1 DEF DestroyComplete, AllOfListener
    <2> QED
        BY <2>1, <2>4, <2>5, <2>6, <2>7 DEF OwnInv
<1>3. CASE Psync \/ RoundFails \/ Connect \/ UNCHANGED vars
    <2>1. UNCHANGED <<listener, faults>> /\ slot' \in Slot
        BY <1>3 DEF Psync, RoundFails, Connect, vars, OwnInv, TypeOK, Slot
    <2>2. phase' = phase \/ (phase' = "running" /\ role = "replica")
        BY <1>3 DEF Psync, RoundFails, Connect, vars
    <2>3. TypeOK'
        BY <1>1, <2>1, <2>2 DEF OwnInv, TypeOK, Phase
    <2>4. \A c \in Conn : ConnSound(c)'
        BY <1>1, <2>1 DEF OwnInv, ConnSound
    <2> QED
        BY <1>1, <2>1, <2>2, <2>3, <2>4 DEF OwnInv, Reachable, DestroyComplete
<1> QED
    BY <1>2, <1>3

\* The connection of the round gains or loses single resources.
LEMMA SyncOwn ==
    ASSUME OwnInv, PollOwnEvent \/ RouteResolved \/ \E w \in {"send", "recv"} : Post(w) \/ Complete(w)
    PROVE  OwnInv'
<1>1. /\ phase = "running" /\ sync # NULL
      /\ UNCHANGED <<role, phase, sync, cleanup, allocated, listener>>
    BY DEF PollOwnEvent, RouteResolved, Post, Complete, Polls
<1>2. sync \in Conn /\ sync \in allocated /\ held[sync] \in SUBSET Resource /\ ConnSound(sync)
    BY <1>1, SyncFacts
<1>3. slot' \in Slot /\ \E h : Holds(sync, h)
    <2>1. CASE PollOwnEvent
        <3>1. PICK f \in ReleaseFault({"event"}) :
                  held' = [held EXCEPT ![sync] = @ \cup (IF f = NULL THEN {} ELSE {"event"})]
            BY <2>1 DEF PollOwnEvent
        <3> DEFINE h == held[sync] \cup (IF f = NULL THEN {} ELSE {"event"})
        <3>2. Holds(sync, h)
            BY <1>2, <3>1, ResourceNames DEF Holds, ConnSound, Sound, Uses
        <3>3. slot' \in Slot
            BY <2>1 DEF PollOwnEvent, OwnInv, TypeOK, Slot
        <3> QED
            BY <3>2, <3>3
    <2>2. CASE RouteResolved
        <3>1. PICK o \in Prepared(held[sync] \cup {"event"}), f \in ReleaseFault({"event"}) :
                  held' = [held EXCEPT ![sync] = IF f = NULL THEN o.held \ {"event"} ELSE o.held]
            BY <2>2 DEF RouteResolved
        <3>2. held[sync] = {"channel", "cm_id"}
            BY <2>2 DEF RouteResolved
        <3>3. /\ o.held \in SUBSET Resource /\ Sound(o.held) /\ Sound(o.held \ {"event"})
              /\ "channel" \in o.held
            <4>1. held[sync] \cup {"event"} \in SUBSET {"cm_id", "channel", "event"}
                BY <3>2
            <4> QED
                BY <3>2, <4>1, PreparedSound
        <3>4. Holds(sync, IF f = NULL THEN o.held \ {"event"} ELSE o.held)
            BY <3>1, <3>3 DEF Holds
        <3>5. slot' \in Slot
            BY <2>2 DEF RouteResolved, OwnInv, TypeOK, Slot
        <3> QED
            BY <3>4, <3>5
    <2>3. ASSUME NEW w \in {"send", "recv"}, Post(w) PROVE slot' \in Slot /\ Holds(sync, held[sync] \cup {w})
        <3>1. /\ held' = [held EXCEPT ![sync] = held[sync] \cup {w}] /\ slot' = slot
              /\ "qp" \in held[sync] /\ "recv_mr" \in held[sync]
            BY <2>3 DEF Post
        <3>2. "send_mr" \in held[sync]
            BY <1>2, <3>1 DEF ConnSound, Sound
        <3>3. Sound(held[sync] \cup {w})
            BY <1>2, <3>1, <3>2 DEF ConnSound, Sound, Uses
        <3> QED
            BY <1>2, <3>1, <3>3, ResourceNames DEF Holds, ConnSound, OwnInv, TypeOK
    <2>4. ASSUME NEW w \in {"send", "recv"}, Complete(w) PROVE slot' \in Slot /\ Holds(sync, held[sync] \ {w})
        <3>1. held' = [held EXCEPT ![sync] = held[sync] \ {w}] /\ slot' = slot
            BY <2>4 DEF Complete
        <3>2. Sound(held[sync] \ {w})
            BY <1>2 DEF ConnSound, Sound, Uses
        <3> QED
            BY <1>2, <3>1, <3>2 DEF Holds, ConnSound, OwnInv, TypeOK
    <2> QED
        BY <2>1, <2>2, <2>3, <2>4
<1>4. faults' \in 0 .. MaxFaults
    <2>1. faults \in 0 .. MaxFaults
        BY DEF OwnInv, TypeOK
    <2>2. CASE PollOwnEvent
        <3>1. PICK f \in ReleaseFault({"event"}) : Spend(Cost(f))
            BY <2>2 DEF PollOwnEvent
        <3> QED
            BY <3>1, SpendTypes DEF Cost
    <2>3. CASE RouteResolved
        <3>1. PICK o \in Prepared(held[sync] \cup {"event"}), f \in ReleaseFault({"event"}) :
                  Spend(o.cost + Cost(f))
            BY <2>3 DEF RouteResolved
        <3>2. held[sync] = {"channel", "cm_id"}
            BY <2>3 DEF RouteResolved
        <3>3. o.cost \in Nat
            <4>1. held[sync] \cup {"event"} \in SUBSET {"cm_id", "channel", "event"}
                BY <3>2
            <4> QED
                BY <3>2, <4>1, PreparedSound
        <3>4. Cost(f) \in Nat
            BY DEF Cost
        <3>5. o.cost + Cost(f) \in Nat
            BY <3>3, <3>4
        <3> QED
            BY <3>1, <3>5, SpendTypes
    <2> QED
        BY <2>1, <2>2, <2>3 DEF Post, Complete
<1>5. PICK h : Holds(sync, h)
    BY <1>3
<1>6. /\ held' \in [Conn -> SUBSET Resource]
      /\ \A d \in Conn : d # sync => held'[d] = held[d]
      /\ \A d \in Conn : ConnSound(d)'
    BY <1>1, <1>2, <1>5, HoldsSound
<1>7. TypeOK'
    BY <1>1, <1>3, <1>4, <1>6 DEF OwnInv, TypeOK
<1>8. Reachable'
    BY <1>1, <1>2, <1>6 DEF OwnInv, Reachable
<1> QED
    BY <1>1, <1>6, <1>7, <1>8, StillRunning

\* A new connection becomes the connection of the round.
LEMMA NewSyncOwn ==
    ASSUME OwnInv, NEW c \in Fresh, PollRequest(c) \/ RdmaStart(c)
    PROVE  OwnInv'
<1>1. /\ phase = "running" /\ sync = NULL /\ sync' = c /\ allocated' = allocated \cup {c}
      /\ UNCHANGED <<role, phase, cleanup, listener>>
    BY DEF PollRequest, RdmaStart, Polls
<1>2. /\ c \in Conn /\ c # NULL /\ c # cleanup /\ held[c] = {}
    BY FreshFacts
<1>3. slot' \in Slot /\ faults' \in 0 .. MaxFaults /\ \E h : Holds(c, h)
    <2>1. CASE PollRequest(c)
        <3>1. PICK o \in Prepared({"cm_id", "event"}), f \in ReleaseFault({"event"}) :
                  /\ held' = [held EXCEPT ![c] = IF f = NULL THEN o.held \ {"event"} ELSE o.held]
                  /\ Spend(o.cost + Cost(f))
            BY <2>1 DEF PollRequest
        <3>2. role = "primary" /\ listener = AllOfListener
            BY <2>1 DEF PollRequest, Polls, OwnInv
        <3>3. /\ o.held \in SUBSET Resource /\ Sound(o.held) /\ Sound(o.held \ {"event"})
              /\ o.cost \in Nat
            <4>1. {"cm_id", "event"} \in SUBSET {"cm_id", "channel", "event"}
                OBVIOUS
            <4> QED
                BY <4>1, PreparedSound
        <3>4. Holds(c, IF f = NULL THEN o.held \ {"event"} ELSE o.held)
            BY <3>1, <3>2, <3>3 DEF Holds
        <3>5. slot' \in Slot
            BY <2>1 DEF PollRequest, OwnInv, TypeOK, Slot
        <3>6. faults' \in 0 .. MaxFaults
            <4>1. Cost(f) \in Nat
                BY DEF Cost
            <4>2. o.cost + Cost(f) \in Nat
                BY <3>3, <4>1
            <4> QED
                BY <3>1, <4>2, SpendTypes
        <3> QED
            BY <3>4, <3>5, <3>6
    <2>2. CASE RdmaStart(c)
        <3>1. PICK h \in {{}, {"channel"}, {"channel", "cm_id"}} : held' = [held EXCEPT ![c] = h]
            BY <2>2 DEF RdmaStart
        <3>2. Holds(c, h)
            BY <3>1, ResourceNames DEF Holds, Sound, Uses
        <3>3. slot' \in Slot
            BY <2>2 DEF RdmaStart, Slot
        <3>4. faults' = faults \/ Spend(1)
            BY <2>2 DEF RdmaStart
        <3>5. faults' \in 0 .. MaxFaults
            BY <3>4, SpendTypes DEF OwnInv, TypeOK
        <3> QED
            BY <3>2, <3>3, <3>5
    <2> QED
        BY <2>1, <2>2
<1>4. PICK h : Holds(c, h)
    BY <1>3
<1>5. /\ held' \in [Conn -> SUBSET Resource]
      /\ \A d \in Conn : d # c => held'[d] = held[d]
      /\ \A d \in Conn : ConnSound(d)'
    BY <1>1, <1>2, <1>4, HoldsSound
<1>6. TypeOK'
    BY <1>1, <1>2, <1>3, <1>5 DEF OwnInv, TypeOK
<1>7. Reachable'
    BY <1>1, <1>2, <1>5 DEF OwnInv, Reachable
<1> QED
    BY <1>1, <1>5, <1>6, <1>7, StillRunning

\* A new connection that the round has no use for is freed or kept for its cleanup.
LEMMA SeparateOwn ==
    ASSUME OwnInv, NEW c \in Fresh, PollExtraRequest(c) \/ PollStrayEvent(c)
    PROVE  OwnInv'
<1>1. /\ phase = "running" /\ role = "primary" /\ cleanup = NULL
      /\ UNCHANGED <<role, phase, sync, listener>>
    BY DEF PollExtraRequest, PollStrayEvent, Polls
<1>2. /\ c \in Conn /\ c # NULL /\ c # sync /\ held[c] = {}
    BY FreshFacts
<1>3. \E g \in {{"event"}, {"cm_id", "event"}} : \E f \in ReleaseFault(g), n \in Nat :
          SeparateOwner(c, g, f) /\ Spend(n)
    <2>1. CASE PollExtraRequest(c)
        <3>1. PICK f \in ReleaseFault({"event", "cm_id"}), rejected \in BOOLEAN :
                  /\ SeparateOwner(c, {"cm_id", "event"}, f)
                  /\ Spend(Cost(f) + (IF rejected THEN 0 ELSE 1))
            BY <2>1 DEF PollExtraRequest
        <3>2. Cost(f) + (IF rejected THEN 0 ELSE 1) \in Nat
            BY DEF Cost
        <3>3. {"event", "cm_id"} = {"cm_id", "event"}
            OBVIOUS
        <3> QED
            BY <3>1, <3>2, <3>3
    <2>2. CASE PollStrayEvent(c)
        <3>1. PICK f \in ReleaseFault({"event"}) : SeparateOwner(c, {"event"}, f) /\ Spend(Cost(f))
            BY <2>2 DEF PollStrayEvent
        <3>2. Cost(f) \in Nat
            BY DEF Cost
        <3> QED
            BY <3>1, <3>2
    <2> QED
        BY <2>1, <2>2
<1>4. PICK g \in {{"event"}, {"cm_id", "event"}} : \E f \in ReleaseFault(g), n \in Nat :
          SeparateOwner(c, g, f) /\ Spend(n)
    BY <1>3
<1>5. PICK f \in ReleaseFault(g), n \in Nat : SeparateOwner(c, g, f) /\ Spend(n)
    BY <1>4
<1>6. /\ held' = [held EXCEPT ![c] = Left(g, f)]
      /\ cleanup' = IF f = NULL THEN NULL ELSE c
      /\ allocated' = IF f = NULL THEN allocated ELSE allocated \cup {c}
    BY <1>5 DEF SeparateOwner
<1>7. g \in SUBSET Resource /\ Sound(g)
    BY ResourceNames DEF Sound, Uses
<1>8. Left(g, f) \subseteq g /\ Sound(Left(g, f)) /\ Left(g, NULL) = {}
    BY <1>7, FaultTypes, LeftSound
<1>9. listener = AllOfListener
    BY <1>1 DEF OwnInv
<1>10. Holds(c, Left(g, f))
    BY <1>6, <1>7, <1>8, <1>9 DEF Holds
<1>11. /\ held' \in [Conn -> SUBSET Resource] /\ held'[c] = Left(g, f)
       /\ \A d \in Conn : d # c => held'[d] = held[d]
       /\ \A d \in Conn : ConnSound(d)'
    BY <1>1, <1>2, <1>10, HoldsSound
<1>12. faults' \in 0 .. MaxFaults
    BY <1>5, SpendTypes
<1>13. slot' \in Slot
    BY DEF PollExtraRequest, PollStrayEvent, OwnInv, TypeOK, Slot
<1>14. TypeOK'
    BY <1>1, <1>2, <1>6, <1>11, <1>12, <1>13 DEF OwnInv, TypeOK
<1>15. Reachable'
    BY <1>1, <1>2, <1>6, <1>8, <1>11 DEF OwnInv, Reachable
<1> QED
    BY <1>1, <1>11, <1>14, <1>15, StillRunning

\* What is left of a connection that is closed.
LEMMA ClosedHolds ==
    ASSUME OwnInv, NEW c \in Conn, NEW f \in ReleaseFault(held[c]),
           held' = [held EXCEPT ![c] = Left(held[c], f)]
    PROVE  Holds(c, Left(held[c], f)) /\ Left(held[c], NULL) = {}
<1>1. held[c] \in SUBSET Resource /\ ConnSound(c)
    BY DEF OwnInv, TypeOK
<1>2. f = NULL \/ f \in Resource
    BY <1>1, FaultTypes
<1>3. /\ Left(held[c], f) \subseteq held[c]
      /\ Sound(held[c]) => Sound(Left(held[c], f))
      /\ "cm_id" \in Left(held[c], f) /\ "channel" \in held[c] => "channel" \in Left(held[c], f)
    BY <1>1, <1>2, LeftSound
<1> QED
    BY <1>1, <1>3, FaultTypes DEF Holds, ConnSound

\* The connection of the round is closed, at its end or when it has failed.
LEMMA CloseSyncOwn ==
    ASSUME OwnInv, TransferDone \/ Disconnected
    PROVE  OwnInv'
<1>1. /\ phase = "running" /\ UNCHANGED <<role, phase, cleanup, listener>> /\ slot' \in Slot
    BY DEF TransferDone, Disconnected, Polls, Slot
<1>2. PICK f \in ReleaseFault(HeldBy(sync)) :
          /\ held' = [c \in Conn |-> IF c = sync THEN Left(held[c], f) ELSE held[c]]
          /\ allocated' = IF f = NULL THEN allocated \ {sync} ELSE allocated
          /\ sync' = Closed(sync, f)
          /\ Spend(Cost(f))
    <2>1. held = [c \in Conn |-> held[c]]
        BY DEF OwnInv, TypeOK
    <2>2. CASE TransferDone
        <3>1. sync # NULL
            BY <2>2 DEF TransferDone
        <3>2. PICK f \in ReleaseFault(held[sync]) :
                  /\ held' = [held EXCEPT ![sync] = Left(@, f)]
                  /\ allocated' = IF f = NULL THEN allocated \ {sync} ELSE allocated
                  /\ sync' = Closed(sync, f)
                  /\ Spend(Cost(f))
            BY <2>2 DEF TransferDone
        <3>3. held' = [c \in Conn |-> IF c = sync THEN Left(held[c], f) ELSE held[c]]
            BY <2>1, <3>2
        <3>4. HeldBy(sync) = held[sync]
            BY <3>1 DEF HeldBy
        <3> QED
            BY <3>2, <3>3, <3>4
    <2>3. CASE Disconnected
        BY <2>3 DEF Disconnected
    <2> QED
        BY <2>2, <2>3
<1>3. faults' \in 0 .. MaxFaults
    <2>1. Cost(f) \in Nat
        BY DEF Cost
    <2> QED
        BY <1>2, <2>1, SpendTypes
<1>4. CASE sync = NULL
    <2>1. NULL \notin Conn
        BY RdmaAssumption
    <2>2. held' = held
        BY <1>2, <1>4, <2>1 DEF OwnInv, TypeOK
    <2>3. sync' = NULL /\ allocated' = allocated
        BY <1>2, <1>4, <2>1 DEF Closed, OwnInv, Reachable
    <2>4. TypeOK'
        BY <1>1, <1>3, <2>2, <2>3 DEF OwnInv, TypeOK
    <2>5. Reachable' /\ \A c \in Conn : ConnSound(c)'
        BY <1>1, <1>4, <2>2, <2>3 DEF OwnInv, Reachable, ConnSound
    <2> QED
        BY <1>1, <2>4, <2>5, StillRunning
<1>5. CASE sync # NULL
    <2>1. /\ sync \in Conn /\ sync \in allocated /\ sync # cleanup
          /\ HeldBy(sync) = held[sync]
        BY <1>5, SyncFacts DEF HeldBy
    <2>2. held' = [held EXCEPT ![sync] = Left(held[sync], f)]
        BY <1>2, <2>1 DEF OwnInv, TypeOK
    <2>3. Holds(sync, Left(held[sync], f)) /\ Left(held[sync], NULL) = {}
        BY <1>2, <2>1, <2>2, ClosedHolds
    <2>4. /\ held' \in [Conn -> SUBSET Resource] /\ held'[sync] = Left(held[sync], f)
          /\ \A d \in Conn : d # sync => held'[d] = held[d]
          /\ \A d \in Conn : ConnSound(d)'
        BY <1>1, <2>1, <2>3, HoldsSound
    <2>5. sync' = IF f = NULL THEN NULL ELSE sync
        BY <1>2, <1>5 DEF Closed
    <2>6. TypeOK'
        BY <1>1, <1>2, <1>3, <2>4, <2>5 DEF OwnInv, TypeOK
    <2>7. Reachable'
        BY <1>1, <1>2, <2>1, <2>3, <2>4, <2>5 DEF OwnInv, Reachable
    <2> QED
        BY <1>1, <2>4, <2>6, <2>7, StillRunning
<1> QED
    BY <1>4, <1>5

\* kvs_replication_destroy.
LEMMA DestroyOwn ==
    ASSUME OwnInv, Destroy
    PROVE  OwnInv'
<1>1. phase \in {"running", "stopping"} /\ slot' \in Slot /\ UNCHANGED role
    BY DEF Destroy, Slot
<1>2. PICK fc \in ReleaseFault(HeldBy(cleanup)), fs \in ReleaseFault(HeldBy(sync)),
           fl \in {NULL} \cup (IF CloseFails THEN listener \cap {"listen_id"} ELSE {}) :
          /\ fc # NULL => fs = NULL
          /\ fc # NULL \/ fs # NULL => fl = NULL
          /\ cleanup' = Closed(cleanup, fc)
          /\ sync' = IF fc = NULL THEN Closed(sync, fs) ELSE sync
          /\ held' = [c \in Conn |->
                        IF c = cleanup THEN Left(held[c], fc)
                        ELSE IF c = sync /\ fc = NULL THEN Left(held[c], fs)
                        ELSE held[c]]
          /\ allocated' = {c \in allocated : c \in {cleanup', sync'}}
          /\ listener' = IF fc = NULL /\ fs = NULL /\ fl = NULL THEN {} ELSE listener
          /\ phase' = IF fc = NULL /\ fs = NULL /\ fl = NULL
                      THEN "destroyed" ELSE "abandoned"
          /\ Spend(Cost(fc) + Cost(fs) + Cost(fl))
    BY DEF Destroy
<1>3. /\ held \in [Conn -> SUBSET Resource] /\ NULL \notin Conn
      /\ \A c \in Conn : held[c] \in SUBSET Resource
      /\ sync \in Conn \cup {NULL} /\ cleanup \in Conn \cup {NULL}
    BY RdmaAssumption DEF OwnInv, TypeOK
<1>4. /\ \A c \in Conn : held[c] # {} => c \in allocated
      /\ allocated = {sync, cleanup} \ {NULL}
      /\ sync = NULL \/ sync # cleanup
    BY DEF OwnInv, Reachable
<1>5. faults' \in 0 .. MaxFaults
    <2>1. Cost(fc) + Cost(fs) + Cost(fl) \in Nat
        BY DEF Cost
    <2> QED
        BY <1>2, <2>1, SpendTypes
<1>6. /\ cleanup = NULL => cleanup' = NULL
      /\ cleanup # NULL => cleanup' = IF fc = NULL THEN NULL ELSE cleanup
      /\ sync = NULL => sync' = NULL
      /\ sync # NULL => sync' = IF fc = NULL /\ fs = NULL THEN NULL ELSE sync
    BY <1>2 DEF Closed
<1>7. /\ cleanup # NULL => HeldBy(cleanup) = held[cleanup]
      /\ sync # NULL => HeldBy(sync) = held[sync]
      /\ cleanup = NULL => HeldBy(cleanup) = {}
      /\ sync = NULL => HeldBy(sync) = {}
    BY DEF HeldBy
<1>8. (cleanup = NULL => fc = NULL) /\ (sync = NULL => fs = NULL)
    BY <1>2, <1>7 DEF ReleaseFault
<1>9. /\ fc = NULL \/ fc \in Resource
      /\ fs = NULL \/ fs \in Resource
    BY <1>3, <1>7, FaultTypes
<1>10. ASSUME NEW c \in Conn
       PROVE  /\ held'[c] \subseteq held[c]
              /\ Sound(held'[c])
              /\ "cm_id" \in held'[c] /\ "channel" \in held[c] => "channel" \in held'[c]
              /\ c = cleanup /\ fc = NULL => held'[c] = {}
              /\ c = sync /\ fc = NULL /\ fs = NULL => held'[c] = {}
    <2>1. Sound(held[c])
        BY DEF OwnInv, ConnSound
    <2>2. held'[c] = IF c = cleanup THEN Left(held[c], fc)
                     ELSE IF c = sync /\ fc = NULL THEN Left(held[c], fs) ELSE held[c]
        BY <1>2
    <2>3. Left(held[c], NULL) = {}
        BY DEF Left
    <2>4. /\ Left(held[c], fc) \subseteq held[c] /\ Sound(Left(held[c], fc))
          /\ "cm_id" \in Left(held[c], fc) /\ "channel" \in held[c] => "channel" \in Left(held[c], fc)
        BY <1>3, <1>9, <2>1, LeftSound
    <2>5. /\ Left(held[c], fs) \subseteq held[c] /\ Sound(Left(held[c], fs))
          /\ "cm_id" \in Left(held[c], fs) /\ "channel" \in held[c] => "channel" \in Left(held[c], fs)
        BY <1>3, <1>9, <2>1, LeftSound
    <2> QED
        BY <1>4, <2>1, <2>2, <2>3, <2>4, <2>5
<1>11. held' \in [Conn -> SUBSET Resource]
    <2>1. DOMAIN held' = Conn /\ held' = [c \in Conn |-> held'[c]]
        BY <1>2
    <2> QED
        BY <1>3, <1>10, <2>1
<1>12. TypeOK'
    BY <1>1, <1>2, <1>5, <1>6, <1>11 DEF OwnInv, TypeOK, Phase
<1>13. Reachable'
    <2>1. allocated' = {sync', cleanup'} \ {NULL}
        BY <1>2, <1>4, <1>6
    <2>2. sync' = NULL \/ sync' # cleanup'
        BY <1>4, <1>6
    <2>3. ASSUME NEW c \in Conn, held'[c] # {} PROVE c \in allocated'
        <3>1. held[c] # {}
            BY <1>10, <2>3
        <3>2. c \in allocated
            BY <1>4, <3>1
        <3>3. CASE c = cleanup
            BY <1>6, <1>10, <2>1, <2>3, <3>2, <3>3, <1>3
        <3>4. CASE c # cleanup
            <4>1. c = sync /\ ~(fc = NULL /\ fs = NULL)
                BY <1>4, <1>10, <2>3, <3>2, <3>4
            <4> QED
                BY <1>3, <1>6, <2>1, <4>1
        <3> QED
            BY <3>3, <3>4
    <2> QED
        BY <2>1, <2>2, <2>3 DEF Reachable
<1>14. CASE fc = NULL /\ fs = NULL /\ fl = NULL
    <2>1. phase' = "destroyed" /\ listener' = {} /\ sync' = NULL /\ cleanup' = NULL
        BY <1>2, <1>6, <1>14
    <2>2. \A c \in Conn : held'[c] = {}
        BY <1>13, <2>1 DEF Reachable
    <2>3. \A c \in Conn : ConnSound(c)'
        BY <2>2 DEF ConnSound, Sound
    <2>4. DestroyComplete'
        BY <2>1, <2>2 DEF DestroyComplete
    <2> QED
        BY <1>12, <1>13, <2>1, <2>3, <2>4 DEF OwnInv
<1>15. CASE ~(fc = NULL /\ fs = NULL /\ fl = NULL)
    <2>1. phase' = "abandoned" /\ listener' = listener
        BY <1>2, <1>15
    <2>2. ASSUME NEW c \in Conn PROVE ConnSound(c)'
        <3>1. "cm_id" \in held[c] => "channel" \in held[c] \/ listener = AllOfListener
            BY DEF OwnInv, ConnSound
        <3> QED
            BY <1>10, <2>1, <3>1 DEF ConnSound
    <2>3. DestroyComplete'
        BY <2>1 DEF DestroyComplete
    <2> QED
        BY <1>12, <1>13, <2>1, <2>2, <2>3 DEF OwnInv
<1> QED
    BY <1>14, <1>15

-----------------------------------------------------------------------------
(* The theorem.                                                             *)

\* Every step keeps the invariant.
LEMMA NextOwn ==
    ASSUME OwnInv, [Next]_vars
    PROVE  OwnInv'
<1>1. CASE StartListener \/ Psync \/ RoundFails \/ Connect \/ Stopped \/ UNCHANGED vars
    BY <1>1, PlainOwn DEF Stopped
<1>2. CASE PollOwnEvent \/ RouteResolved \/ \E w \in {"send", "recv"} : Post(w) \/ Complete(w)
    BY <1>2, SyncOwn
<1>3. CASE \E c \in Fresh : PollRequest(c) \/ RdmaStart(c)
    BY <1>3, NewSyncOwn
<1>4. CASE \E c \in Fresh : PollExtraRequest(c) \/ PollStrayEvent(c)
    BY <1>4, SeparateOwn
<1>5. CASE TransferDone \/ Disconnected
    BY <1>5, CloseSyncOwn
<1>6. CASE Destroy
    BY <1>6, DestroyOwn
<1> QED
    BY <1>1, <1>2, <1>3, <1>4, <1>5, <1>6 DEF Next, Round

\* Whichever calls of the verbs and CM libraries fail, and however often a setup, an
\* unwinding or a close stops half way: every resource can still be reached for a
\* later close through exactly one of the manager's two pointers, none refers to one
\* that is released, and a kvs_replication_destroy that reports success has returned
\* all of them; for any number of connection objects and of faults.
THEOREM ResourcesStayOwned == Spec => []ResourcesOwned
<1>1. ASSUME OwnInv PROVE ResourcesOwned
    <2>1. NothingDangling
        BY <1>1 DEF OwnInv, ConnSound, Sound, NothingDangling, AllOfListener
    <2> QED
        BY <1>1, <2>1 DEF OwnInv, ResourcesOwned
<1> QED
    BY <1>1, InitOwn, NextOwn, PTL DEF Spec

-----------------------------------------------------------------------------
(* The connection of a client, which shares no state with the RDMA resources. *)

CONSTANTS Request, Limit, BufferLength, Threshold, Listeners, StopAndWait, MaxRequests

VARIABLES port, pc, selected, expired, input, capacity, output, net, ending, sent,
          executed, delivered

C == INSTANCE ClientConnection WITH listener <- port

-----------------------------------------------------------------------------
(* Induction.                                                               *)

\* A set that holds 0 and the successor of each of its numbers holds them all.
LEMMA NatSetInduction ==
    ASSUME NEW S, 0 \in S, \A n \in Nat : n \in S => n + 1 \in S
    PROVE  \A n \in Nat : n \in S
<1> DEFINE T == Nat \ S
           below == OpToRel(<, Nat)
<1> SUFFICES ASSUME T # {} PROVE FALSE
    OBVIOUS
<1>1. PICK x \in T : \A y \in T : ~ (<<y, x>> \in below)
    <2>1. T \subseteq Nat
        OBVIOUS
    <2>2. IsWellFoundedOn(below, Nat)
        BY NatLessThanWellFounded
    <2> HIDE DEF T, below
    <2> QED
        BY <2>1, <2>2, WFMin
<1>2. x # 0 /\ x - 1 \in Nat /\ x - 1 < x
    OBVIOUS
<1>3. <<x - 1, x>> \in below
    BY <1>2 DEF OpToRel
<1>4. x - 1 \notin T
    BY <1>1, <1>3
<1> QED
    BY <1>2, <1>4

-----------------------------------------------------------------------------
(* What is under way is the end of what was sent.                           *)

Cell == [id : Nat, part : Nat]

\* What the client sends behind the cell c.
Following(q, c) ==
    IF c.part < q[c.id].size THEN [id |-> c.id, part |-> c.part + 1]
    ELSE [id |-> c.id + 1, part |-> 1]

LastCell(q) == [id |-> Len(q), part |-> q[Len(q)].size]

\* The cells w are an end of the requests q.
Flow(q, w) ==
    /\ q \in Seq(Request) /\ w \in Seq(Cell)
    /\ \A i \in 1 .. Len(w) :
          w[i].id \in 1 .. Len(q) /\ w[i].part \in 1 .. q[w[i].id].size
    /\ \A i \in 1 .. Len(w) - 1 : w[i + 1] = Following(q, w[i])
    /\ w # <<>> => w[Len(w)] = LastCell(q)

\* What is left of s behind its first n elements.
Rest(s, n) == SubSeq(s, n + 1, Len(s))

\* What is left of a sequence, element by element.
LEMMA RestIs ==
    ASSUME NEW S, NEW s \in Seq(S), NEW n \in 0 .. Len(s)
    PROVE  /\ Rest(s, n) \in Seq(S)
           /\ Len(Rest(s, n)) = Len(s) - n
           /\ \A i \in 1 .. Len(s) - n : Rest(s, n)[i] = s[n + i]
<1>1. Len(s) \in Nat /\ \A i \in 1 .. Len(s) : s[i] \in S
    BY LenProperties, ElementOfSeq
<1>2. n + 1 \in Int /\ Len(s) \in Int /\ \A i \in n + 1 .. Len(s) : s[i] \in S
    BY <1>1
<1>3. /\ SubSeq(s, n + 1, Len(s)) \in Seq(S)
      /\ Len(SubSeq(s, n + 1, Len(s))) =
             IF n + 1 <= Len(s) THEN Len(s) - (n + 1) + 1 ELSE 0
      /\ \A i \in 1 .. Len(s) - (n + 1) + 1 :
             SubSeq(s, n + 1, Len(s))[i] = s[(n + 1) + i - 1]
    BY <1>2, SubSeqProperties
<1> HIDE DEF Rest
<1>4. Rest(s, n) = SubSeq(s, n + 1, Len(s))
    BY DEF Rest
<1>5. Len(Rest(s, n)) = Len(s) - n
    BY <1>1, <1>3, <1>4
<1>6. ASSUME NEW i \in 1 .. Len(s) - n PROVE Rest(s, n)[i] = s[n + i]
    <2>1. i \in 1 .. Len(s) - (n + 1) + 1 /\ (n + 1) + i - 1 = n + i
        BY <1>1
    <2> QED
        BY <2>1, <1>3, <1>4
<1> QED
    BY <1>3, <1>4, <1>5, <1>6

\* Consumption in the buffer is consumption of the stream.
LEMMA RestOfConcat ==
    ASSUME NEW S, NEW s \in Seq(S), NEW t \in Seq(S), NEW n \in 0 .. Len(s)
    PROVE  Rest(s, n) \o t = Rest(s \o t, n)
<1>1. Len(s) \in Nat /\ Len(t) \in Nat
    BY LenProperties
<1>2. /\ s \o t \in Seq(S) /\ Len(s \o t) = Len(s) + Len(t)
      /\ \A i \in 1 .. Len(s) + Len(t) : (s \o t)[i] =
                     IF i <= Len(s) THEN s[i] ELSE t[i - Len(s)]
    BY ConcatProperties
<1> DEFINE st == s \o t
<1>3. n \in 0 .. Len(st)
    BY <1>1, <1>2
<1>4. /\ Rest(st, n) \in Seq(S) /\ Len(Rest(st, n)) = Len(st) - n
      /\ \A i \in 1 .. Len(st) - n : Rest(st, n)[i] = st[n + i]
    <2> HIDE DEF st
    <2>1. st \in Seq(S)
        BY <1>2 DEF st
    <2> QED
        BY <2>1, <1>3, RestIs
<1>5. /\ Rest(s, n) \in Seq(S) /\ Len(Rest(s, n)) = Len(s) - n
      /\ \A i \in 1 .. Len(s) - n : Rest(s, n)[i] = s[n + i]
    BY RestIs
<1> DEFINE r == Rest(s, n)
<1>6. /\ r \o t \in Seq(S) /\ Len(r \o t) = Len(r) + Len(t)
      /\ \A i \in 1 .. Len(r) + Len(t) : (r \o t)[i] =
                     IF i <= Len(r) THEN r[i] ELSE t[i - Len(r)]
    <2> HIDE DEF r
    <2>1. r \in Seq(S)
        BY <1>5 DEF r
    <2> QED
        BY <2>1, ConcatProperties
<1>7. Len(r \o t) = Len(Rest(st, n))
    BY <1>1, <1>2, <1>4, <1>5, <1>6
<1>8. ASSUME NEW i \in 1 .. Len(r \o t) PROVE (r \o t)[i] = Rest(st, n)[i]
    <2>1. i \in 1 .. (Len(s) - n) + Len(t) /\ n + i \in 1 .. Len(s) + Len(t)
          /\ Len(r) = Len(s) - n /\ i \in 1 .. Len(st) - n
        BY <1>1, <1>2, <1>5, <1>6
    <2>2. Rest(st, n)[i] = IF n + i <= Len(s) THEN s[n + i] ELSE t[n + i - Len(s)]
        <3>1. Rest(st, n)[i] = st[n + i]
            BY <2>1, <1>4
        <3>2. st[n + i] = IF n + i <= Len(s) THEN s[n + i] ELSE t[n + i - Len(s)]
            BY <2>1, <1>2
        <3> QED
            BY <3>1, <3>2
    <2>3. (r \o t)[i] = IF i <= Len(s) - n THEN r[i] ELSE t[i - (Len(s) - n)]
        BY <2>1, <1>6
    <2>4. i - (Len(s) - n) = n + i - Len(s) /\ (i <= Len(s) - n <=> n + i <= Len(s))
        BY <2>1, <1>1
    <2>5. i <= Len(s) - n => r[i] = s[n + i]
        BY <2>1, <1>5
    <2> HIDE DEF r, st
    <2> QED
        BY <2>2, <2>3, <2>4, <2>5
<1> HIDE DEF r, st
<1>9. r \o t = Rest(st, n)
    BY <1>4, <1>6, <1>7, <1>8, SeqEqual
<1> QED
    BY <1>9 DEF r, st

\* Cells that arrive leave the network for the buffer.
Received(s, t, n) == s \o SubSeq(t, 1, n)

LEMMA MovedConcat ==
    ASSUME NEW S, NEW s \in Seq(S), NEW t \in Seq(S), NEW n \in 0 .. Len(t)
    PROVE  /\ Received(s, t, n) \in Seq(S) /\ Rest(t, n) \in Seq(S)
           /\ Len(Received(s, t, n)) = Len(s) + n
           /\ Received(s, t, n) \o Rest(t, n) = s \o t
<1>1. Len(t) \in Nat /\ \A i \in 1 .. Len(t) : t[i] \in S
    BY LenProperties, ElementOfSeq
<1>2. 1 \in 1 .. Len(t) + 1 /\ n \in 1 - 1 .. Len(t) /\ Len(t) \in n .. Len(t)
    BY <1>1
<1>3. SubSeq(t, 1, n) \o SubSeq(t, n + 1, Len(t)) = SubSeq(t, 1, Len(t))
    BY <1>2, ConcatAdjacentSubSeq
<1>4. SubSeq(t, 1, Len(t)) = t
    BY SubSeqFull
<1>5. SubSeq(t, 1, n) \in Seq(S) /\ Len(SubSeq(t, 1, n)) = n
    <2>1. 1 \in Int /\ n \in Int /\ \A i \in 1 .. n : t[i] \in S
        BY <1>1
    <2>2. /\ SubSeq(t, 1, n) \in Seq(S)
          /\ Len(SubSeq(t, 1, n)) = IF 1 <= n THEN n - 1 + 1 ELSE 0
        BY <2>1, SubSeqProperties
    <2> QED
        BY <2>2, <1>1
<1>6. Rest(t, n) \in Seq(S)
    BY RestIs
<1> DEFINE a == SubSeq(t, 1, n)
           b == Rest(t, n)
<1> a \in Seq(S) /\ b \in Seq(S) /\ Len(a) = n
    BY <1>5, <1>6
<1>7. a \o b = t
    BY <1>3, <1>4 DEF Rest
<1> HIDE DEF a, b
<1>8. (s \o a) \o b = s \o (a \o b)
    BY ConcatAssociative
<1>9. s \o a \in Seq(S) /\ Len(s \o a) = Len(s) + Len(a)
    BY ConcatProperties
<1> QED
    BY <1>7, <1>8, <1>9 DEF a, b, Received

-----------------------------------------------------------------------------
(* The requests.                                                            *)

\* A request that was sent is one of those the assumption speaks of.
LEMMA RequestFacts ==
    ASSUME C!ConnectionAssumption, NEW q \in Seq(Request), NEW k \in 1 .. Len(q)
    PROVE  /\ q[k] \in Request
           /\ q[k].kind \in {"cmd", "bad", "endless", "line", "ping"}
           /\ q[k].size \in Nat \ {0} /\ q[k].at \in Nat
           /\ q[k].kind = "cmd" => q[k].size <= Limit
           /\ q[k].kind = "endless" => q[k].size > Limit
           /\ q[k].kind = "line" => q[k].at <= q[k].size /\ q[k].at <= Limit
           /\ q[k].kind = "ping" => q[k].size <= Limit
<1>1. q[k] \in Request
    BY ElementOfSeq
<1> QED
    BY <1>1 DEF C!ConnectionAssumption

\* A cell under way is one of a request that was sent.
LEMMA CellFacts ==
    ASSUME C!ConnectionAssumption, NEW q, NEW w, Flow(q, w), NEW i \in 1 .. Len(w)
    PROVE  /\ w[i] \in Cell /\ w[i].id \in 1 .. Len(q) /\ w[i].id \in Nat
           /\ w[i].part \in 1 .. q[w[i].id].size /\ w[i].part \in Nat
           /\ q[w[i].id].size \in Nat \ {0} /\ Len(q) \in Nat /\ Len(w) \in Nat
           /\ w[i] = [id |-> w[i].id, part |-> w[i].part]
<1>1. q \in Seq(Request) /\ w \in Seq(Cell)
    BY DEF Flow
<1>2. w[i] \in Cell /\ Len(q) \in Nat /\ Len(w) \in Nat
    BY <1>1, ElementOfSeq, LenProperties
<1>3. w[i].id \in 1 .. Len(q) /\ w[i].part \in 1 .. q[w[i].id].size
    BY DEF Flow
<1>4. q[w[i].id].size \in Nat \ {0}
    BY <1>1, <1>3, RequestFacts
<1> QED
    BY <1>2, <1>3, <1>4 DEF Cell

\* The first request's cells come first; what follows belongs to later ones.
FirstRunAt(q, w, i) ==
    IF w[1].part + i - 1 <= q[w[1].id].size
    THEN w[i] = [id |-> w[1].id, part |-> w[1].part + i - 1]
    ELSE w[i].id > w[1].id

\* By induction over the stream.
LEMMA FirstRun ==
    ASSUME C!ConnectionAssumption, NEW q, NEW w, Flow(q, w)
    PROVE  \A i \in 1 .. Len(w) : FirstRunAt(q, w, i)
<1> DEFINE S == {n \in Nat : n + 1 \in 1 .. Len(w) => FirstRunAt(q, w, n + 1)}
<1>1. Len(w) \in Nat
    BY LenProperties DEF Flow
<1>2. 0 \in S
    <2> SUFFICES ASSUME 1 \in 1 .. Len(w) PROVE FirstRunAt(q, w, 1)
        OBVIOUS
    <2>1. /\ w[1].part \in 1 .. q[w[1].id].size /\ w[1].part \in Nat
          /\ q[w[1].id].size \in Nat
          /\ w[1] = [id |-> w[1].id, part |-> w[1].part]
        BY CellFacts
    <2>2. w[1].part + 1 - 1 = w[1].part /\ w[1].part <= q[w[1].id].size
        BY <2>1
    <2> QED
        BY <2>1, <2>2 DEF FirstRunAt
<1>3. ASSUME NEW n \in Nat, n \in S PROVE n + 1 \in S
    <2> DEFINE i == n + 1
    <2> SUFFICES ASSUME i + 1 \in 1 .. Len(w) PROVE FirstRunAt(q, w, i + 1)
        OBVIOUS
    <2>1. i \in 1 .. Len(w) /\ i \in 1 .. Len(w) - 1 /\ 1 \in 1 .. Len(w) /\ i \in Nat
          /\ i >= 1
        BY <1>1
    <2>2. FirstRunAt(q, w, i)
        BY <1>3, <2>1
    <2> HIDE DEF i, S
    <2>3. /\ w[1].part \in Nat /\ w[1].id \in Nat /\ q[w[1].id].size \in Nat
          /\ w[i].id \in Nat /\ w[i].part \in Nat /\ q[w[i].id].size \in Nat
        BY <2>1, CellFacts
    <2>4. w[i + 1] = Following(q, w[i])
        BY <2>1 DEF Flow
    <2> DEFINE p == w[1].part
               z == q[w[1].id].size
    <2>5. p \in Nat /\ z \in Nat
        BY <2>3
    <2>6. CASE p + i <= z
        <3>1. p + i - 1 <= z /\ p + i - 1 \in Nat /\ p + i - 1 < z
              /\ p + (i + 1) - 1 = p + i /\ (p + i - 1) + 1 = p + i
            <4> HIDE DEF p, z
            <4> QED
                BY <2>6, <2>5, <2>1
        <3>2. w[i] = [id |-> w[1].id, part |-> p + i - 1]
            BY <2>2, <3>1 DEF FirstRunAt
        <3>3. w[i].id = w[1].id /\ w[i].part = p + i - 1
            BY <3>2
        <3>4. w[i + 1] = [id |-> w[1].id, part |-> p + i]
            BY <2>4, <3>1, <3>3 DEF Following
        <3> QED
            BY <3>1, <3>4, <2>6 DEF FirstRunAt
    <2>7. CASE ~(p + i <= z)
        <3>1. p + (i + 1) - 1 = p + i
            BY <2>3, <2>1
        <3>2. w[i + 1].id > w[1].id
            <4>1. CASE p + i - 1 <= z
                <5>1. p + i - 1 = z
                    <6> HIDE DEF p, z
                    <6> QED
                        BY <4>1, <2>7, <2>5, <2>1
                <5>2. w[i].id = w[1].id /\ w[i].part = z
                    BY <2>2, <4>1, <5>1 DEF FirstRunAt
                <5>3. w[i + 1] = [id |-> w[1].id + 1, part |-> 1]
                    BY <2>4, <5>2, <2>3 DEF Following
                <5> QED
                    BY <5>3, <2>3
            <4>2. CASE ~(p + i - 1 <= z)
                <5>1. w[i].id > w[1].id
                    BY <2>2, <4>2 DEF FirstRunAt
                <5>2. w[i + 1].id \in {w[i].id, w[i].id + 1}
                    BY <2>4 DEF Following
                <5> QED
                    BY <5>1, <5>2, <2>3
            <4> QED
                BY <4>1, <4>2
        <3> QED
            BY <3>1, <3>2, <2>7 DEF FirstRunAt
    <2> QED
        BY <2>6, <2>7
<1>4. \A n \in Nat : n \in S
    <2> HIDE DEF S
    <2> QED
        BY <1>2, <1>3, NatSetInduction
<1>5. ASSUME NEW i \in 1 .. Len(w) PROVE FirstRunAt(q, w, i)
    <2>1. i - 1 \in Nat /\ (i - 1) + 1 = i
        BY <1>1
    <2>2. i - 1 \in S
        BY <2>1, <1>4
    <2> QED
        BY <2>1, <2>2
<1> QED
    BY <1>5

\* No later cell belongs to an earlier request; the first request's end is where
\* the next one begins.
LEMMA RunFacts ==
    ASSUME C!ConnectionAssumption, NEW q, NEW w, Flow(q, w), NEW i \in 1 .. Len(w)
    PROVE  /\ w[i].id >= w[1].id
           /\ w[i].id = w[1].id <=> w[1].part + i - 1 <= q[w[1].id].size
           /\ w[1].part + i - 1 <= q[w[1].id].size => w[i].part = w[1].part + i - 1
<1>0. 1 \in 1 .. Len(w)
    BY CellFacts
<1>1. w[1].id \in Nat /\ w[i].id \in Nat
    BY <1>0, CellFacts
<1>2. FirstRunAt(q, w, i)
    BY FirstRun
<1>3. CASE w[1].part + i - 1 <= q[w[1].id].size
    <2>1. w[i] = [id |-> w[1].id, part |-> w[1].part + i - 1]
        BY <1>2, <1>3 DEF FirstRunAt
    <2>2. w[i].id = w[1].id /\ w[i].part = w[1].part + i - 1
        BY <2>1
    <2> QED
        BY <2>2, <1>1, <1>3
<1>4. CASE ~(w[1].part + i - 1 <= q[w[1].id].size)
    <2>1. w[i].id > w[1].id
        BY <1>2, <1>4 DEF FirstRunAt
    <2> QED
        BY <2>1, <1>1, <1>4
<1> QED
    BY <1>3, <1>4

\* How much of the first request a buffer holds that is the front of the stream.
LEMMA HaveIs ==
    ASSUME C!ConnectionAssumption, NEW q, NEW w, Flow(q, w),
           NEW s \in Seq(Cell), s # <<>>, Len(s) <= Len(w),
           \A i \in 1 .. Len(s) : s[i] = w[i],
           NEW h, h = Cardinality({i \in DOMAIN s : s[i].id = s[1].id})
    PROVE  LET left == q[w[1].id].size - w[1].part + 1 IN
           h \in Nat /\ h = (IF Len(s) <= left THEN Len(s) ELSE left)
<1> DEFINE left == q[w[1].id].size - w[1].part + 1
           m == IF Len(s) <= left THEN Len(s) ELSE left
<1>1. Len(s) \in Nat \ {0} /\ Len(w) \in Nat /\ DOMAIN s = 1 .. Len(s)
    BY EmptySeq, LenProperties DEF Flow
<1>2. 1 \in 1 .. Len(s) /\ 1 \in 1 .. Len(w) /\ s[1] = w[1]
    BY <1>1
<1>3. /\ w[1].part \in Nat /\ q[w[1].id].size \in Nat
      /\ 1 <= w[1].part /\ w[1].part <= q[w[1].id].size
    <2>1. /\ w[1].part \in Nat /\ q[w[1].id].size \in Nat
          /\ w[1].part \in 1 .. q[w[1].id].size
        BY <1>2, CellFacts
    <2> QED
        BY <2>1
<1>4. left \in Nat \ {0}
    BY <1>3
<1>5. ASSUME NEW i \in 1 .. Len(s)
      PROVE  s[i].id = s[1].id <=> i <= left
    <2>1. i \in 1 .. Len(w) /\ s[i] = w[i] /\ i \in Nat
        BY <1>1
    <2>2. w[i].id = w[1].id <=> w[1].part + i - 1 <= q[w[1].id].size
        BY <2>1, RunFacts
    <2>3. w[1].part + i - 1 <= q[w[1].id].size <=> i <= left
        BY <2>1, <1>3
    <2> QED
        BY <2>1, <2>2, <2>3, <1>2
<1> HIDE DEF left
<1>6. m \in Nat /\ m >= 1
    BY <1>1, <1>4
<1>7. {i \in DOMAIN s : s[i].id = s[1].id} = 1 .. m
    <2>1. ASSUME NEW i PROVE i \in 1 .. m <=> i \in 1 .. Len(s) /\ i <= left
        BY <1>1, <1>4
    <2> HIDE DEF m
    <2> QED
        BY <1>1, <1>5, <2>1
<1>8. Cardinality(1 .. m) = m
    <2> HIDE DEF m
    <2>1. Cardinality(1 .. m) = IF 1 > m THEN 0 ELSE m - 1 + 1
        BY <1>6, FS_Interval
    <2> QED
        BY <2>1, <1>6
<1>9. h = m
    BY <1>7, <1>8
<1> QED
    BY <1>9, <1>6 DEF left

\* Consumption leaves an end of the requests.
LEMMA DropFlow ==
    ASSUME C!ConnectionAssumption, NEW q, NEW w, Flow(q, w), NEW n \in 0 .. Len(w)
    PROVE  Flow(q, Rest(w, n))
<1> DEFINE r == Rest(w, n)
<1>1. q \in Seq(Request) /\ w \in Seq(Cell) /\ Len(w) \in Nat
    BY LenProperties DEF Flow
<1>2. /\ r \in Seq(Cell) /\ Len(r) = Len(w) - n
      /\ \A i \in 1 .. Len(w) - n : r[i] = w[n + i]
    BY <1>1, RestIs
<1> HIDE DEF r
<1>3. ASSUME NEW i \in 1 .. Len(r)
      PROVE  r[i].id \in 1 .. Len(q) /\ r[i].part \in 1 .. q[r[i].id].size
    <2>1. r[i] = w[n + i] /\ n + i \in 1 .. Len(w)
        BY <1>1, <1>2
    <2> QED
        BY <2>1 DEF Flow
<1>4. ASSUME NEW i \in 1 .. Len(r) - 1 PROVE r[i + 1] = Following(q, r[i])
    <2>1. /\ r[i] = w[n + i] /\ n + i \in 1 .. Len(w) - 1
          /\ r[i + 1] = w[n + (i + 1)] /\ n + (i + 1) = (n + i) + 1
        BY <1>1, <1>2
    <2>2. w[(n + i) + 1] = Following(q, w[n + i])
        BY <2>1 DEF Flow
    <2> QED
        BY <2>1, <2>2
<1>5. ASSUME r # <<>> PROVE r[Len(r)] = LastCell(q)
    <2>1. Len(r) \in Nat \ {0}
        BY <1>2, <1>5, EmptySeq
    <2>2. r[Len(r)] = w[Len(w)] /\ Len(w) # 0
        BY <2>1, <1>1, <1>2
    <2>3. w # <<>>
        BY <2>2
    <2> QED
        BY <2>2, <2>3 DEF Flow
<1> QED
    BY <1>1, <1>2, <1>3, <1>4, <1>5 DEF Flow, r

\* One more request behind those under way.
LEMMA SendFlow ==
    ASSUME C!ConnectionAssumption, NEW q, NEW w, Flow(q, w), NEW r \in Request
    PROVE  /\ Flow(Append(q, r), w \o C!Cells(Len(q) + 1, r))
           /\ C!Cells(Len(q) + 1, r) \in Seq(Cell)
           /\ Len(C!Cells(Len(q) + 1, r)) = r.size /\ r.size \in Nat \ {0}
           /\ C!Cells(Len(q) + 1, r)[1] = [id |-> Len(q) + 1, part |-> 1]
<1>1. q \in Seq(Request) /\ w \in Seq(Cell) /\ Len(w) \in Nat /\ Len(q) \in Nat
    BY LenProperties DEF Flow
<1>2. r.size \in Nat \ {0}
    BY DEF C!ConnectionAssumption
<1>3. PICK q2 : q2 = Append(q, r)
    OBVIOUS
<1>4. /\ q2 \in Seq(Request) /\ Len(q2) = Len(q) + 1
      /\ \A i \in 1 .. Len(q) : q2[i] = q[i]
      /\ q2[Len(q) + 1] = r
    BY <1>1, <1>3, AppendProperties
<1>5. PICK k : k = C!Cells(Len(q) + 1, r)
    OBVIOUS
<1>6. k = [i \in 1 .. r.size |-> [id |-> Len(q) + 1, part |-> i]]
    BY <1>5 DEF C!Cells
<1>7. /\ k \in Seq(Cell) /\ Len(k) = r.size
      /\ \A i \in 1 .. r.size : k[i] = [id |-> Len(q) + 1, part |-> i]
    <2>1. \A i \in 1 .. r.size : [id |-> Len(q) + 1, part |-> i] \in Cell
        BY <1>1, <1>2 DEF Cell
    <2> QED
        BY <1>6, <1>2, <2>1
<1>8. PICK v : v = w \o k
    OBVIOUS
<1>9. /\ v \in Seq(Cell) /\ Len(v) = Len(w) + Len(k)
      /\ \A i \in 1 .. Len(w) + Len(k) :
             v[i] = IF i <= Len(w) THEN w[i] ELSE k[i - Len(w)]
    BY <1>1, <1>7, <1>8, ConcatProperties
<1>10. ASSUME NEW i \in 1 .. Len(w)
       PROVE  v[i] = w[i] /\ q2[v[i].id] = q[w[i].id] /\ v[i].id \in 1 .. Len(q)
    <2>1. v[i] = w[i]
        <3>1. i \in 1 .. Len(w) + Len(k) /\ i <= Len(w)
            BY <1>1, <1>2, <1>7
        <3> QED
            BY <3>1, <1>9
    <2>2. w[i].id \in 1 .. Len(q)
        BY DEF Flow
    <2> QED
        BY <2>1, <2>2, <1>4
<1>11. ASSUME NEW i \in 1 .. r.size
       PROVE  v[Len(w) + i] = [id |-> Len(q) + 1, part |-> i]
    <2>1. /\ Len(w) + i \in 1 .. Len(w) + Len(k) /\ ~(Len(w) + i <= Len(w))
          /\ (Len(w) + i) - Len(w) = i
        BY <1>1, <1>2, <1>7
    <2> QED
        BY <2>1, <1>7, <1>9
<1>12. ASSUME NEW i \in 1 .. Len(v), i > Len(w)
       PROVE  i - Len(w) \in 1 .. r.size /\ Len(w) + (i - Len(w)) = i
    BY <1>1, <1>2, <1>7, <1>9, <1>12
<1>13. ASSUME NEW i \in 1 .. Len(v)
       PROVE  v[i].id \in 1 .. Len(q2) /\ v[i].part \in 1 .. q2[v[i].id].size
    <2>1. CASE i <= Len(w)
        <3>1. i \in 1 .. Len(w)
            BY <2>1, <1>1, <1>9
        <3>2. w[i].part \in 1 .. q[w[i].id].size
            BY <3>1 DEF Flow
        <3>3. v[i].id \in 1 .. Len(q2)
            BY <3>1, <1>10, <1>4, <1>1
        <3>4. v[i].part = w[i].part /\ q2[v[i].id] = q[w[i].id]
            BY <3>1, <1>10
        <3> QED
            BY <3>2, <3>3, <3>4
    <2>2. CASE ~(i <= Len(w))
        <3>1. i - Len(w) \in 1 .. r.size /\ Len(w) + (i - Len(w)) = i
            BY <2>2, <1>12, <1>1
        <3>2. v[i] = [id |-> Len(q) + 1, part |-> i - Len(w)]
            BY <3>1, <1>11
        <3>3. v[i].id = Len(q) + 1 /\ v[i].part = i - Len(w)
            BY <3>2
        <3> QED
            BY <3>1, <3>3, <1>4, <1>1
    <2> QED
        BY <2>1, <2>2
<1>14. ASSUME NEW i \in 1 .. Len(v) - 1 PROVE v[i + 1] = Following(q2, v[i])
    <2>0. i \in Nat /\ i + 1 \in 1 .. Len(v) /\ i \in 1 .. Len(v)
        BY <1>1, <1>2, <1>7, <1>9
    <2>1. CASE i + 1 <= Len(w)
        <3>1. i \in 1 .. Len(w) /\ i + 1 \in 1 .. Len(w) /\ i \in 1 .. Len(w) - 1
            BY <2>0, <2>1, <1>1
        <3>2. w[i + 1] = Following(q, w[i])
            BY <3>1 DEF Flow
        <3>3. v[i] = w[i] /\ v[i + 1] = w[i + 1] /\ q2[v[i].id] = q[w[i].id]
            BY <3>1, <1>10
        <3> QED
            BY <3>2, <3>3 DEF Following
    <2>2. CASE i = Len(w)
        <3>1. i \in 1 .. Len(w) /\ w # <<>>
            BY <2>0, <2>2, <1>1
        <3>2. w[i] = LastCell(q)
            BY <3>1, <2>2 DEF Flow
        <3>3. v[i] = w[i] /\ q2[v[i].id] = q[w[i].id]
            BY <3>1, <1>10
        <3>4. w[i].id = Len(q) /\ w[i].part = q[Len(q)].size
            BY <3>2 DEF LastCell
        <3>5. v[i].id = Len(q) /\ v[i].part = q[Len(q)].size
              /\ q2[v[i].id].size = q[Len(q)].size
            BY <3>3, <3>4
        <3>6. q[Len(q)].size \in Nat
            <4>1. q[w[i].id].size \in Nat
                BY <3>1, CellFacts
            <4> QED
                BY <4>1, <3>4
        <3>7. Following(q2, v[i]) = [id |-> Len(q) + 1, part |-> 1]
            BY <3>5, <3>6 DEF Following
        <3>8. v[Len(w) + 1] = [id |-> Len(q) + 1, part |-> 1]
            BY <1>11, <1>2
        <3> QED
            BY <3>7, <3>8, <2>2
    <2>3. CASE i > Len(w)
        <3> DEFINE j == i - Len(w)
        <3>1. /\ j \in 1 .. r.size /\ j + 1 \in 1 .. r.size /\ j < r.size
              /\ Len(w) + j = i /\ Len(w) + (j + 1) = i + 1
            BY <2>0, <2>3, <1>1, <1>2, <1>7, <1>9
        <3> HIDE DEF j
        <3>2. v[i] = [id |-> Len(q) + 1, part |-> j]
              /\ v[i + 1] = [id |-> Len(q) + 1, part |-> j + 1]
            BY <3>1, <1>11
        <3>3. v[i].id = Len(q) + 1 /\ v[i].part = j /\ q2[v[i].id].size = r.size
            BY <3>2, <1>4
        <3> QED
            BY <3>1, <3>2, <3>3 DEF Following
    <2> QED
        BY <2>0, <2>1, <2>2, <2>3, <1>1
<1>15. v[Len(v)] = LastCell(q2)
    <2>1. Len(v) = Len(w) + r.size /\ r.size \in 1 .. r.size
        BY <1>2, <1>7, <1>9
    <2>2. v[Len(v)] = [id |-> Len(q) + 1, part |-> r.size]
        BY <2>1, <1>11
    <2> QED
        BY <2>2, <1>4 DEF LastCell
<1>16. Flow(q2, v)
    BY <1>4, <1>9, <1>13, <1>14, <1>15 DEF Flow
<1>17. k[1] = [id |-> Len(q) + 1, part |-> 1]
    BY <1>7, <1>2
<1> QED
    BY <1>2, <1>3, <1>5, <1>7, <1>8, <1>16, <1>17

-----------------------------------------------------------------------------
(* What was executed, and what was answered.                                *)

\* The first k requests are commands.
AllCommands(q, k) == \A j \in 1 .. k : q[j].kind = "cmd"

\* The requests e were executed, one after the other, before the first of w; and
\* as long as all were commands, the next one begins the stream.
Historic(q, w, e) ==
    /\ e \in Seq(Nat)
    /\ \A k \in 1 .. Len(e) : e[k] \in 1 .. Len(q) /\ e[k] >= k
    /\ \A i, j \in 1 .. Len(e) : i < j => e[i] < e[j]
    /\ w # <<>> => \A k \in 1 .. Len(e) : e[k] < w[1].id
    /\ \A k \in 1 .. Len(e) : AllCommands(q, k) => e[k] = k
    /\ Len(e) + 1 <= Len(q) /\ AllCommands(q, Len(e) + 1) =>
           w # <<>> /\ w[1] = [id |-> Len(e) + 1, part |-> 1]

\* A request that is sent changes nothing of what was executed.
LEMMA SendHistoric ==
    ASSUME C!ConnectionAssumption, NEW q, NEW w, NEW e, Flow(q, w), Historic(q, w, e),
           NEW r \in Request
    PROVE  Historic(Append(q, r), w \o C!Cells(Len(q) + 1, r), e)
<1>1. q \in Seq(Request) /\ w \in Seq(Cell) /\ Len(w) \in Nat /\ Len(q) \in Nat
    BY LenProperties DEF Flow
<1>2. e \in Seq(Nat) /\ Len(e) \in Nat
    BY LenProperties DEF Historic
<1>3. PICK q2 : q2 = Append(q, r)
    OBVIOUS
<1>4. /\ q2 \in Seq(Request) /\ Len(q2) = Len(q) + 1
      /\ \A i \in 1 .. Len(q) : q2[i] = q[i]
      /\ q2[Len(q) + 1] = r
    BY <1>1, <1>3, AppendProperties
<1>5. PICK k : k = C!Cells(Len(q) + 1, r)
    OBVIOUS
<1>6. /\ k \in Seq(Cell) /\ Len(k) \in Nat \ {0}
      /\ k[1] = [id |-> Len(q) + 1, part |-> 1]
    BY <1>5, SendFlow
<1>7. PICK v : v = w \o k
    OBVIOUS
<1>8. /\ v \in Seq(Cell) /\ Len(v) = Len(w) + Len(k)
      /\ \A i \in 1 .. Len(w) + Len(k) :
             v[i] = IF i <= Len(w) THEN w[i] ELSE k[i - Len(w)]
    BY <1>1, <1>6, <1>7, ConcatProperties
<1>9. v # <<>> /\ v[1] = IF w = <<>> THEN k[1] ELSE w[1]
    <2>1. 1 \in 1 .. Len(w) + Len(k) /\ Len(v) # 0
        BY <1>1, <1>6, <1>8
    <2>2. v[1] = IF 1 <= Len(w) THEN w[1] ELSE k[1 - Len(w)]
        BY <2>1, <1>8
    <2>3. v # <<>>
        BY <2>1
    <2>4. CASE w = <<>>
        <3>1. Len(w) = 0
            BY <2>4
        <3> QED
            BY <3>1, <2>2, <2>3, <2>4
    <2>5. CASE w # <<>>
        <3>1. Len(w) >= 1
            BY <2>5, <1>1, EmptySeq
        <3> QED
            BY <3>1, <2>2, <2>3, <2>5
    <2> QED
        BY <2>4, <2>5
<1>10. ASSUME NEW n \in 0 .. Len(q) PROVE AllCommands(q2, n) <=> AllCommands(q, n)
    <2>1. \A j \in 1 .. n : q2[j] = q[j]
        BY <1>1, <1>4
    <2> QED
        BY <2>1 DEF AllCommands
<1>11. \A i \in 1 .. Len(e) : e[i] \in 1 .. Len(q) /\ e[i] >= i /\ i <= Len(q)
       /\ e[i] \in Nat
    <2> SUFFICES ASSUME NEW i \in 1 .. Len(e)
                 PROVE  e[i] \in 1 .. Len(q) /\ e[i] >= i /\ i <= Len(q) /\ e[i] \in Nat
        OBVIOUS
    <2>1. e[i] \in 1 .. Len(q) /\ e[i] >= i /\ i \in Nat
        BY <1>2 DEF Historic
    <2> QED
        BY <2>1, <1>1
<1>12. ASSUME NEW i \in 1 .. Len(e) PROVE e[i] < v[1].id
    <2>1. CASE w = <<>>
        <3>1. v[1].id = Len(q) + 1
            BY <2>1, <1>9, <1>6
        <3>2. e[i] \in 1 .. Len(q)
            BY <1>11
        <3> QED
            BY <3>1, <3>2, <1>1
    <2>2. CASE w # <<>>
        BY <2>2, <1>9 DEF Historic
    <2> QED
        BY <2>1, <2>2
<1>13. ASSUME NEW i \in 1 .. Len(e), AllCommands(q2, i) PROVE e[i] = i
    <2>1. i \in 0 .. Len(q)
        BY <1>11, <1>1, <1>2
    <2>2. AllCommands(q, i)
        BY <2>1, <1>10, <1>13
    <2> QED
        BY <2>2 DEF Historic
<1>14. ASSUME Len(e) + 1 <= Len(q2), AllCommands(q2, Len(e) + 1)
       PROVE  v[1] = [id |-> Len(e) + 1, part |-> 1]
    <2>1. CASE Len(e) + 1 <= Len(q)
        <3>1. Len(e) + 1 \in 0 .. Len(q)
            BY <2>1, <1>1, <1>2
        <3>2. AllCommands(q, Len(e) + 1)
            BY <3>1, <1>10, <1>14
        <3>3. w # <<>> /\ w[1] = [id |-> Len(e) + 1, part |-> 1]
            BY <2>1, <3>2 DEF Historic
        <3> QED
            BY <3>3, <1>9
    <2>2. CASE ~(Len(e) + 1 <= Len(q))
        <3>1. Len(e) = Len(q)
            BY <2>2, <1>14, <1>1, <1>2, <1>4
        <3>2. ASSUME w # <<>> PROVE FALSE
            <4>1. 1 \in 1 .. Len(w)
                BY <3>2, <1>1, EmptySeq
            <4>2. w[1].id \in 1 .. Len(q)
                BY <4>1 DEF Flow
            <4>3. Len(e) \in 1 .. Len(e)
                BY <4>2, <3>1, <1>1
            <4>4. e[Len(e)] < w[1].id
                BY <3>2, <4>3 DEF Historic
            <4>5. e[Len(e)] >= Len(e) /\ e[Len(e)] \in Nat
                BY <4>3, <1>11
            <4> QED
                BY <4>2, <4>4, <4>5, <3>1, <1>1
        <3> QED
            BY <3>1, <3>2, <1>6, <1>9
    <2> QED
        BY <2>1, <2>2
<1>15. \A i \in 1 .. Len(e) : e[i] \in 1 .. Len(q2) /\ e[i] >= i
    <2> SUFFICES ASSUME NEW i \in 1 .. Len(e) PROVE e[i] \in 1 .. Len(q2) /\ e[i] >= i
        OBVIOUS
    <2>1. e[i] \in 1 .. Len(q) /\ e[i] >= i
        BY <1>11
    <2> QED
        BY <2>1, <1>1, <1>4
<1>16. \A i, j \in 1 .. Len(e) : i < j => e[i] < e[j]
    BY DEF Historic
<1>17. Historic(q2, v, e)
    BY <1>2, <1>9, <1>12, <1>13, <1>14, <1>15, <1>16 DEF Historic
<1> QED
    BY <1>3, <1>5, <1>7, <1>17

\* The buffer is thrown away: not while all requests are commands.
LEMMA RejectHistoric ==
    ASSUME C!ConnectionAssumption, NEW q, NEW w, NEW e, Flow(q, w), Historic(q, w, e),
           NEW n \in 0 .. Len(w), w # <<>>,
           ~(Len(e) + 1 <= Len(q) /\ AllCommands(q, Len(e) + 1))
    PROVE  Historic(q, Rest(w, n), e)
<1>1. w \in Seq(Cell) /\ Len(w) \in Nat /\ Len(w) # 0
    BY LenProperties, EmptySeq DEF Flow
<1>2. PICK r : r = Rest(w, n)
    OBVIOUS
<1>3. /\ r \in Seq(Cell) /\ Len(r) = Len(w) - n
      /\ \A i \in 1 .. Len(w) - n : r[i] = w[n + i]
    BY <1>1, <1>2, RestIs
<1>4. ASSUME r # <<>>, NEW k \in 1 .. Len(e) PROVE e[k] < r[1].id
    <2>1. Len(r) \in Nat \ {0}
        BY <1>3, <1>4, EmptySeq
    <2>2. r[1] = w[n + 1] /\ n + 1 \in 1 .. Len(w) /\ 1 \in 1 .. Len(w)
        BY <2>1, <1>1, <1>3
    <2>3. w[n + 1].id >= w[1].id /\ w[n + 1].id \in Nat /\ w[1].id \in Nat
        BY <2>2, RunFacts, CellFacts
    <2>4. e[k] < w[1].id /\ e[k] \in Nat
        BY ElementOfSeq DEF Historic
    <2> QED
        BY <2>2, <2>3, <2>4
<1>5. Historic(q, r, e)
    BY <1>4 DEF Historic
<1> QED
    BY <1>2, <1>5

\* The first request, all of it in the buffer, is executed.
LEMMA ExecuteHistoric ==
    ASSUME C!ConnectionAssumption, NEW q, NEW w, NEW e, Flow(q, w), Historic(q, w, e),
           w # <<>>, w[1].part = 1, q[w[1].id].size <= Len(w)
    PROVE  Historic(q, Rest(w, q[w[1].id].size), Append(e, w[1].id))
<1>1. w \in Seq(Cell) /\ Len(w) \in Nat /\ Len(w) # 0 /\ Len(q) \in Nat
    BY LenProperties, EmptySeq DEF Flow
<1>2. e \in Seq(Nat) /\ Len(e) \in Nat
    BY LenProperties DEF Historic
<1>3. PICK x : x = w[1].id
    OBVIOUS
<1>4. PICK z : z = q[w[1].id].size
    OBVIOUS
<1>5. x \in 1 .. Len(q) /\ x \in Nat /\ z \in Nat \ {0} /\ z \in 1 .. Len(w)
    <2>1. 1 \in 1 .. Len(w)
        BY <1>1
    <2>2. w[1].id \in 1 .. Len(q) /\ w[1].id \in Nat /\ q[w[1].id].size \in Nat \ {0}
        BY <2>1, CellFacts
    <2> QED
        BY <2>2, <1>1, <1>3, <1>4
<1>6. PICK f : f = Append(e, x)
    OBVIOUS
<1>7. /\ f \in Seq(Nat) /\ Len(f) = Len(e) + 1
      /\ \A i \in 1 .. Len(e) : f[i] = e[i]
      /\ f[Len(e) + 1] = x
    BY <1>2, <1>5, <1>6, AppendProperties
<1>8. PICK r : r = Rest(w, z)
    OBVIOUS
<1>9. /\ r \in Seq(Cell) /\ Len(r) = Len(w) - z
      /\ \A i \in 1 .. Len(w) - z : r[i] = w[z + i]
    <2>1. z \in 0 .. Len(w)
        BY <1>5
    <2> QED
        BY <2>1, <1>1, <1>8, RestIs
\* the last cell of the request, and what follows
<1>10. w[z].id = x /\ w[z].part = z
    <2>1. w[1].part + z - 1 <= q[w[1].id].size /\ w[1].part + z - 1 = z
        BY <1>4, <1>5
    <2>2. w[z].id = w[1].id /\ w[z].part = w[1].part + z - 1
        BY <2>1, <1>5, RunFacts
    <2> QED
        BY <2>1, <2>2, <1>3
<1>11. ASSUME r # <<>> PROVE r[1] = [id |-> x + 1, part |-> 1]
    <2>1. Len(r) \in Nat \ {0}
        BY <1>9, <1>11, EmptySeq
    <2>2. r[1] = w[z + 1] /\ z \in 1 .. Len(w) - 1
        BY <2>1, <1>1, <1>5, <1>9
    <2>3. w[z + 1] = Following(q, w[z])
        BY <2>2 DEF Flow
    <2>4. q[w[z].id].size = z
        BY <1>3, <1>4, <1>10
    <2>5. Following(q, w[z]) = [id |-> x + 1, part |-> 1]
        BY <2>4, <1>10, <1>5 DEF Following
    <2> QED
        BY <2>2, <2>3, <2>5
<1>12. ASSUME x < Len(q) PROVE r # <<>>
    <2>1. w[Len(w)] = LastCell(q)
        BY DEF Flow
    <2>2. w[Len(w)].id = Len(q)
        BY <2>1 DEF LastCell
    <2>3. Len(w) # z
        BY <2>2, <1>10, <1>12, <1>5, <1>1
    <2>4. Len(r) # 0
        BY <2>3, <1>9, <1>5, <1>1
    <2> QED
        BY <2>4
\* the execution order
<1>13. ASSUME NEW k \in 1 .. Len(e)
       PROVE  f[k] = e[k] /\ e[k] < x /\ e[k] \in Nat /\ e[k] >= k /\ e[k] \in 1 .. Len(q)
    <2>1. e[k] < w[1].id /\ e[k] >= k /\ e[k] \in 1 .. Len(q)
        BY DEF Historic
    <2> QED
        BY <2>1, <1>2, <1>3, <1>7, ElementOfSeq
<1>14. x >= Len(e) + 1
    <2>1. CASE Len(e) = 0
        BY <2>1, <1>5
    <2>2. CASE Len(e) # 0
        <3>1. Len(e) \in 1 .. Len(e)
            BY <2>2, <1>2
        <3>2. e[Len(e)] < x /\ e[Len(e)] >= Len(e) /\ e[Len(e)] \in Nat
            BY <3>1, <1>13
        <3> QED
            BY <3>2, <1>2, <1>5
    <2> QED
        BY <2>1, <2>2
<1>15. ASSUME NEW k \in 1 .. Len(f) PROVE k \in 1 .. Len(e) \/ k = Len(e) + 1
    BY <1>2, <1>7
<1>16. ASSUME NEW k \in 1 .. Len(f) PROVE f[k] \in 1 .. Len(q) /\ f[k] >= k
    <2>1. CASE k \in 1 .. Len(e)
        BY <2>1, <1>13
    <2>2. CASE k = Len(e) + 1
        BY <2>2, <1>7, <1>5, <1>14
    <2> QED
        BY <2>1, <2>2, <1>15
<1>17. ASSUME NEW i \in 1 .. Len(f), NEW j \in 1 .. Len(f), i < j PROVE f[i] < f[j]
    <2>1. i \in 1 .. Len(e)
        BY <1>17, <1>7, <1>2
    <2>2. CASE j \in 1 .. Len(e)
        <3>1. e[i] < e[j]
            BY <2>1, <2>2, <1>17 DEF Historic
        <3> QED
            BY <3>1, <2>1, <2>2, <1>13
    <2>3. CASE j = Len(e) + 1
        BY <2>1, <2>3, <1>7, <1>13
    <2> QED
        BY <2>2, <2>3, <1>15
<1>18. ASSUME r # <<>>, NEW k \in 1 .. Len(f) PROVE f[k] < r[1].id
    <2>1. r[1].id = x + 1
        BY <1>11, <1>18
    <2>2. CASE k \in 1 .. Len(e)
        BY <2>1, <2>2, <1>13, <1>5
    <2>3. CASE k = Len(e) + 1
        BY <2>1, <2>3, <1>7, <1>5
    <2> QED
        BY <2>2, <2>3, <1>15
\* as long as all are commands
<1>19. ASSUME AllCommands(q, Len(e) + 1) PROVE x = Len(e) + 1
    <2>1. Len(e) + 1 <= Len(q)
        BY <1>14, <1>5, <1>1, <1>2
    <2>2. w[1] = [id |-> Len(e) + 1, part |-> 1]
        BY <2>1, <1>19 DEF Historic
    <2> QED
        BY <2>2, <1>3
<1>20. ASSUME NEW k \in 1 .. Len(f), AllCommands(q, k) PROVE f[k] = k
    <2>1. CASE k \in 1 .. Len(e)
        BY <2>1, <1>20, <1>13 DEF Historic
    <2>2. CASE k = Len(e) + 1
        BY <2>2, <1>20, <1>19, <1>7
    <2> QED
        BY <2>1, <2>2, <1>15
<1>21. ASSUME Len(f) + 1 <= Len(q), AllCommands(q, Len(f) + 1)
       PROVE  r # <<>> /\ r[1] = [id |-> Len(f) + 1, part |-> 1]
    <2>1. AllCommands(q, Len(e) + 1)
        <3>1. \A j \in 1 .. Len(e) + 1 : j \in 1 .. Len(f) + 1
            BY <1>2, <1>7
        <3> QED
            BY <3>1, <1>21 DEF AllCommands
    <2>2. x = Len(f) /\ x < Len(q)
        BY <2>1, <1>19, <1>21, <1>7, <1>5, <1>1
    <2> QED
        BY <2>2, <1>11, <1>12
<1>22. Historic(q, r, f)
    BY <1>7, <1>16, <1>17, <1>18, <1>20, <1>21 DEF Historic
<1> QED
    BY <1>3, <1>4, <1>6, <1>8, <1>22

Answer == [to : Nat, what : {"done", "error"}]

DoneIn(a) == {i \in 1 .. Len(a) : a[i].what = "done"}

\* The answers a have one for each of the executions e, in the same order.
Answered(a, e) ==
    /\ {a[i].to : i \in DoneIn(a)} = {e[k] : k \in 1 .. Len(e)}
    /\ \A i, j \in DoneIn(a) : i < j => a[i].to < a[j].to

\* An execution behind all others, and its reply.
LEMMA AnswerDone ==
    ASSUME NEW a \in Seq(Answer), NEW e \in Seq(Nat), Answered(a, e), NEW x \in Nat,
           \A k \in 1 .. Len(e) : e[k] < x
    PROVE  Answered(Append(a, [to |-> x, what |-> "done"]), Append(e, x))
<1>1. PICK y : y = [to |-> x, what |-> "done"]
    OBVIOUS
<1>2. y \in Answer /\ y.to = x /\ y.what = "done"
    BY <1>1 DEF Answer
<1>3. PICK b : b = Append(a, y)
    OBVIOUS
<1>4. PICK f : f = Append(e, x)
    OBVIOUS
<1>5. /\ b \in Seq(Answer) /\ Len(b) = Len(a) + 1 /\ Len(a) \in Nat
      /\ \A i \in 1 .. Len(a) : b[i] = a[i]
      /\ b[Len(a) + 1] = y
    BY <1>2, <1>3, AppendProperties, LenProperties
<1>6. /\ f \in Seq(Nat) /\ Len(f) = Len(e) + 1 /\ Len(e) \in Nat
      /\ \A i \in 1 .. Len(e) : f[i] = e[i]
      /\ f[Len(e) + 1] = x
    BY <1>4, AppendProperties, LenProperties
<1>7. DoneIn(b) = DoneIn(a) \cup {Len(a) + 1}
    <2>1. 1 .. Len(b) = (1 .. Len(a)) \cup {Len(a) + 1}
        BY <1>5
    <2> QED
        BY <2>1, <1>2, <1>5 DEF DoneIn
<1>8. \A i \in DoneIn(a) : b[i] = a[i] /\ i \in 1 .. Len(a)
    BY <1>5 DEF DoneIn
<1>9. {b[i].to : i \in DoneIn(b)} = {a[i].to : i \in DoneIn(a)} \cup {x}
    BY <1>7, <1>8, <1>5, <1>2
<1>10. {f[k] : k \in 1 .. Len(f)} = {e[k] : k \in 1 .. Len(e)} \cup {x}
    <2>1. 1 .. Len(f) = (1 .. Len(e)) \cup {Len(e) + 1}
        BY <1>6
    <2> QED
        BY <2>1, <1>6
<1>11. {b[i].to : i \in DoneIn(b)} = {f[k] : k \in 1 .. Len(f)}
    BY <1>9, <1>10 DEF Answered
<1>12. \A i \in DoneIn(a) : a[i].to < x
    BY DEF Answered
<1>13. ASSUME NEW i \in DoneIn(b), NEW j \in DoneIn(b), i < j PROVE b[i].to < b[j].to
    <2>1. i \in DoneIn(a)
        BY <1>13, <1>7, <1>8, <1>5
    <2>2. CASE j \in DoneIn(a)
        BY <2>1, <2>2, <1>8, <1>13 DEF Answered
    <2>3. CASE j = Len(a) + 1
        BY <2>1, <2>3, <1>8, <1>12, <1>5, <1>2
    <2> QED
        BY <2>2, <2>3, <1>7
<1>14. Answered(b, f)
    BY <1>11, <1>13 DEF Answered
<1> QED
    BY <1>1, <1>3, <1>4, <1>14

\* An error is no answer to an execution.
LEMMA AnswerError ==
    ASSUME NEW a \in Seq(Answer), NEW e, Answered(a, e)
    PROVE  Answered(Append(a, [to |-> 0, what |-> "error"]), e)
<1>1. PICK y : y = [to |-> 0, what |-> "error"]
    OBVIOUS
<1>2. y \in Answer /\ y.what = "error"
    BY <1>1 DEF Answer
<1>3. PICK b : b = Append(a, y)
    OBVIOUS
<1>4. /\ b \in Seq(Answer) /\ Len(b) = Len(a) + 1 /\ Len(a) \in Nat
      /\ \A i \in 1 .. Len(a) : b[i] = a[i]
      /\ b[Len(a) + 1] = y
    BY <1>2, <1>3, AppendProperties, LenProperties
<1>5. DoneIn(b) = DoneIn(a)
    <2>1. 1 .. Len(b) = (1 .. Len(a)) \cup {Len(a) + 1}
        BY <1>4
    <2> QED
        BY <2>1, <1>2, <1>4 DEF DoneIn
<1>6. \A i \in DoneIn(a) : b[i] = a[i]
    BY <1>4 DEF DoneIn
<1>7. {b[i].to : i \in DoneIn(b)} = {a[i].to : i \in DoneIn(a)}
    BY <1>5, <1>6
<1>8. \A i, j \in DoneIn(a) : i < j => a[i].to < a[j].to
    BY DEF Answered
<1>9. \A i, j \in DoneIn(b) : i < j => b[i].to < b[j].to
    BY <1>5, <1>6, <1>8
<1>10. {b[i].to : i \in DoneIn(b)} = {e[k] : k \in 1 .. Len(e)}
    BY <1>7 DEF Answered
<1>11. Answered(b, e)
    BY <1>9, <1>10 DEF Answered
<1> QED
    BY <1>1, <1>3, <1>11

\* When the last of the replies are lost, those that are left are still one for an
\* execution each, in order, and those that are missing belong to later executions.
LEMMA AnswersCut ==
    ASSUME NEW a \in Seq(Answer), NEW l \in Seq(Answer), NEW e, Answered(a \o l, e)
    PROVE  /\ \A i \in DoneIn(a) : \E k \in 1 .. Len(e) : a[i].to = e[k]
           /\ \A i, j \in DoneIn(a) : i < j => a[i].to < a[j].to
           /\ \A k \in 1 .. Len(e) :
                  \/ \E i \in DoneIn(a) : a[i].to = e[k]
                  \/ /\ \E i \in 1 .. Len(l) : e[k] = l[i].to
                     /\ \A i \in DoneIn(a) : a[i].to < e[k]
<1>1. PICK b : b = a \o l
    OBVIOUS
<1>2. /\ Len(a) \in Nat /\ Len(l) \in Nat /\ Len(b) = Len(a) + Len(l)
      /\ \A i \in 1 .. Len(a) + Len(l) : b[i] =
             IF i <= Len(a) THEN a[i] ELSE l[i - Len(a)]
    BY <1>1, ConcatProperties, LenProperties
<1>3. /\ {b[i].to : i \in DoneIn(b)} = {e[k] : k \in 1 .. Len(e)}
      /\ \A i, j \in DoneIn(b) : i < j => b[i].to < b[j].to
    BY <1>1 DEF Answered
<1>4. \A i \in DoneIn(a) : i \in DoneIn(b) /\ b[i] = a[i] /\ i \in 1 .. Len(a)
    BY <1>2 DEF DoneIn
<1>5. \A i \in DoneIn(a) : \E k \in 1 .. Len(e) : a[i].to = e[k]
    BY <1>3, <1>4
<1>6. \A i, j \in DoneIn(a) : i < j => a[i].to < a[j].to
    BY <1>3, <1>4
<1>7. ASSUME NEW k \in 1 .. Len(e), NEW x, x = e[k], ~ \E i \in DoneIn(a) : a[i].to = x
      PROVE  /\ \E i \in 1 .. Len(l) : x = l[i].to
             /\ \A i \in DoneIn(a) : a[i].to < x
    <2>1. PICK m \in DoneIn(b) : b[m].to = x
        BY <1>3, <1>7
    <2>2. m \in 1 .. Len(a) + Len(l) /\ b[m].what = "done"
        BY <1>2, <2>1 DEF DoneIn
    <2>3. m > Len(a)
        <3>1. SUFFICES ASSUME m <= Len(a) PROVE FALSE
            BY <1>2, <2>2
        <3>2. b[m] = a[m] /\ m \in 1 .. Len(a)
            BY <1>2, <2>2, <3>1
        <3>3. m \in DoneIn(a)
            BY <2>2, <3>2 DEF DoneIn
        <3> QED
            BY <1>7, <2>1, <3>2, <3>3
    <2>4. b[m] = l[m - Len(a)] /\ m - Len(a) \in 1 .. Len(l)
        BY <1>2, <2>2, <2>3
    <2>5. ASSUME NEW i \in DoneIn(a) PROVE a[i].to < x
        <3>1. i < m
            BY <1>2, <1>4, <2>2, <2>3
        <3> QED
            BY <1>3, <1>4, <2>1, <3>1
    <2> QED
        BY <2>1, <2>4, <2>5
<1> QED
    BY <1>5, <1>6, <1>7

\* A set whose members are all found in a short sequence is small.
LEMMA FewLost ==
    ASSUME NEW l \in Seq(Answer), NEW t \in Nat, Len(l) <= t, NEW U,
           \A x \in U : \E i \in 1 .. Len(l) : x = l[i].to
    PROVE  Cardinality(U) <= t
<1>1. Len(l) \in Nat
    BY LenProperties
<1>2. PICK T : T = {l[i].to : i \in 1 .. Len(l)}
    OBVIOUS
<1>3. PICK f : f = [i \in 1 .. Len(l) |-> l[i].to]
    OBVIOUS
<1>4. f \in Surjection(1 .. Len(l), T)
    <2>1. f \in [1 .. Len(l) -> T]
        BY <1>2, <1>3
    <2>2. \A y \in T : \E i \in 1 .. Len(l) : f[i] = y
        BY <1>2, <1>3
    <2> QED
        BY <2>1, <2>2 DEF Surjection
<1>5. IsFiniteSet(T) /\ Cardinality(T) <= Len(l)
    <2>1. IsFiniteSet(1 .. Len(l)) /\ Cardinality(1 .. Len(l)) = Len(l)
        <3>1. 1 \in Int /\ Len(l) \in Int
            BY <1>1
        <3>2. /\ IsFiniteSet(1 .. Len(l))
              /\ Cardinality(1 .. Len(l)) = IF 1 > Len(l) THEN 0 ELSE Len(l) - 1 + 1
            BY <3>1, FS_Interval
        <3> QED
            BY <1>1, <3>2
    <2> QED
        BY <1>4, <2>1, FS_Surjection
<1>6. U \subseteq T
    BY <1>2
<1>7. IsFiniteSet(U) /\ Cardinality(U) <= Cardinality(T)
    BY <1>5, <1>6, FS_Subset
<1>8. Cardinality(U) \in Nat /\ Cardinality(T) \in Nat
    BY <1>5, <1>7, FS_CardinalityType
<1> QED
    BY <1>1, <1>5, <1>7, <1>8

-----------------------------------------------------------------------------
(* The inductive invariant.                                                 *)

\* The capacities that doubling reaches from the first one.
Caps == CHOOSE caps \in SUBSET (1 .. Limit) :
            BufferLength \in caps /\ \A c \in caps : c < Limit => 2 * c \in caps

\* The cells that were sent and not consumed.
Under == input \o net

BufferInv ==
    /\ pc \in {"recv", "loop", "flush", "drain", "closed", "replica"}
    /\ selected \in BOOLEAN /\ expired \in BOOLEAN
    /\ ending \in {"open", "fin", "reset"}
    /\ input \in Seq(Cell) /\ net \in Seq(Cell)
    /\ output \in Seq(Answer) /\ delivered \in Seq(Answer)
    /\ capacity \in Caps \cup {0} /\ Len(input) <= capacity
    /\ Len(output) <= Threshold

\* What the reader has done where it is.
PlaceInv ==
    /\ pc = "recv" => output = <<>> /\ Len(input) < Limit
    /\ pc = "loop" => input # <<>> /\ Len(output) < Threshold
    /\ pc = "drain" => Len(input) < Limit

\* Nothing is consumed before the peer is known.
StreamInv ==
    /\ Flow(sent, Under)
    /\ Historic(sent, Under, executed)
    /\ ~selected /\ Under # <<>> => Under[1].part = 1

\* A connection that is closed had a batch of replies at most to send.
AnswerInv ==
    /\ pc # "closed" => Answered(delivered \o output, executed)
    /\ pc = "closed" =>
          /\ output = <<>>
          /\ \E lost \in Seq(Answer) :
                Len(lost) <= Threshold /\ Answered(delivered \o lost, executed)

ConnInv == BufferInv /\ PlaceInv /\ StreamInv /\ AnswerInv

\* The capacities stay within the limit, and doubling stays among them.
LEMMA CapsFacts ==
    ASSUME C!ConnectionAssumption
    PROVE  /\ BufferLength \in Caps /\ Limit \in Nat \ {0} /\ Threshold \in Nat \ {0}
           /\ \A c \in Caps : c \in Nat \ {0} /\ c <= Limit
           /\ \A c \in Caps : c < Limit => 2 * c \in Caps
<1>1. \E caps \in SUBSET (1 .. Limit) :
          BufferLength \in caps /\ \A c \in caps : c < Limit => 2 * c \in caps
    BY DEF C!ConnectionAssumption
<1>2. /\ Caps \in SUBSET (1 .. Limit)
      /\ BufferLength \in Caps /\ \A c \in Caps : c < Limit => 2 * c \in Caps
    BY <1>1 DEF Caps
<1>3. Limit \in Nat \ {0} /\ Threshold \in Nat \ {0}
    BY DEF C!ConnectionAssumption
<1> QED
    BY <1>2, <1>3

\* The front of a concatenation.
LEMMA FrontOf ==
    ASSUME NEW S, NEW s \in Seq(S), NEW t \in Seq(S)
    PROVE  /\ s \o t \in Seq(S) /\ Len(s \o t) = Len(s) + Len(t)
           /\ Len(s) \in Nat /\ Len(t) \in Nat /\ Len(s) <= Len(s \o t)
           /\ \A i \in 1 .. Len(s) : (s \o t)[i] = s[i]
           /\ s # <<>> => s \o t # <<>> /\ Len(s) >= 1 /\ (s \o t)[1] = s[1]
           /\ s = <<>> => s \o t = t
<1>1. Len(s) \in Nat /\ Len(t) \in Nat
    BY LenProperties
<1>2. PICK v : v = s \o t
    OBVIOUS
<1>3. /\ v \in Seq(S) /\ Len(v) = Len(s) + Len(t)
      /\ \A i \in 1 .. Len(s) + Len(t) : v[i] =
                     IF i <= Len(s) THEN s[i] ELSE t[i - Len(s)]
    BY <1>2, ConcatProperties
<1>4. ASSUME NEW i \in 1 .. Len(s) PROVE v[i] = s[i]
    <2>1. i \in 1 .. Len(s) + Len(t) /\ i <= Len(s)
        BY <1>1
    <2> QED
        BY <2>1, <1>3
<1>5. ASSUME s # <<>> PROVE v # <<>> /\ Len(s) >= 1 /\ v[1] = s[1]
    <2>1. Len(s) >= 1
        BY <1>5, <1>1, EmptySeq
    <2>2. 1 \in 1 .. Len(s) /\ Len(v) # 0
        BY <2>1, <1>1, <1>3
    <2> QED
        BY <2>1, <2>2, <1>4
<1>6. s = <<>> => s \o t = t
    BY ConcatEmptySeq
<1>7. Len(s) <= Len(v)
    BY <1>1, <1>3
<1> QED
    BY <1>1, <1>2, <1>3, <1>4, <1>5, <1>6, <1>7

\* The stream does not change, nor what was executed.
LEMMA StreamStays ==
    ASSUME StreamInv, Under' = Under, sent' = sent, executed' = executed,
           ~selected' => ~selected
    PROVE  StreamInv'
    BY DEF StreamInv

\* A connection that was just accepted.
LEMMA InitConn ==
    ASSUME C!ConnectionAssumption PROVE C!Init => ConnInv
<1> SUFFICES ASSUME C!Init PROVE ConnInv
    OBVIOUS
<1>1. /\ <<>> \in Seq(Cell) /\ <<>> \in Seq(Answer) /\ <<>> \in Seq(Nat)
      /\ <<>> \in Seq(Request)
    OBVIOUS
<1>2. /\ input = <<>> /\ net = <<>> /\ output = <<>> /\ delivered = <<>> /\ sent = <<>>
      /\ executed = <<>> /\ capacity = 0 /\ pc = "recv" /\ ending = "open"
      /\ selected \in BOOLEAN /\ expired \in BOOLEAN
    BY DEF C!Init
<1>3. BufferInv
    BY <1>1, <1>2, CapsFacts DEF BufferInv
<1>4. PlaceInv
    BY <1>2, CapsFacts DEF PlaceInv
<1>5. Under = <<>>
    <2>1. <<>> \o <<>> = <<>>
        BY <1>1, ConcatEmptySeq
    <2> QED
        BY <2>1, <1>2 DEF Under
<1>6. Flow(sent, Under) /\ Historic(sent, Under, executed)
    <2>1. Len(sent) = 0 /\ Len(Under) = 0 /\ Len(executed) = 0
        BY <1>2, <1>5
    <2>2. Flow(sent, Under)
        BY <1>1, <1>2, <1>5, <2>1 DEF Flow
    <2>3. Historic(sent, Under, executed)
        BY <1>1, <1>2, <1>5, <2>1 DEF Historic
    <2> QED
        BY <2>2, <2>3
<1>7. StreamInv
    BY <1>5, <1>6 DEF StreamInv
<1>8. AnswerInv
    <2>1. delivered \o output = <<>>
        BY <1>1, <1>2, ConcatEmptySeq
    <2>2. DoneIn(<<>>) = {} /\ {executed[k] : k \in 1 .. Len(executed)} = {}
        BY <1>2 DEF DoneIn
    <2>3. Answered(<<>>, executed)
        BY <2>2 DEF Answered
    <2> QED
        BY <2>1, <2>3 DEF AnswerInv, C!Init
<1> QED
    BY <1>3, <1>4, <1>7, <1>8 DEF ConnInv

-----------------------------------------------------------------------------
(* The peer.                                                                *)

\* The client sends a request.
LEMMA SendConn ==
    ASSUME C!ConnectionAssumption, ConnInv, NEW r \in Request, C!Send(r)
    PROVE  ConnInv'
<1>1. PICK k : k = C!Cells(Len(sent) + 1, r)
    OBVIOUS
<1>2. /\ sent' = Append(sent, r) /\ net' = net \o k
      /\ pc' = pc /\ selected' = selected /\ expired' = expired /\ input' = input
      /\ capacity' = capacity /\ output' = output /\ ending' = ending
      /\ executed' = executed /\ delivered' = delivered
    BY <1>1 DEF C!Send
<1>3. Flow(sent, Under) /\ Historic(sent, Under, executed)
    BY DEF ConnInv, StreamInv
<1>4. /\ Flow(Append(sent, r), Under \o k)
      /\ k \in Seq(Cell) /\ Len(k) \in Nat \ {0}
      /\ k[1] = [id |-> Len(sent) + 1, part |-> 1]
    BY <1>1, <1>3, SendFlow
<1>5. Historic(Append(sent, r), Under \o k, executed)
    BY <1>1, <1>3, SendHistoric
<1>6. input \in Seq(Cell) /\ net \in Seq(Cell) /\ Under \in Seq(Cell)
    BY ConcatProperties DEF ConnInv, BufferInv, Under
<1>7. Under' = Under \o k
    <2>1. (input \o net) \o k = input \o (net \o k)
        BY <1>4, <1>6, ConcatAssociative
    <2> QED
        BY <2>1, <1>2 DEF Under
<1>8. BufferInv'
    <2>1. net \o k \in Seq(Cell)
        BY <1>4, <1>6, ConcatProperties
    <2> QED
        BY <2>1, <1>2 DEF ConnInv, BufferInv
<1>9. PlaceInv'
    BY <1>2 DEF ConnInv, PlaceInv
<1>10. (Under \o k)[1].part = 1 \/ selected
    <2> SUFFICES ASSUME ~selected PROVE (Under \o k)[1].part = 1
        OBVIOUS
    <2>1. CASE Under = <<>>
        <3>1. Under \o k = k
            BY <2>1, <1>4, <1>6, FrontOf
        <3> QED
            BY <3>1, <1>4
    <2>2. CASE Under # <<>>
        <3>1. (Under \o k)[1] = Under[1]
            BY <2>2, <1>4, <1>6, FrontOf
        <3>2. Under[1].part = 1
            BY <2>2 DEF ConnInv, StreamInv
        <3> QED
            BY <3>1, <3>2
    <2> QED
        BY <2>1, <2>2
<1>11. StreamInv'
    BY <1>2, <1>4, <1>5, <1>7, <1>10 DEF StreamInv
<1>12. AnswerInv'
    BY <1>2 DEF ConnInv, AnswerInv
<1> QED
    BY <1>8, <1>9, <1>11, <1>12 DEF ConnInv

\* The client ends the connection, or the deadline passes.
LEMMA EndConn ==
    ASSUME ConnInv,
           (\E how \in {"fin", "reset"} : C!End(how)) \/ C!DeadlinePasses
    PROVE  ConnInv'
<1>1. /\ sent' = sent /\ net' = net /\ pc' = pc /\ selected' = selected
      /\ input' = input /\ capacity' = capacity /\ output' = output
      /\ executed' = executed /\ delivered' = delivered
      /\ expired' \in {expired, TRUE} /\ ending' \in {ending, "fin", "reset"}
    BY DEF C!End, C!DeadlinePasses, C!client
<1>2. BufferInv' /\ PlaceInv' /\ AnswerInv'
    BY <1>1 DEF ConnInv, BufferInv, PlaceInv, AnswerInv
<1>3. StreamInv'
    BY <1>1, StreamStays DEF ConnInv, Under
<1> QED
    BY <1>2, <1>3 DEF ConnInv

\* The connection is closed when n of the replies are sent.
LEMMA ClosedConn ==
    ASSUME C!ConnectionAssumption, ConnInv, pc # "closed", C!Closed,
           NEW n \in 0 .. Len(output), delivered' = Received(delivered, output, n)
    PROVE  ConnInv'
<1>1. /\ sent' = sent /\ net' = net /\ pc' = "closed" /\ selected' = selected
      /\ input' = input /\ capacity' = capacity /\ output' = <<>>
      /\ executed' = executed /\ expired' = expired /\ ending' = ending
    BY DEF C!Closed, C!client
<1>2. output \in Seq(Answer) /\ delivered \in Seq(Answer) /\ Threshold \in Nat
    BY CapsFacts DEF ConnInv, BufferInv
<1>3. /\ delivered' \in Seq(Answer) /\ Rest(output, n) \in Seq(Answer)
      /\ delivered' \o Rest(output, n) = delivered \o output
    BY <1>2, MovedConcat
<1>4. Len(Rest(output, n)) <= Threshold
    <2>1. Len(Rest(output, n)) = Len(output) - n /\ Len(output) \in Nat
        BY <1>2, RestIs, LenProperties
    <2> QED
        BY <1>2, <2>1 DEF ConnInv, BufferInv
<1>5. BufferInv' /\ PlaceInv'
    BY <1>1, <1>2, <1>3 DEF ConnInv, BufferInv, PlaceInv
<1>6. AnswerInv'
    <2>1. PICK lost : lost = Rest(output, n)
        OBVIOUS
    <2>2. Answered(delivered' \o lost, executed')
        BY <1>1, <1>3, <2>1 DEF ConnInv, AnswerInv
    <2> QED
        BY <1>1, <1>3, <1>4, <2>1, <2>2 DEF AnswerInv
<1>7. StreamInv'
    BY <1>1, StreamStays DEF ConnInv, Under
<1> QED
    BY <1>5, <1>6, <1>7 DEF ConnInv

\* Nothing of the replies is sent.
LEMMA NoneSent ==
    ASSUME ConnInv PROVE 0 \in 0 .. Len(output) /\ Received(delivered, output, 0) = delivered
<1>1. output \in Seq(Answer) /\ delivered \in Seq(Answer) /\ Len(output) \in Nat
    BY LenProperties DEF ConnInv, BufferInv
<1>2. SubSeq(output, 1, 0) = <<>>
    BY <1>1, SubSeqEmpty
<1>3. delivered \o <<>> = delivered
    BY <1>1, ConcatEmptySeq
<1> QED
    BY <1>1, <1>2, <1>3 DEF Received

-----------------------------------------------------------------------------
(* The reader.                                                              *)

\* Cells arrive: the stream stays what it is, and the buffer is large enough.
LEMMA RecvConn ==
    ASSUME C!ConnectionAssumption, ConnInv, NEW n \in 1 .. 2 * Limit, C!Recv(n)
    PROVE  ConnInv'
<1>1. /\ pc = "recv" /\ n <= Len(net)
      /\ n <= C!Ensured(capacity, Len(input)) - Len(input)
      /\ capacity' = C!Ensured(capacity, Len(input))
      /\ input' = input \o SubSeq(net, 1, n) /\ net' = Rest(net, n)
      /\ pc' = "loop" /\ selected' = selected /\ expired' = expired
      /\ output' = output /\ ending' = ending /\ sent' = sent
      /\ executed' = executed /\ delivered' = delivered
    BY DEF C!Recv, Rest
<1>2. /\ input \in Seq(Cell) /\ net \in Seq(Cell) /\ Len(input) <= capacity
      /\ capacity \in Caps \cup {0} /\ output = <<>> /\ Len(input) < Limit
    BY <1>1 DEF ConnInv, BufferInv, PlaceInv
<1>3. Len(input) \in Nat /\ Len(net) \in Nat /\ Limit \in Nat
    BY <1>2, LenProperties, CapsFacts
<1>4. n \in 0 .. Len(net) /\ n >= 1 /\ n \in Nat
    BY <1>1, <1>3
<1>5. /\ input' \in Seq(Cell) /\ net' \in Seq(Cell)
      /\ Len(input') = Len(input) + n /\ input' \o net' = input \o net
    <2>1. /\ Received(input, net, n) \in Seq(Cell) /\ Rest(net, n) \in Seq(Cell)
          /\ Len(Received(input, net, n)) = Len(input) + n
          /\ Received(input, net, n) \o Rest(net, n) = input \o net
        BY <1>2, <1>4, MovedConcat
    <2>2. input' = Received(input, net, n)
        BY <1>1 DEF Received
    <2> QED
        BY <2>1, <2>2, <1>1
<1>6. capacity' \in Caps
    <2>1. CASE capacity = 0
        BY <2>1, <1>1, CapsFacts DEF C!Ensured
    <2>2. CASE capacity # 0 /\ capacity - Len(input) >= 1
        BY <2>2, <1>1, <1>2 DEF C!Ensured
    <2>3. CASE capacity # 0 /\ ~(capacity - Len(input) >= 1)
        <3>1. capacity \in Caps /\ capacity \in Nat
            BY <2>3, <1>2, CapsFacts
        <3>2. capacity < Limit
            BY <3>1, <2>3, <1>2, <1>3
        <3>3. 2 * capacity \in Caps
            BY <3>1, <3>2, CapsFacts
        <3> QED
            BY <3>3, <2>3, <1>1 DEF C!Ensured
    <2> QED
        BY <2>1, <2>2, <2>3
<1>7. Len(input') <= capacity'
    <2>1. capacity' \in Nat
        BY <1>6, CapsFacts
    <2> QED
        BY <2>1, <1>1, <1>3, <1>4, <1>5
<1>8. BufferInv'
    BY <1>1, <1>5, <1>6, <1>7 DEF ConnInv, BufferInv
<1>9. PlaceInv'
    <2>1. Len(input') # 0
        BY <1>3, <1>4, <1>5
    <2>2. input' # <<>>
        BY <2>1
    <2>3. Len(output') < Threshold
        BY <1>1, <1>2, CapsFacts
    <2> QED
        BY <2>2, <2>3, <1>1 DEF PlaceInv
<1>10. StreamInv'
    <2>1. Under' = Under
        BY <1>5 DEF Under
    <2> QED
        BY <2>1, <1>1, StreamStays DEF ConnInv
<1>11. AnswerInv'
    BY <1>1 DEF ConnInv, AnswerInv
<1> QED
    BY <1>8, <1>9, <1>10, <1>11 DEF ConnInv

\* What the handler finds: the buffer is the front of the stream.
LEMMA LoopFacts ==
    ASSUME C!ConnectionAssumption, ConnInv, pc = "loop"
    PROVE  /\ Under # <<>> /\ Under \in Seq(Cell) /\ input[1] = Under[1]
           /\ input # <<>> /\ input \in Seq(Cell) /\ net \in Seq(Cell)
           /\ Len(input) \in 1 .. Len(Under) /\ Len(input) \in Nat
           /\ C!First = sent[Under[1].id]
           /\ Under[1].id \in 1 .. Len(sent) /\ Under[1].id \in Nat
           /\ Under[1].part \in 1 .. C!First.size /\ C!First.size \in Nat \ {0}
           /\ C!First.kind \in {"cmd", "bad", "endless", "line", "ping"}
           /\ C!First.kind = "cmd" => C!First.size <= Limit
           /\ C!First.kind = "line" => C!First.at <= C!First.size /\ C!First.at <= Limit
           /\ C!First.kind = "ping" => C!First.size <= Limit
           /\ C!Have \in Nat /\ C!First.at \in Nat
           /\ Under[1].part = 1 =>
                 C!Have = IF Len(input) <= C!First.size THEN Len(input) ELSE C!First.size
<1>1. /\ input \in Seq(Cell) /\ net \in Seq(Cell) /\ input # <<>>
      /\ Flow(sent, Under) /\ sent \in Seq(Request)
    BY DEF ConnInv, BufferInv, PlaceInv, StreamInv, Flow
<1>2. /\ Under \in Seq(Cell) /\ Under # <<>> /\ Len(input) >= 1 /\ Len(input) \in Nat
      /\ Under[1] = input[1] /\ Len(input) <= Len(Under) /\ Len(Under) \in Nat
      /\ \A i \in 1 .. Len(input) : input[i] = Under[i]
    <2>1. /\ Len(Under) = Len(input) + Len(net) /\ Len(input) \in Nat /\ Len(net) \in Nat
          /\ Under \in Seq(Cell) /\ Under # <<>> /\ Len(input) >= 1
          /\ Under[1] = input[1] /\ Len(input) <= Len(Under)
          /\ \A i \in 1 .. Len(input) : Under[i] = input[i]
        BY <1>1, FrontOf DEF Under
    <2> QED
        BY <2>1
<1>3. C!First = sent[Under[1].id]
    BY <1>2 DEF C!First
<1>4. 1 \in 1 .. Len(Under) /\ Len(input) \in 1 .. Len(Under)
    BY <1>2
<1>5. /\ Under[1].id \in 1 .. Len(sent) /\ Under[1].id \in Nat
      /\ Under[1].part \in 1 .. sent[Under[1].id].size
      /\ sent[Under[1].id].size \in Nat \ {0}
    BY <1>1, <1>4, CellFacts
<1>6. /\ C!First.kind \in {"cmd", "bad", "endless", "line", "ping"}
      /\ C!First.kind = "cmd" => C!First.size <= Limit
      /\ C!First.kind = "line" => C!First.at <= C!First.size /\ C!First.at <= Limit
      /\ C!First.kind = "ping" => C!First.size <= Limit /\ C!First.at \in Nat
      /\ C!First.at \in Nat
    BY <1>1, <1>3, <1>5, RequestFacts
<1>7. PICK h : h = Cardinality({i \in DOMAIN input : input[i].id = input[1].id})
    OBVIOUS
<1>8. LET left == sent[Under[1].id].size - Under[1].part + 1 IN
      h \in Nat /\ h = (IF Len(input) <= left THEN Len(input) ELSE left)
    BY <1>1, <1>2, <1>7, HaveIs
<1>9. C!Have = h
    BY <1>7 DEF C!Have, C!Cardinality, Cardinality
<1>10. ASSUME Under[1].part = 1
       PROVE  C!Have = IF Len(input) <= C!First.size THEN Len(input) ELSE C!First.size
    <2>1. sent[Under[1].id].size - Under[1].part + 1 = C!First.size
        BY <1>10, <1>3, <1>5
    <2> QED
        BY <2>1, <1>8, <1>9
<1> QED
    BY <1>1, <1>2, <1>3, <1>4, <1>5, <1>6, <1>8, <1>9, <1>10

\* What the verdict of the parser says of the first request.
LEMMA ParsedFacts ==
    ASSUME C!ConnectionAssumption, ConnInv, pc = "loop"
    PROVE  /\ C!Parsed = "done" =>
                 Under[1].part = 1 /\ C!First.kind = "cmd" /\ C!Have = C!First.size
           /\ Under[1].part = 1 /\ C!First.kind = "cmd" =>
                 C!Parsed # "error" /\ (C!Parsed = "more" => C!Have # C!First.size)
<1>1. /\ input[1] = Under[1]
      /\ C!First.kind \in {"cmd", "bad", "endless", "line", "ping"}
    BY LoopFacts
<1>2. CASE Under[1].part # 1 \/ C!First.kind \in {"line", "ping"}
    BY <1>1, <1>2 DEF C!Parsed
<1>3. CASE Under[1].part = 1 /\ C!First.kind = "cmd"
    <2>1. C!Parsed = IF C!Have = C!First.size THEN "done" ELSE "more"
        BY <1>1, <1>3 DEF C!Parsed
    <2> QED
        BY <2>1, <1>3
<1>4. CASE Under[1].part = 1 /\ C!First.kind = "bad"
    <2>1. C!Parsed = IF C!Have >= C!First.at THEN "error" ELSE "more"
        BY <1>1, <1>4 DEF C!Parsed
    <2> QED
        BY <2>1, <1>4
<1>5. CASE Under[1].part = 1 /\ C!First.kind = "endless"
    <2>1. C!Parsed = "more"
        BY <1>1, <1>5 DEF C!Parsed
    <2> QED
        BY <2>1, <1>5
<1> QED
    BY <1>1, <1>2, <1>3, <1>4, <1>5

\* Whoever waits for more of a request that may be one has room for it.
LEMMA WaitConn ==
    ASSUME C!ConnectionAssumption, ConnInv, C!NeedMore \/ C!Incomplete
    PROVE  ConnInv'
<1>1. /\ pc = "loop" /\ pc' = "drain" /\ sent' = sent /\ net' = net /\ input' = input
      /\ capacity' = capacity /\ output' = output /\ executed' = executed
      /\ delivered' = delivered /\ expired' = expired /\ ending' = ending
      /\ selected' = selected \/ selected' = TRUE
    <2>1. CASE C!NeedMore
        BY <2>1 DEF C!NeedMore, C!client
    <2>2. CASE C!Incomplete
        BY <2>2 DEF C!Incomplete, C!Handles, C!client
    <2> QED
        BY <2>1, <2>2
<1>2. Limit \in Nat
    BY CapsFacts
<1>3. Len(input) < Limit
    <2>1. CASE C!NeedMore
        <3>1. ~selected /\ C!Kind = "NEED_MORE"
            BY <2>1 DEF C!NeedMore
        <3>2. Under[1].part = 1 /\ Under # <<>>
            BY <3>1, <1>1, LoopFacts DEF ConnInv, StreamInv
        <3>3. C!Have = IF Len(input) <= C!First.size THEN Len(input) ELSE C!First.size
            BY <3>2, <1>1, LoopFacts
        <3>4. /\ Len(input) \in Nat /\ C!First.size \in Nat /\ C!First.at \in Nat
              /\ C!First.kind = "line" => C!First.at <= C!First.size /\ C!First.at <= Limit
              /\ C!First.kind = "ping" => C!First.size <= Limit
            BY <1>1, LoopFacts
        <3>5. CASE C!First.kind = "line"
            <4>1. C!Have < C!First.at
                BY <3>1, <3>5 DEF C!Kind
            <4> QED
                BY <4>1, <3>3, <3>4, <3>5, <1>2
        <3>6. CASE C!First.kind = "ping"
            <4>1. C!Have < C!First.size
                BY <3>1, <3>6 DEF C!Kind
            <4> QED
                BY <4>1, <3>3, <3>4, <3>6, <1>2
        <3>7. CASE C!First.kind \notin {"line", "ping"}
            BY <3>1, <3>7 DEF C!Kind
        <3> QED
            BY <3>5, <3>6, <3>7
    <2>2. CASE C!Incomplete
        <3>1. ~(Len(input) >= Limit)
            BY <2>2 DEF C!Incomplete, C!TooLong
        <3>2. Len(input) \in Nat
            BY <1>1, LoopFacts
        <3> QED
            BY <3>1, <3>2, <1>2
    <2> QED
        BY <2>1, <2>2
<1>4. BufferInv' /\ AnswerInv'
    BY <1>1 DEF ConnInv, BufferInv, AnswerInv
<1>5. PlaceInv'
    BY <1>1, <1>3 DEF PlaceInv
<1>6. StreamInv'
    <2>1. Under' = Under
        BY <1>1 DEF Under
    <2>2. StreamInv
        BY DEF ConnInv
    <2>3. ~selected' => ~selected
        BY <1>1
    <2> QED
        BY <1>1, <2>1, <2>2, <2>3, StreamStays
<1> QED
    BY <1>4, <1>5, <1>6 DEF ConnInv

\* The peer is a Replica.
LEMMA ReplicaConn ==
    ASSUME ConnInv, C!BecomesReplica PROVE ConnInv'
<1>1. /\ pc = "loop" /\ pc' = "replica" /\ sent' = sent /\ net' = net /\ input' = input
      /\ capacity' = capacity /\ output' = output /\ executed' = executed
      /\ delivered' = delivered /\ expired' = expired /\ ending' = ending
      /\ selected' = TRUE
    BY DEF C!BecomesReplica, C!client
<1>2. BufferInv' /\ PlaceInv' /\ AnswerInv'
    BY <1>1 DEF ConnInv, BufferInv, PlaceInv, AnswerInv
<1>3. StreamInv'
    <2>1. Under' = Under
        BY <1>1 DEF Under
    <2>2. StreamInv
        BY DEF ConnInv
    <2>3. ~selected' => ~selected
        BY <1>1
    <2> QED
        BY <1>1, <2>1, <2>2, <2>3, StreamStays
<1> QED
    BY <1>2, <1>3 DEF ConnInv

\* One more answer behind those that wait to be sent.
LEMMA AnswerAppend ==
    ASSUME NEW S, NEW a \in Seq(S), NEW b \in Seq(S), NEW y \in S
    PROVE  a \o Append(b, y) = Append(a \o b, y)
<1>1. PICK one : one = <<y>>
    OBVIOUS
<1>2. one \in Seq(S)
    BY <1>1
<1>3. Append(b, y) = b \o one
    BY <1>1, AppendIsConcat
<1>4. (a \o b) \o one = a \o (b \o one)
    BY <1>2, ConcatAssociative
<1>5. PICK ab : ab = a \o b
    OBVIOUS
<1>6. ab \in Seq(S)
    BY <1>5, ConcatProperties
<1>7. Append(ab, y) = ab \o one
    BY <1>1, <1>6, AppendIsConcat
<1> QED
    BY <1>3, <1>4, <1>5, <1>7

\* n cells are consumed for the reply y.
LEMMA ReplyConn ==
    ASSUME C!ConnectionAssumption, ConnInv, pc = "loop", NEW n \in 1 .. Len(input),
           NEW y \in Answer, C!Reply(n, y), selected' = TRUE, expired' = expired,
           capacity' = capacity, delivered' = delivered, net' = net, ending' = ending
    PROVE  /\ BufferInv' /\ PlaceInv' /\ Under' = Rest(Under, n) /\ n \in 0 .. Len(Under)
           /\ delivered' \o output' = Append(delivered \o output, y)
           /\ delivered \o output \in Seq(Answer)
           /\ pc' # "closed"
<1>1. /\ input' = Rest(input, n) /\ output' = Append(output, y)
      /\ pc' = IF Len(output') >= Threshold THEN "flush"
               ELSE IF input' # <<>> THEN "loop" ELSE "drain"
    BY DEF C!Reply, Rest
<1>2. /\ input \in Seq(Cell) /\ net \in Seq(Cell) /\ Len(input) \in 1 .. Len(Under)
      /\ Len(input) \in Nat
    BY LoopFacts
<1>3. /\ output \in Seq(Answer) /\ delivered \in Seq(Answer) /\ Len(output) < Threshold
      /\ Len(input) <= capacity /\ capacity \in Caps \cup {0} /\ capacity \in Nat
    BY CapsFacts DEF ConnInv, BufferInv, PlaceInv
<1>4. n \in 0 .. Len(input) /\ n \in Nat
    BY <1>2
<1>5. /\ input' \in Seq(Cell) /\ Len(input') = Len(input) - n
    BY <1>1, <1>2, <1>4, RestIs
<1>6. Rest(input, n) \o net = Rest(input \o net, n)
    BY <1>2, <1>4, RestOfConcat
<1>7. Under' = Rest(Under, n)
    BY <1>1, <1>6 DEF Under
<1>8. /\ output' \in Seq(Answer) /\ Len(output') = Len(output) + 1
      /\ Len(output) \in Nat /\ Threshold \in Nat /\ Limit \in Nat \ {0}
    BY <1>1, <1>3, AppendProperties, LenProperties, CapsFacts
<1>9. BufferInv'
    <2>1. Len(output') <= Threshold /\ Len(input') <= capacity'
        BY <1>2, <1>3, <1>4, <1>5, <1>8
    <2> QED
        BY <2>1, <1>1, <1>2, <1>3, <1>5, <1>8 DEF ConnInv, BufferInv
<1>10. PlaceInv'
    <2>1. pc' = "loop" => input' # <<>> /\ Len(output') < Threshold
        BY <1>1, <1>8
    <2>2. pc' = "drain" => input' = <<>>
        BY <1>1
    <2>3. pc' # "recv"
        BY <1>1
    <2> QED
        BY <2>1, <2>2, <2>3, <1>8 DEF PlaceInv
<1>11. n \in 0 .. Len(Under)
    BY <1>2, <1>4
<1>12. delivered' \o output' = Append(delivered \o output, y)
    BY <1>1, <1>3, AnswerAppend
<1>13. delivered \o output \in Seq(Answer)
    BY <1>3, ConcatProperties
<1>14. pc' # "closed"
    BY <1>1
<1> QED
    BY <1>7, <1>9, <1>10, <1>11, <1>12, <1>13, <1>14

\* The first request is executed and consumed, and nothing else.
LEMMA ExecuteConn ==
    ASSUME C!ConnectionAssumption, ConnInv, C!Execute PROVE ConnInv'
<1>1. /\ pc = "loop" /\ selected' = TRUE /\ expired' = expired /\ C!Parsed = "done"
      /\ executed' = Append(executed, input[1].id)
      /\ C!Reply(C!First.size, [to |-> input[1].id, what |-> "done"])
      /\ capacity' = capacity /\ delivered' = delivered /\ net' = net
      /\ ending' = ending /\ sent' = sent
    BY DEF C!Execute, C!Handles, C!client
<1>2. PICK x : x = Under[1].id
    OBVIOUS
<1>3. PICK y : y = [to |-> x, what |-> "done"]
    OBVIOUS
<1>4. /\ Under # <<>> /\ input[1] = Under[1] /\ x \in Nat
      /\ C!First = sent[Under[1].id] /\ C!First.size \in Nat \ {0}
      /\ Len(input) \in 1 .. Len(Under) /\ Len(input) \in Nat
      /\ Under \in Seq(Cell)
    BY <1>1, <1>2, LoopFacts
<1>5. Under[1].part = 1 /\ C!Have = C!First.size
    BY <1>1, ParsedFacts
<1>6. C!Have = IF Len(input) <= C!First.size THEN Len(input) ELSE C!First.size
    BY <1>1, <1>5, LoopFacts
<1>7. PICK n : n = C!First.size
    OBVIOUS
<1>8. n \in 1 .. Len(input) /\ n <= Len(Under)
    <2>1. Len(Under) \in Nat
        BY <1>4, LenProperties
    <2>2. n \in Nat \ {0}
        BY <1>4, <1>7
    <2>3. n = IF Len(input) <= n THEN Len(input) ELSE n
        BY <1>5, <1>6, <1>7
    <2>4. n <= Len(input)
        BY <2>2, <2>3, <1>4
    <2> QED
        BY <2>1, <2>2, <2>4, <1>4
<1>9. y \in Answer /\ C!Reply(n, y)
    BY <1>1, <1>2, <1>3, <1>4, <1>7 DEF Answer
<1>10. /\ BufferInv' /\ PlaceInv' /\ Under' = Rest(Under, n)
       /\ n \in 0 .. Len(Under)
       /\ delivered' \o output' = Append(delivered \o output, y)
       /\ delivered \o output \in Seq(Answer) /\ pc' # "closed"
    BY <1>1, <1>8, <1>9, ReplyConn
<1>11. Flow(sent, Under) /\ Historic(sent, Under, executed)
    BY DEF ConnInv, StreamInv
<1>12. Flow(sent, Rest(Under, n))
    BY <1>10, <1>11, DropFlow
<1>13. Historic(sent, Rest(Under, sent[Under[1].id].size), Append(executed, Under[1].id))
    <2>1. sent[Under[1].id].size <= Len(Under)
        BY <1>4, <1>7, <1>8
    <2> QED
        BY <2>1, <1>4, <1>5, <1>11, ExecuteHistoric
<1>14. Historic(sent, Rest(Under, n), Append(executed, x))
    BY <1>13, <1>2, <1>4, <1>7
<1>15. executed' = Append(executed, x)
    BY <1>1, <1>2, <1>4
<1>16. StreamInv'
    BY <1>1, <1>10, <1>12, <1>14, <1>15 DEF StreamInv
<1>17. AnswerInv'
    <2>1. Answered(delivered \o output, executed)
        BY <1>1 DEF ConnInv, AnswerInv
    <2>2. executed \in Seq(Nat) /\ \A k \in 1 .. Len(executed) : executed[k] < x
        BY <1>2, <1>4, <1>11 DEF Historic
    <2>3. PICK a : a = delivered \o output
        OBVIOUS
    <2>4. Answered(Append(a, [to |-> x, what |-> "done"]), Append(executed, x))
        BY <2>1, <2>2, <2>3, <1>4, <1>10, AnswerDone
    <2>5. Answered(delivered' \o output', executed')
        BY <2>3, <2>4, <1>3, <1>10, <1>15
    <2> QED
        BY <2>5, <1>10 DEF AnswerInv
<1> QED
    BY <1>10, <1>16, <1>17 DEF ConnInv

\* The buffer is thrown away with an error.
LEMMA RejectConn ==
    ASSUME C!ConnectionAssumption, ConnInv, C!Reject PROVE ConnInv'
<1>1. /\ pc = "loop" /\ selected' = TRUE /\ expired' = expired
      /\ C!Parsed = "error" \/ (C!Parsed = "more" /\ Len(input) >= Limit)
      /\ C!Reply(Len(input), [to |-> 0, what |-> "error"])
      /\ capacity' = capacity /\ delivered' = delivered /\ net' = net
      /\ ending' = ending /\ sent' = sent /\ executed' = executed
    BY DEF C!Reject, C!Handles, C!client, C!TooLong
<1>2. PICK n : n = Len(input)
    OBVIOUS
<1>3. PICK y : y = [to |-> 0, what |-> "error"]
    OBVIOUS
<1>4. /\ Under # <<>> /\ Len(input) \in 1 .. Len(Under) /\ Len(input) \in Nat
      /\ C!First = sent[Under[1].id] /\ C!First.size \in Nat \ {0}
      /\ C!First.kind = "cmd" => C!First.size <= Limit
    BY <1>1, LoopFacts
<1>5. n \in 1 .. Len(input) /\ n \in 0 .. Len(Under)
    BY <1>2, <1>4
<1>6. y \in Answer /\ C!Reply(n, y)
    BY <1>1, <1>2, <1>3 DEF Answer
<1>7. /\ BufferInv' /\ PlaceInv' /\ Under' = Rest(Under, n)
      /\ delivered' \o output' = Append(delivered \o output, y)
      /\ delivered \o output \in Seq(Answer) /\ pc' # "closed"
    BY <1>1, <1>5, <1>6, ReplyConn
<1>8. Flow(sent, Under) /\ Historic(sent, Under, executed)
    BY DEF ConnInv, StreamInv
<1>9. Flow(sent, Rest(Under, n))
    BY <1>5, <1>8, DropFlow
\* a stream of commands only has a command in front, which is no error and fits
<1>10. ~(Len(executed) + 1 <= Len(sent) /\ AllCommands(sent, Len(executed) + 1))
    <2> SUFFICES ASSUME Len(executed) + 1 <= Len(sent),
                        AllCommands(sent, Len(executed) + 1)
                 PROVE  FALSE
        OBVIOUS
    <2>1. Under[1] = [id |-> Len(executed) + 1, part |-> 1]
        BY <1>8 DEF Historic
    <2>2. Len(executed) \in Nat
        BY <1>8, LenProperties DEF Historic
    <2>3. sent[Len(executed) + 1].kind = "cmd"
        BY <2>2 DEF AllCommands
    <2>4. Under[1].id = Len(executed) + 1 /\ Under[1].part = 1
        BY <2>1
    <2>5. C!First.kind = "cmd"
        BY <2>3, <2>4, <1>4
    <2>6. C!Parsed = "more" /\ C!Have # C!First.size /\ Len(input) >= Limit
        BY <2>4, <2>5, <1>1, ParsedFacts
    <2>7. C!Have = IF Len(input) <= C!First.size THEN Len(input) ELSE C!First.size
        BY <2>4, <1>1, LoopFacts
    <2>8. Limit \in Nat
        BY CapsFacts
    <2> QED
        BY <2>5, <2>6, <2>7, <2>8, <1>4
<1>11. Historic(sent, Rest(Under, n), executed)
    BY <1>4, <1>5, <1>8, <1>10, RejectHistoric
<1>12. StreamInv'
    BY <1>1, <1>7, <1>9, <1>11 DEF StreamInv
<1>13. AnswerInv'
    <2>1. Answered(delivered \o output, executed)
        BY <1>1 DEF ConnInv, AnswerInv
    <2>2. PICK a : a = delivered \o output
        OBVIOUS
    <2>3. Answered(Append(a, [to |-> 0, what |-> "error"]), executed)
        BY <2>1, <2>2, <1>7, AnswerError
    <2>4. Answered(delivered' \o output', executed')
        BY <2>2, <2>3, <1>1, <1>3, <1>7
    <2> QED
        BY <2>4, <1>7 DEF AnswerInv
<1> QED
    BY <1>7, <1>12, <1>13 DEF ConnInv

\* The replies are sent.
LEMMA FlushConn ==
    ASSUME C!ConnectionAssumption, ConnInv, C!Flush PROVE ConnInv'
<1>1. /\ pc \in {"flush", "drain"} /\ delivered' = delivered \o output /\ output' = <<>>
      /\ pc' = IF pc = "flush" /\ input # <<>> THEN "loop"
               ELSE IF pc = "flush" THEN "drain" ELSE "recv"
      /\ selected' = selected /\ expired' = expired /\ input' = input
      /\ capacity' = capacity /\ executed' = executed
      /\ net' = net /\ ending' = ending /\ sent' = sent
    BY DEF C!Flush, C!client
<1>2. output \in Seq(Answer) /\ delivered \in Seq(Answer)
    BY DEF ConnInv, BufferInv
<1>3. /\ delivered' \in Seq(Answer) /\ output' \in Seq(Answer) /\ Len(output') = 0
      /\ Threshold \in Nat \ {0} /\ Limit \in Nat \ {0}
    BY <1>1, <1>2, ConcatProperties, CapsFacts
<1>4. BufferInv'
    BY <1>1, <1>3 DEF ConnInv, BufferInv
<1>5. PlaceInv'
    <2>1. pc' = "loop" => input' # <<>> /\ Len(output') < Threshold
        BY <1>1, <1>3
    <2>2. pc' = "drain" => Len(input') < Limit
        BY <1>1, <1>3
    <2>3. pc' = "recv" => Len(input') < Limit
        BY <1>1 DEF ConnInv, PlaceInv
    <2> QED
        BY <2>1, <2>2, <2>3, <1>1 DEF PlaceInv
<1>6. StreamInv'
    BY <1>1, StreamStays DEF ConnInv, Under
<1>7. AnswerInv'
    <2>1. Answered(delivered \o output, executed)
        BY <1>1 DEF ConnInv, AnswerInv
    <2>2. delivered' \o <<>> = delivered'
        BY <1>3, ConcatEmptySeq
    <2>3. delivered' \o output' = delivered \o output
        BY <2>2, <1>1
    <2> QED
        BY <2>1, <2>3, <1>1 DEF AnswerInv
<1> QED
    BY <1>4, <1>5, <1>6, <1>7 DEF ConnInv

\* The connection breaks in the middle of the replies.
LEMMA SendFailsConn ==
    ASSUME C!ConnectionAssumption, ConnInv, NEW n \in 0 .. Threshold, C!SendFails(n)
    PROVE  ConnInv'
<1>1. /\ delivered' = Received(delivered, output, n) /\ n < Len(output) /\ C!Closed
      /\ pc # "closed"
    BY DEF C!SendFails, Received
<1>2. n \in 0 .. Len(output)
    <2>1. Len(output) \in Nat /\ Threshold \in Nat
        BY CapsFacts, LenProperties DEF ConnInv, BufferInv
    <2> QED
        BY <1>1, <2>1
<1> QED
    BY <1>1, <1>2, ClosedConn

\* Every step keeps the invariant.
LEMMA NextConn ==
    ASSUME C!ConnectionAssumption PROVE ConnInv /\ [C!Next]_(C!vars) => ConnInv'
<1> SUFFICES ASSUME ConnInv, [C!Next]_(C!vars) PROVE ConnInv'
    OBVIOUS
<1>1. CASE UNCHANGED C!vars
    BY <1>1 DEF C!vars, ConnInv, BufferInv, PlaceInv, StreamInv, AnswerInv, Under
<1>2. ASSUME NEW r \in Request, C!Send(r) PROVE ConnInv'
    BY <1>2, SendConn
<1>3. CASE (\E how \in {"fin", "reset"} : C!End(how)) \/ C!DeadlinePasses
    BY <1>3, EndConn
<1>4. ASSUME NEW n \in 1 .. 2 * Limit, C!Recv(n) PROVE ConnInv'
    BY <1>4, RecvConn
<1>5. CASE C!NoRoom \/ C!RecvEnds \/ C!RecvTimesOut \/ C!Unknown \/ C!ReplyFails
    <2>1. C!Closed /\ delivered' = delivered /\ pc # "closed"
        BY <1>5 DEF C!NoRoom, C!RecvEnds, C!RecvTimesOut, C!Unknown, C!ReplyFails
    <2>2. 0 \in 0 .. Len(output) /\ delivered' = Received(delivered, output, 0)
        BY <2>1, NoneSent
    <2> QED
        BY <2>1, <2>2, ClosedConn
<1>6. CASE C!NeedMore \/ C!Incomplete
    BY <1>6, WaitConn
<1>7. CASE C!BecomesReplica
    BY <1>7, ReplicaConn
<1>8. CASE C!Execute
    BY <1>8, ExecuteConn
<1>9. CASE C!Reject
    BY <1>9, RejectConn
<1>10. CASE C!Flush
    BY <1>10, FlushConn
<1>11. ASSUME NEW n \in 0 .. Threshold, C!SendFails(n) PROVE ConnInv'
    BY <1>11, SendFailsConn
<1> QED
    BY <1>1, <1>2, <1>3, <1>4, <1>5, <1>6, <1>7, <1>8, <1>9, <1>10, <1>11
    DEF C!Next, C!Server

\* The invariant has the properties.
LEMMA ConnInvImplies ==
    ASSUME C!ConnectionAssumption
    PROVE  ConnInv => C!TypeOK /\ C!RepliesInOrder /\ C!InputBounded
<1> SUFFICES ASSUME ConnInv PROVE C!TypeOK /\ C!RepliesInOrder /\ C!InputBounded
    OBVIOUS
<1>1. /\ executed \in Seq(Nat) /\ Len(executed) \in Nat
      /\ DOMAIN executed = 1 .. Len(executed)
      /\ sent \in Seq(Request) /\ Len(sent) \in Nat /\ DOMAIN sent = 1 .. Len(sent)
      /\ Historic(sent, Under, executed)
    BY LenProperties DEF ConnInv, StreamInv, Flow, Historic
<1>2. capacity \in Nat /\ capacity <= Limit
    BY CapsFacts DEF ConnInv, BufferInv
<1>3. C!TypeOK
    <2>1. \A k \in DOMAIN executed : executed[k] \in DOMAIN sent
        BY <1>1 DEF Historic
    <2> QED
        BY <2>1, <1>1, <1>2 DEF ConnInv, BufferInv, C!TypeOK
<1>4. C!InputBounded
    BY <1>2 DEF ConnInv, PlaceInv, C!InputBounded
<1>5. \A i, j \in DOMAIN executed : i < j => executed[i] < executed[j]
    BY <1>1 DEF Historic
<1>6. \A k \in DOMAIN executed : C!CommandsUpTo(k) => executed[k] = k
    BY <1>1 DEF Historic, AllCommands, C!CommandsUpTo
<1>7. PICK lost \in Seq(Answer) :
          /\ Len(lost) <= Threshold /\ Answered(C!Answers \o lost, executed)
          /\ pc # "closed" => lost = <<>>
    <2>1. C!Answers \in Seq(Answer) /\ C!Answers \o <<>> = C!Answers
        BY ConcatProperties, ConcatEmptySeq DEF ConnInv, BufferInv, C!Answers
    <2>2. CASE pc # "closed"
        <3>1. Answered(C!Answers \o <<>>, executed)
            BY <2>1, <2>2 DEF ConnInv, AnswerInv, C!Answers
        <3>2. <<>> \in Seq(Answer) /\ Len(<<>>) <= Threshold
            BY CapsFacts
        <3> QED
            BY <3>1, <3>2
    <2>3. CASE pc = "closed"
        <3>1. delivered \o output = delivered
            BY <2>3, ConcatEmptySeq DEF ConnInv, AnswerInv, BufferInv
        <3> QED
            BY <2>3, <3>1 DEF ConnInv, AnswerInv, C!Answers
    <2> QED
        BY <2>2, <2>3
<1>8. C!Answers \in Seq(Answer) /\ C!Range(executed) = {executed[k] : k \in 1 .. Len(executed)}
    BY <1>1, ConcatProperties DEF ConnInv, BufferInv, C!Answers, C!Range
<1>9. C!Done = DoneIn(C!Answers)
    BY <1>8, LenProperties DEF C!Done, DoneIn
<1>10. PICK a : a = C!Answers
    OBVIOUS
<1>11. /\ {a[i].to : i \in DoneIn(a)} \subseteq C!Range(executed)
       /\ \A i, j \in DoneIn(a) : i < j => a[i].to < a[j].to
       /\ \A x \in C!Range(executed) \ {a[i].to : i \in DoneIn(a)} :
              /\ \E i \in 1 .. Len(lost) : x = lost[i].to
              /\ \A i \in DoneIn(a) : a[i].to < x
    <2>1. a \in Seq(Answer) /\ Answered(a \o lost, executed)
        BY <1>7, <1>8, <1>10
    <2>2. /\ \A i \in DoneIn(a) : \E k \in 1 .. Len(executed) : a[i].to = executed[k]
          /\ \A i, j \in DoneIn(a) : i < j => a[i].to < a[j].to
          /\ \A k \in 1 .. Len(executed) :
                 \/ \E i \in DoneIn(a) : a[i].to = executed[k]
                 \/ /\ \E i \in 1 .. Len(lost) : executed[k] = lost[i].to
                    /\ \A i \in DoneIn(a) : a[i].to < executed[k]
        BY <2>1, AnswersCut
    <2> QED
        BY <2>2, <1>8
<1>12. C!Replied = {a[i].to : i \in DoneIn(a)}
    BY <1>9, <1>10 DEF C!Replied
<1>13. Cardinality(C!Unreplied) <= Threshold
    <2>1. \A x \in C!Unreplied : \E i \in 1 .. Len(lost) : x = lost[i].to
        BY <1>11, <1>12 DEF C!Unreplied
    <2> QED
        BY <1>7, <2>1, FewLost, CapsFacts
<1>14. ASSUME pc # "closed" PROVE C!Unreplied = {}
    <2>1. 1 .. Len(lost) = {}
        BY <1>7, <1>14
    <2> QED
        BY <1>11, <1>12, <2>1 DEF C!Unreplied
<1>15. \A j \in C!Replied, k \in C!Unreplied : j < k
    BY <1>11, <1>12 DEF C!Unreplied
<1>16. /\ C!Replied \subseteq C!Range(executed)
       /\ \A i, j \in C!Done : i < j => C!Answers[i].to < C!Answers[j].to
    BY <1>9, <1>10, <1>11, <1>12
<1>17. C!RepliesInOrder
    <2>1. pc # "closed" => C!Unreplied = {}
        BY <1>14
    <2>2. C!Cardinality(C!Unreplied) <= Threshold
        BY <1>13 DEF C!Cardinality, Cardinality
    <2> QED
        BY <1>5, <1>6, <2>2, <1>15, <1>16, <2>1 DEF C!RepliesInOrder
<1> QED
    BY <1>3, <1>4, <1>17

\* server_reader and kvs_network_protocol: wherever TCP cuts and joins the requests,
\* and however replies are batched, no request is executed twice or out of order, as
\* long as all were commands the k-th execution is that of the k-th, each has its one
\* reply in the same order, a connection that is closed loses the replies of its last
\* executions only, at most a batch of them, and no peer makes the input buffer grow
\* past the limit; for requests and buffers of every size.
THEOREM AnswersInOrder ==
    ASSUME C!ConnectionAssumption
    PROVE  C!Spec => [](C!TypeOK /\ C!RepliesInOrder /\ C!InputBounded)
<1>1. C!Init => ConnInv
    BY InitConn
<1>2. ConnInv /\ [C!Next]_(C!vars) => ConnInv'
    BY NextConn
<1>3. ConnInv => C!TypeOK /\ C!RepliesInOrder /\ C!InputBounded
    BY ConnInvImplies
<1> QED
    BY <1>1, <1>2, <1>3, PTL DEF C!Spec
=============================================================================
