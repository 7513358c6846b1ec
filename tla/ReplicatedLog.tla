--------------------------- MODULE ReplicatedLog ----------------------------
(***************************************************************************)
(* What replication promises to the clients of a Replica: every state they *)
(* can read is a state the Primary has had, and while a Replica keeps its  *)
(* connection the states they read go forward along the Primary's history. *)
(* Nothing is said about how far behind a Replica is: replication is       *)
(* asynchronous.                                                           *)
(***************************************************************************)
EXTENDS Integers, Sequences

CONSTANTS
    Replica,     \* Replica processes
    NotServing   \* what a client reads from a Replica that answers LOADING

VARIABLES
    history,     \* the states of the Primary, oldest first
    position,    \* position[r]: how much of the history r has applied, or -1
    readable     \* readable[r]: the state clients of r read, or NotServing

absVars == <<history, position, readable>>

AbsInit ==
    /\ Len(history) = 1
    /\ position = [r \in Replica |-> -1]
    /\ readable = [r \in Replica |-> NotServing]

\* The Primary executes a write: the history grows, no earlier state changes.
Commit ==
    /\ Len(history') > Len(history)
    /\ \A i \in 1 .. Len(history) : history'[i] = history[i]
    /\ UNCHANGED <<position, readable>>

\* Replica r installs a snapshot; it does not serve reads yet.
Install(r) ==
    /\ position[r] = -1
    /\ readable[r] = NotServing
    /\ \E o \in 0 .. Len(history) - 1 : position' = [position EXCEPT ![r] = o]
    /\ UNCHANGED <<history, readable>>

\* Replica r applies more of the history; its readers move with it.
Advance(r) ==
    /\ position[r] # -1
    /\ \E o \in position[r] + 1 .. Len(history) - 1 :
          /\ position' = [position EXCEPT ![r] = o]
          /\ readable' = IF readable[r] = NotServing THEN readable
                         ELSE [readable EXCEPT ![r] = history[o + 1]]
    /\ UNCHANGED history

\* Replica r opens for reads.
Serve(r) ==
    /\ position[r] # -1
    /\ readable[r] = NotServing
    /\ readable' = [readable EXCEPT ![r] = history[position[r] + 1]]
    /\ UNCHANGED <<history, position>>

\* Replica r loses its connection and stops serving.
Lose(r) ==
    /\ position[r] # -1
    /\ position' = [position EXCEPT ![r] = -1]
    /\ readable' = [readable EXCEPT ![r] = NotServing]
    /\ UNCHANGED history

AbsNext ==
    \/ Commit
    \/ \E r \in Replica : Install(r) \/ Advance(r) \/ Serve(r) \/ Lose(r)

AbsSpec == AbsInit /\ [][AbsNext]_absVars
=============================================================================
