---------------------------- MODULE DurableStore ----------------------------
(***************************************************************************)
(* What persistence promises to clients.  safe is the set of states that   *)
(* a crash at this moment may be recovered to.  In the logged modes an     *)
(* acknowledged write is the only member of safe; in the snapshot mode an  *)
(* acknowledged SAVE is.  An operation that is under way, or that failed,  *)
(* may survive a crash or not.                                             *)
(***************************************************************************)
EXTENDS KVEngine

CONSTANT Down      \* what clients see of a process that does not run

VARIABLES
    logged,        \* every write goes to the AOF
    visible,       \* the state clients see
    safe           \* the states a crash may be recovered to

absVars == <<logged, visible, safe>>

AbsInit ==
    /\ logged \in BOOLEAN
    /\ visible = Down
    /\ safe = {EmptyDb}

\* Of the candidates, a crash may leave any nonempty subset recoverable.
SafeAmong(states) == safe' # {} /\ safe' \subseteq states

\* A write acknowledged to its client.
Write(c) ==
    /\ visible # Down
    /\ ExecStatus(visible, c) = "OK"
    /\ visible' = Execute(visible, c)
    /\ safe' = IF logged THEN {Execute(visible, c)} ELSE safe
    /\ UNCHANGED logged

\* A write that reaches the disk but is not acknowledged yet.
WriteUnderWay(c) ==
    /\ visible # Down
    /\ logged
    /\ UNCHANGED <<logged, visible>>
    /\ SafeAmong(safe \cup {Execute(visible, c)})

\* A SAVE acknowledged to its client.  Logged states need no SAVE.
Save ==
    /\ visible # Down
    /\ ~logged
    /\ safe' = {visible}
    /\ UNCHANGED <<logged, visible>>

\* A SAVE that is under way or has failed.
SaveUnderWay ==
    /\ visible # Down
    /\ ~logged
    /\ UNCHANGED <<logged, visible>>
    /\ SafeAmong(safe \cup {visible})

Crash ==
    /\ visible' = Down
    /\ SafeAmong(safe)
    /\ UNCHANGED logged

Recover ==
    /\ visible = Down
    /\ visible' \in safe
    /\ UNCHANGED <<logged, safe>>

AbsNext ==
    \/ \E c \in Command : Write(c) \/ WriteUnderWay(c)
    \/ Save \/ SaveUnderWay
    \/ Crash
    \/ Recover

AbsSpec == AbsInit /\ [][AbsNext]_absVars
=============================================================================
