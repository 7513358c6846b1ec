------------------------- MODULE MCClientConnection -------------------------
(* A client that waits for every reply, for TLC. *)
EXTENDS ClientConnection

R(kind, size, at) == [kind |-> kind, size |-> size, at |-> at]

\* A frame whose field is longer than it says, and a command.
OneBadFrame == {R("cmd", 1, 0), R("bad", 3, 2)}
=============================================================================
