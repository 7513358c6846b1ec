----------------------------- MODULE FileWriter -----------------------------
(***************************************************************************)
(* What kvs_uring_io_write_batch and kvs_uring_io_sync promise to the AOF  *)
(* and to the snapshot store, with no queue in sight: a call puts bytes of *)
(* its batch at their places and nothing anywhere else, succeeds only when *)
(* all of them are there, and has no effect after it has returned; a sync  *)
(* that succeeds has made every byte of the file durable.                  *)
(***************************************************************************)
EXTENDS Naturals

CONSTANTS
    Offset,     \* the offsets of the file
    NoByte      \* what an offset holds before it is written

VARIABLES
    file,       \* the file as the kernel shows it: offset -> byte
    durable,    \* what of it is known to be on the disk
    job,        \* the bytes the running call is to write, offset -> byte
    syncing,    \* the running call is a sync
    running,    \* a call is running
    result      \* what the last call returned: "none", "ok", "failed"

vars == <<file, durable, job, syncing, running, result>>

Init ==
    /\ file = [o \in Offset |-> NoByte]
    /\ durable = file
    /\ running = FALSE
    /\ result = "none"

\* A call with a valid batch, or a sync, begins.
Begin ==
    /\ ~running
    /\ running' = TRUE
    /\ result' = "none"
    /\ DOMAIN job' \subseteq Offset
    /\ UNCHANGED <<file, durable>>

\* A call that is refused, or has nothing to write, changes nothing.
Answer ==
    /\ ~running
    /\ result' \in {"ok", "failed"}
    /\ UNCHANGED <<file, durable, running>>

\* Bytes of the batch reach the file, at their places.
Put ==
    /\ running
    /\ \A o \in Offset :
           file'[o] # file[o] => o \in DOMAIN job /\ file'[o] = job[o]
    /\ UNCHANGED <<durable, job, syncing, running, result>>

\* The kernel writes the file out.
Flush ==
    /\ running
    /\ durable' = file
    /\ UNCHANGED <<file, job, syncing, running, result>>

Return ==
    /\ running
    /\ running' = FALSE
    /\ result' \in {"ok", "failed"}
    /\ result' = "ok" => IF syncing THEN durable = file
                         ELSE \A o \in DOMAIN job : file[o] = job[o]
    /\ UNCHANGED <<file, durable, job, syncing>>

Next == Begin \/ Answer \/ Put \/ Flush \/ Return

Spec == Init /\ [][Next]_vars
=============================================================================
