------------------------------ MODULE MCFileIO ------------------------------
(***************************************************************************)
(* The writer on io_uring and the snapshot file format for TLC.  A         *)
(* behaviour is one of one of the two, chosen by the initial state: the    *)
(* writer stays in its initial state when the format runs, and the         *)
(* variables of the format hold nothing when the writer runs.              *)
(***************************************************************************)
EXTENDS UringIO

CONSTANTS Absent, NoOffset                  \* of SnapshotFile

VARIABLES
    part,                                   \* what this behaviour is one of
    phase, image, failed, db, point, pieces, buffer, tmp, cursor, left, saved,
    damaged                                 \* SnapshotFile

formatVars == <<phase, image, failed, db, point, pieces, buffer, tmp, cursor,
                left, saved, damaged>>
allVars == <<part, vars, formatVars>>

None == "-"

B(off, len) == [off |-> off, len |-> len]

\* Two neighbouring blocks of which one needs more than one request, a block
\* elsewhere with an empty one, and the batches kvs_uring_io_write_batch refuses.
Batches == {
    <<B(0, 3), B(3, 1)>>,                   \* neighbours, one too long
    <<B(4, 1), B(4, 0)>>,                   \* an empty block
    <<>>,                                   \* nothing to do
    <<B(1, 2), B(2, 1)>>,                   \* overlapping
    <<B(4, 2)>>,                            \* beyond the end of off_t
    <<B(0, 1), B(1, 1), B(2, 1)>> }         \* more than the queue holds

\* A key is empty or has one character, a value has one or two; records end
\* inside, at the end and behind the end of a block of two cells.
Format == INSTANCE SnapshotFile WITH
    Engines <- 2, Key <- {<<>>, <<1>>}, Value <- {<<1>>, <<2, 1>>},
    Checkpoint <- {0, 3},
    BufferSize <- 4, BlockSize <- 2, SumCell <- 1, MaxFaults <- 1,
    pc <- phase, file <- image, faults <- failed

ASSUME FormatAssumption == Format!SnapshotFileAssumption

FileInit ==
    /\ Init
    /\ \/ /\ part = "uring"
          /\ phase = None /\ image = None /\ failed = None /\ db = None
          /\ point = None /\ pieces = None /\ buffer = None /\ tmp = None
          /\ cursor = None /\ left = None /\ saved = None /\ damaged = None
       \/ part = "format" /\ Format!Init

InUring == part = "uring" /\ UNCHANGED <<part, formatVars>>
InFormat == part = "format" /\ UNCHANGED <<part, vars>>

FileNext ==
    \/ InUring /\ Next
    \/ InFormat /\ Format!Next

\* The thread runs, and the kernel ends every request it was given.
FairFileSpec ==
    /\ FileInit /\ [][FileNext]_allVars
    /\ WF_allVars(InUring /\ Step)
    /\ WF_allVars(InUring /\ Kernel)

-----------------------------------------------------------------------------
(* The properties of the writer are those of UringIO.                       *)

\* Wherever the ends of the buffer and of its blocks fall in a record, a snapshot
\* is written without a gap; what a start loads is what was saved, with its
\* checkpoint, in the new format and in the old one; a file that was cut, extended
\* or altered never reaches an engine, and one that was not is never refused.
SnapshotExact ==
    part = "format" =>
        /\ Format!TypeOK
        /\ Format!NothingDropped
        /\ Format!LoadExact
        /\ Format!DamageRefused
        /\ Format!WholeAccepted
=============================================================================
