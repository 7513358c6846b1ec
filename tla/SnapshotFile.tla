---------------------------- MODULE SnapshotFile ----------------------------
(***************************************************************************)
(* The contents of a snapshot file (src/persistence/snapshot_store.c): the *)
(* buffered writer that fills it, the format, and the load in two passes,  *)
(* of which the first only validates.  Persistence has the steps around    *)
(* it, from the temporary file to the fsync of the directory.              *)
(*                                                                         *)
(* A file is a run of cells.  A number is one cell and so is the CRC32,    *)
(* which is taken to tell any two contents apart: `sum' records where the  *)
(* checksum cell was written and for which contents.                       *)
(***************************************************************************)
EXTENDS Integers, Sequences, FiniteSets, SequencesExt

CONSTANTS
    Engines,     \* how many engines there are
    Key, Value,  \* strings: sequences of positive integers
    Absent,      \* the value of a key that is not stored
    Checkpoint,  \* AOF offsets a snapshot may stand for
    NoOffset,    \* no checkpoint (has_offset = 0)
    BufferSize,  \* SNAPSHOT_WRITE_BUFFER_SIZE, in cells
    BlockSize,   \* SNAPSHOT_WRITE_BLOCK_SIZE, in cells
    SumCell,     \* what the checksum cell looks like when read as a number
    MaxFaults    \* bound: failing calls and damages

SnapshotFileAssumption ==
    /\ Key \cup Value \subseteq Seq(Nat \ {0}) /\ IsFiniteSet(Key)
    /\ Absent \notin Value /\ NoOffset \notin Checkpoint
    /\ Checkpoint \subseteq Nat
    /\ {Engines, BufferSize, BlockSize} \subseteq Nat \ {0}
    /\ SumCell \in Nat /\ MaxFaults \in Nat

VARIABLES
    pc,         \* what the process is doing
    db,         \* its engines: engine -> key -> value
    point,      \* the checkpoint it knows
    pieces,     \* what snapshot_writer_append is still to be called with
    buffer,     \* the writer's buffer, up to buffered_bytes
    tmp,        \* the cells of the temporary file
    file,       \* the snapshot file: [cells, sum]
    cursor,     \* the second pass: cells taken
    left,       \* and records still to load
    saved,      \* history: what the file was written from
    damaged,    \* history: the file is no longer what was written
    faults

writer == <<pieces, buffer, tmp>>
reader == <<cursor, left>>
vars == <<pc, db, point, pieces, buffer, tmp, file, cursor, left, saved,
          damaged, faults>>

Engine == 1 .. Engines
Magic == 91
Nul == 0

NoFile == [cells |-> <<>>, sum |-> [at |-> 0, of |-> <<>>]]

Empty == [e \in Engine |-> [k \in Key |-> Absent]]

Stored(d) == {ek \in Engine \X Key : d[ek[1]][ek[2]] # Absent}

Fault == faults < MaxFaults /\ faults' = faults + 1

-----------------------------------------------------------------------------
(* Saving.                                                                  *)

\* The orders in which the traversals of the four engines, one after another,
\* may visit the records.
Orders(d) ==
    {s \in SetToSeqs(Stored(d)) :
        \A i, j \in DOMAIN s : i < j => s[i][1] <= s[j][1]}

\* snapshot_write_header.
Header(count, ck) ==
    <<Magic, 2, IF ck = NoOffset THEN 0 ELSE 1, count,
      IF ck = NoOffset THEN 0 ELSE ck>>

\* snapshot_write_record: record header, key and value are appended in turn.
RecordPieces(d, ek) ==
    LET k == ek[2]
        v == d[ek[1]][k]
    IN  <<<<ek[1], Len(k), Len(v)>>, k, v>>

\* snapshot_write_contents without its checksum.
Contents(d, ck, order) ==
    <<Header(Len(order), ck)>>
        \o FlattenSeq([i \in DOMAIN order |-> RecordPieces(d, order[i])])

\* A process that runs with any contents.
Init ==
    /\ pc = "running"
    /\ db \in [Engine -> [Key -> Value \cup {Absent}]]
    /\ point \in Checkpoint \cup {NoOffset}
    /\ pieces = <<>> /\ buffer = <<>> /\ tmp = <<>>
    /\ file = NoFile
    /\ cursor = 0 /\ left = 0
    /\ saved = [db |-> Empty, point |-> NoOffset]
    /\ damaged = FALSE /\ faults = 0

SaveBegin(order) ==
    /\ pc = "running"
    /\ pc' = "saving"
    /\ pieces' = Contents(db, point, order) \o <<<<SumCell>>>>
    /\ buffer' = <<>> /\ tmp' = <<>>
    /\ UNCHANGED <<db, point, file, saved, damaged, faults>> /\ UNCHANGED reader

Lesser(a, b) == IF a < b THEN a ELSE b

\* The requests of snapshot_writer_flush for n cells: [from, len] in the buffer.
Requests(n) ==
    {[from |-> f, len |-> Lesser(BlockSize, n - f)] :
        f \in {i * BlockSize : i \in 0 .. n} \cap 0 .. n - 1}

\* Mutant: next_file_offset is not moved.
BugFlushed(t, b) == b \o SubSeq(t, Len(b) + 1, Len(t))

\* The temporary file after the batch: every request writes at
\* next_file_offset, the end of what is written, plus its place in the buffer.
Flushed(t, b) ==
    [i \in 1 .. Len(t) + Len(b) |->
        IF i <= Len(t) THEN t[i]
        ELSE LET r == CHOOSE r \in Requests(Len(b)) :
                          i - Len(t) \in r.from + 1 .. r.from + r.len
             IN  b[r.from + (i - Len(t) - r.from)]]

\* Mutant: the whole piece is copied, whatever room there is.
BugCopied(piece, b) == Len(piece)

\* How much of a piece is copied behind b.
Copied(piece, b) == Lesser(Len(piece), BufferSize - Len(b))

\* One turn of the loop in snapshot_writer_append: a full buffer is written
\* out, then as much of the piece as fits is copied.
AppendStep ==
    /\ pc = "saving" /\ pieces # <<>>
    /\ LET piece == Head(pieces)
           full == Len(buffer) = BufferSize /\ piece # <<>>
           b == IF full THEN <<>> ELSE buffer
           n == Copied(piece, b)
       IN  /\ tmp' = IF full THEN Flushed(tmp, buffer) ELSE tmp
           /\ buffer' = b \o SubSeq(piece, 1, n)
           /\ pieces' = IF n = Len(piece) THEN Tail(pieces)
                        ELSE <<SubSeq(piece, n + 1, Len(piece))>> \o Tail(pieces)
    /\ UNCHANGED <<pc, db, point, file, saved, damaged, faults>>
    /\ UNCHANGED reader

\* The last flush; the temporary file becomes the snapshot.
SaveEnd ==
    /\ pc = "saving" /\ pieces = <<>>
    /\ LET cells == IF buffer = <<>> THEN tmp ELSE Flushed(tmp, buffer)
           body == SubSeq(cells, 1, Len(cells) - 1)
       IN  file' = [cells |-> cells, sum |-> [at |-> Len(cells), of |-> body]]
    /\ pc' = "running"
    /\ saved' = [db |-> db, point |-> point]
    /\ damaged' = FALSE
    /\ buffer' = <<>> /\ tmp' = <<>>
    /\ UNCHANGED <<db, point, pieces, faults>> /\ UNCHANGED reader

\* Preparing the writer, a batch or a later step of SAVE fails; the file stays.
SaveFails ==
    /\ pc = "saving" /\ Fault
    /\ pc' = "running"
    /\ pieces' = <<>> /\ buffer' = <<>> /\ tmp' = <<>>
    /\ UNCHANGED <<db, point, file, saved, damaged>> /\ UNCHANGED reader

\* The file is one of an earlier version, which knew no checkpoints.
OldVersion(order) ==
    /\ pc = "running" /\ file = NoFile
    /\ LET body == <<Magic, 1, Len(order)>>
                     \o FlattenSeq(Tail(Contents(db, NoOffset, order)))
       IN  file' = [cells |-> body \o <<SumCell>>,
                    sum |-> [at |-> Len(body) + 1, of |-> body]]
    /\ saved' = [db |-> db, point |-> NoOffset]
    /\ UNCHANGED <<pc, db, point, damaged, faults>>
    /\ UNCHANGED writer /\ UNCHANGED reader

-----------------------------------------------------------------------------
(* What may happen to the file.                                             *)

\* Between two lives of the process it loses its end, gets one, or a cell of it
\* changes.
Damage ==
    /\ pc = "starting" /\ file # NoFile /\ ~damaged /\ Fault
    /\ \/ \E n \in 0 .. Len(file.cells) - 1 :
             file' = [file EXCEPT !.cells = SubSeq(@, 1, n)]
       \/ \E b \in {Nul, 1, SumCell} : file' = [file EXCEPT !.cells = Append(@, b)]
       \/ \E i \in DOMAIN file.cells, b \in 0 .. 3 :
             /\ b # file.cells[i]
             /\ file' = [cells |-> [file.cells EXCEPT ![i] = b],
                         sum |-> IF i = file.sum.at THEN NoFile.sum ELSE file.sum]
    /\ damaged' = TRUE
    /\ UNCHANGED <<pc, db, point, saved>> /\ UNCHANGED writer /\ UNCHANGED reader

-----------------------------------------------------------------------------
(* Loading.  Every test of a length is one of snapshot_cursor_take.         *)

Bad == [ok |-> FALSE]

\* Mutant: the header of the old version is as long as that of the new one.
BugParseHeader(f) ==
    IF Len(f) < 5 \/ f[1] # Magic \/ f[2] \notin {1, 2} THEN Bad
    ELSE [ok |-> TRUE, count |-> IF f[2] = 1 THEN f[3] ELSE f[4],
          point |-> IF f[2] = 1 \/ f[3] = 0 THEN NoOffset ELSE f[5], next |-> 5]

\* snapshot_read_header; next is the cursor behind it.
ParseHeader(f) ==
    IF Len(f) < 2 \/ f[1] # Magic THEN Bad
    ELSE IF f[2] = 1 /\ Len(f) >= 3
         THEN [ok |-> TRUE, count |-> f[3], point |-> NoOffset, next |-> 3]
    ELSE IF f[2] = 2 /\ Len(f) >= 5 /\ f[3] \in {0, 1} /\ (f[3] = 0 => f[5] = 0)
         THEN [ok |-> TRUE, count |-> f[4],
               point |-> IF f[3] = 1 THEN f[5] ELSE NoOffset, next |-> 5]
    ELSE Bad

\* snapshot_check_record, and what snapshot_load_record reads of it.
ParseRecord(f, at) ==
    IF at + 3 > Len(f) \/ f[at + 1] \notin Engine THEN Bad
    ELSE LET mid == at + 3 + f[at + 2]
             end == mid + f[at + 3]
         IN  IF end > Len(f) \/ \E i \in at + 4 .. end : f[i] = Nul THEN Bad
             ELSE [ok |-> TRUE, engine |-> f[at + 1], next |-> end,
                   key |-> SubSeq(f, at + 4, mid), val |-> SubSeq(f, mid + 1, end)]

\* The end of n records, or -1.
Skip(f, at, n) ==
    LET end[i \in 0 .. n] ==
            IF i = 0 THEN at
            ELSE IF end[i - 1] < 0 THEN -1
            ELSE LET r == ParseRecord(f, end[i - 1]) IN IF r.ok THEN r.next ELSE -1
    IN  end[n]

\* The checksum is behind the records, right, and the last cell of the file.
Sealed(fl, at) ==
    /\ at + 1 = Len(fl.cells)
    /\ fl.sum = [at |-> at + 1, of |-> SubSeq(fl.cells, 1, at)]

\* Mutant: the checksum is not compared.
BugValidate(fl) ==
    LET h == ParseHeader(fl.cells) IN
    h.ok /\ h.count <= (Len(fl.cells) - h.next - 1) \div 3

\* snapshot_validate: the first pass.
Validate(fl) ==
    LET f == fl.cells
        h == ParseHeader(f)
    IN  /\ Len(f) >= 4
        /\ h.ok /\ Len(f) - h.next >= 1
        /\ h.count <= (Len(f) - h.next - 1) \div 3
        /\ LET end == Skip(f, h.next, h.count) IN end >= 0 /\ Sealed(fl, end)

Restart ==
    /\ pc = "running"
    /\ pc' = "starting"
    /\ db' = Empty /\ point' = NoOffset
    /\ UNCHANGED <<file, saved, damaged, faults>>
    /\ UNCHANGED writer /\ UNCHANGED reader

\* There is no file: the engines stay empty.
LoadNothing ==
    /\ pc = "starting" /\ file = NoFile
    /\ pc' = "running"
    /\ UNCHANGED <<db, point, file, saved, damaged, faults>>
    /\ UNCHANGED writer /\ UNCHANGED reader

\* The first pass succeeds, and the header is read again.
LoadBegin ==
    /\ pc = "starting" /\ file # NoFile /\ Validate(file)
    /\ pc' = "loading"
    /\ cursor' = ParseHeader(file.cells).next
    /\ left' = ParseHeader(file.cells).count
    /\ UNCHANGED <<db, point, file, saved, damaged, faults>> /\ UNCHANGED writer

LoadRefused ==
    /\ pc = "starting" /\ file # NoFile /\ ~Validate(file)
    /\ pc' = "failed"
    /\ UNCHANGED <<db, point, file, saved, damaged, faults>>
    /\ UNCHANGED writer /\ UNCHANGED reader

\* Mutant: every record goes to the first engine.
BugInserted(d, r) == [d EXCEPT ![1][r.key] = r.val]

\* snapshot_insert_record of a key that is not there yet.
Inserted(d, r) == [d EXCEPT ![r.engine][r.key] = r.val]

\* snapshot_load_record; a key that is already there is refused.
LoadRecord ==
    /\ pc = "loading" /\ left > 0
    /\ LET r == ParseRecord(file.cells, cursor) IN
       IF r.ok /\ r.key \in Key /\ db[r.engine][r.key] = Absent
       THEN /\ db' = Inserted(db, r)
            /\ cursor' = r.next /\ left' = left - 1
            /\ UNCHANGED pc
       ELSE pc' = "failed" /\ UNCHANGED <<db, cursor, left>>
    /\ UNCHANGED <<point, file, saved, damaged, faults>> /\ UNCHANGED writer

\* The mapping is released; the caller gets the checkpoint.
LoadEnd ==
    /\ pc = "loading" /\ left = 0
    /\ pc' = "running"
    /\ point' = ParseHeader(file.cells).point
    /\ cursor' = 0
    /\ UNCHANGED <<db, left, file, saved, damaged, faults>> /\ UNCHANGED writer

\* Mapping the file, an allocation or an insertion, or releasing the mapping
\* behind the last record fails.
LoadFails ==
    /\ pc \in {"starting", "loading"} /\ Fault
    /\ pc' = "failed"
    /\ UNCHANGED <<db, point, file, saved, damaged>>
    /\ UNCHANGED writer /\ UNCHANGED reader

\* The caller drops what was loaded: it ends, or a Replica empties its engines.
Cleared ==
    /\ pc = "failed"
    /\ pc' = "ended"
    /\ db' = Empty /\ cursor' = 0 /\ left' = 0
    /\ UNCHANGED <<point, file, saved, damaged, faults>> /\ UNCHANGED writer

Next ==
    \/ \E order \in Orders(db) : SaveBegin(order) \/ OldVersion(order)
    \/ AppendStep \/ SaveEnd \/ SaveFails
    \/ Damage
    \/ Restart \/ LoadNothing \/ LoadBegin \/ LoadRefused
    \/ LoadRecord \/ LoadEnd \/ LoadFails \/ Cleared

Spec == Init /\ [][Next]_vars

-----------------------------------------------------------------------------
(* Properties.                                                              *)

\* The variables have the shape of the store's state; the writer's buffer never
\* holds more than it has room for.
TypeOK ==
    /\ pc \in {"running", "saving", "starting", "loading", "failed", "ended"}
    /\ db \in [Engine -> [Key -> Value \cup {Absent}]]
    /\ point \in Checkpoint \cup {NoOffset}
    /\ Len(buffer) <= BufferSize
    /\ left \in Nat /\ cursor \in 0 .. Len(file.cells)

\* Wherever the ends of the buffer and of its blocks fall in a record, what is
\* in the temporary file, in the buffer and still to be appended make up one
\* complete snapshot: nothing is skipped, repeated or moved.
NothingDropped ==
    pc = "saving" =>
        \E order \in Orders(db) :
            tmp \o buffer \o FlattenSeq(pieces)
                = FlattenSeq(Contents(db, point, order)) \o <<SumCell>>

\* What a start loads is what was saved, with its checkpoint, in the new format
\* and in the old one, whatever the order of the records, and whatever failed
\* on the way in attempts of SAVE.
LoadExact ==
    pc = "loading" /\ left = 0 =>
        /\ db = saved.db
        /\ ParseHeader(file.cells).point = saved.point

\* A file that was cut, extended or altered never reaches an engine: the pass
\* that inserts begins only behind a pass that has seen the whole file.
DamageRefused == damaged => pc # "loading" /\ db = Empty

\* A file that was saved and not damaged is never refused: the second pass takes
\* exactly the cells the first one has seen, ending in front of the checksum.
WholeAccepted ==
    /\ pc = "starting" /\ file # NoFile /\ ~damaged => Validate(file)
    /\ pc = "loading" =>
           /\ left > 0 => ParseRecord(file.cells, cursor).ok
           /\ Skip(file.cells, cursor, left) + 1 = Len(file.cells)
=============================================================================
