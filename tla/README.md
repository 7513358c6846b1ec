# A TLA+ verification of 91kvstore

91kvstore is a key-value server in C: a TCP byte stream is parsed into commands,
a command runs on one of four engines, writes are made durable in an append-only
file (AOF) or a snapshot, and a Primary replicates its data to a Replica, with
the snapshot travelling over RDMA and everything else over TCP.  The modules here
model the server from its configuration file to its engines; replication and
persistence, in which several steps, several processes or a crash have to fit
together, come first and carry the proofs.  Paths below are relative to the
directory above `tla/`; the repository is `src/`.

## 1. Inventory

| Component | State | Operations | Hard because |
| --- | --- | --- | --- |
| replication manager (`src/src/replication/replication.c`) | role, state (DISCONNECTED, HANDSHAKE, FULL_SYNC, CATCH_UP, ONLINE), the one slot (`snapshot_connection_fd`), `full_sync_id`, offset, AOF reader, snapshot reader or writer, `rdma_sync` | PING, PSYNC, FULLRESYNC_RDMA, READY, chunk, SNAPSHOT_ACK, ONLINE, catch-up commands, disconnect callbacks | two processes, two connections per round, completions out of order, stale connection requests, writes during the round |
| RDMA transport (`src/src/network/rdma_transport.c`) | listener, one held connection, one posted receive, one send, CM event channel, connect deadline | listen, accept, reject, connect, send, poll, disconnect, close | no flow control but the protocol's; deadline races the accept |
| coroutine network (`src/src/network/ntyco.c`) | per connection input and output buffers, stream flag | accept, connect, read loop, stream loop with MSG_PEEK probe, close callbacks | a connection in its stream loop reads nothing |
| engines (`src/src/engines/`) | array, hash table, red-black tree, skip list | SET, GET, MOD, DEL, EXIST | pointer structures; the array is bounded |
| commands and start (`src/src/kvstore.c`) | persistence mode, snapshot checkpoint | execute, AOF append, SAVE, recovery, snapshot installation | engine is changed before the log; three recovery paths |
| AOF (`src/src/persistence/aof.c`) | fd, offset | open, append (write, fsync), replay, reset to offset, readers | torn writes, offsets shared with snapshots and replication |
| snapshot store (`src/src/persistence/snapshot_store.c`) | temporary file, CRC, record count | save, validate, load | atomic replacement |
| snapshot transfer (`src/src/persistence/snapshot_io.c`) | reader and writer with `remaining` | open, read, write, commit, abort | chunk boundaries, missing directory sync |
| io_uring I/O (`src/src/persistence/uring_io.c`) | queue, in-flight requests | write batch, sync, abort | partial and out-of-order completions |
| codec (`src/src/protocol/codec.c`) | none | parse and encode commands | overflow, incomplete input |
| buffers (`src/src/network/buffer.c`) | input and output buffer of a connection | ensure space, consume | growth against the limit of a command |
| allocator (`src/src/memory/kvs_allocator.c`) | size classes with slabs, list of large objects | alloc, free, destroy | second frees; a destroy that stops half way |
| configuration (`src/src/config/config.c`) | fields seen so far | load line by line, validate | fields of another role in any order |
| mapped files, logging, clients | | | |

Interaction: the network layer calls the replication handlers for control lines
and, in the stream loop, the stream callback; the handlers use the AOF readers,
the snapshot store and the RDMA transport; on a Replica they call back into
`kvstore.c` to install a snapshot and to execute commands; every write of a
client reaches the AOF, from which the Primary's stream reads.  A process is one
thread, so handlers interleave only at coroutine switches and between processes.

What makes each part correct:

* replication: a Replica shows only states the Primary has had, in order; only
  the owner of the slot receives the snapshot; every round ends; the slot comes
  back; an ONLINE Replica keeps up;
* persistence: acknowledged writes survive a crash; a snapshot file is never
  half; a checkpoint and its log belong together;
* files: a write that reports success is complete, none goes on after its call,
  and a damaged snapshot is noticed before anything of it is used;
* connections: replies come in the order of the requests, input is bounded, every
  peer is answered or closed; RDMA resources are neither lost nor used after
  their release, whichever call fails;
* engines: each behaves like one and the same map; allocator: a block is handed
  out once;
* commands and start: the log can be repeated, a call that is refused has no effect,
  every return from `main` has released what was started or says that it could not.

The hazards of the code, each at its line and with the properties aimed at it,
are listed in `PROJECT.json`.

## 2. Modules

| Module | Models | Kind |
| --- | --- | --- |
| `KVEngine` | the engine as a bounded map with the execution status; encoding of commands into AOF cells; `Replay`, `ResetToOffset` | operators |
| `Replication` | Primary, any number of Replica processes, TCP, RDMA, failures | state machine |
| `ReplicatedLog` | what clients of a Replica may observe | abstract specification |
| `Persistence` | AOF append, SAVE, crash, recovery in the three modes | state machine |
| `DurableStore` | what clients may observe across crashes | abstract specification |
| `ReplicaInstall` | `Persistence` and the installation of a received snapshot, system call by system call, over lives as Replica and Primary | state machine |
| `UringIO` | the file writer and the kernel behind the queue | state machine |
| `FileWriter` | what a write and a sync promise | abstract specification |
| `SnapshotFile` | format, block-wise writer, two-pass reader | state machine |
| `ClientConnection` | one TCP connection from accept to close | state machine |
| `RdmaResources` | owners and release of RDMA resources when calls fail | state machine |
| `KVMap` | what every engine promises | abstract specification |
| `ArrayEngine`, `HashEngine`, `RBTree`, `SkipList` | the four engines | state machines |
| `Allocator` | the pool allocator | state machine |
| `Codec` | parser and encoder of the command format | operators, and bytes that arrive |
| `CommandExec` | the executor with its three callers | state machine |
| `ServerStart` | configuration, start, every return from `main` and every `exit()` | state machine |
| `MCReplication`, `MCPersistence`, `MCReplicaInstall`, `MCClientConnection` | instances for TLC | |
| `MCStorage`, `MCFileIO`, `MCNetwork`, `MCServer` | instances for TLC of several components each | |
| `ReplicationProof` | types and reader bounds, the slot and the snapshot's receiver, the log and its history, CM events and rounds | proofs |
| `ReplicationSyncProof` | the RDMA transfer of a round, the stream after it, the files of a Replica, the refinement of `ReplicatedLog` | proofs |
| `ReplayProof` | what `Replay` computes, for logs of every length | proofs |
| `PersistenceProof` | snapshots, checkpoints and recovery, the refinement of `DurableStore`; installation and promotion | proofs |
| `FileIOProof` | the file writer and its refinement of `FileWriter`; the snapshot file | proofs |
| `NetworkProof` | the owners of RDMA resources; the connection of a client | proofs |
| `StorageProof` | the allocator, the array engine and the hash engine | proofs |
| `ServerProof` | the log of the executor and its refusals; the configuration loader, the start and the ways out | proofs |

The last four MC modules hold components that share no state in the model.  Their
variable `part` is chosen by the initial state, and a behaviour is one of that
component alone.  Each extends one component with proofs (`Allocator`,
`UringIO`, `RdmaResources`, `CommandExec`), so that TLC evaluates the assumptions of
the proofs and the theorems are about the definitions the run checks; that
component rests in an initial state while another one runs.  The others are
instances, whose variables hold nothing meanwhile and whose assumptions are those of
the MC module (`StorageAssumption`, `FormatAssumption`, `NetworkAssumption`,
`ServerAssumption`).  A component that needs two sets of constants (many keys for the
shape of a tree, two values for what it stores) is there twice.

How the components meet: `Replication` uses `KVEngine` as its engine and one
ordered file as its AOF, `Persistence` the same with crashes; `KVMap` is that
engine with the return values of the functions, and each engine is shown to
implement it; `FileWriter` is the write and the sync of `Persistence`, and
`UringIO` is shown to implement it; `SnapshotFile` is the inside of the file that
`Persistence` replaces as a whole; `CommandExec` is the step that `Replication`
and `Persistence` call a command, over several engines; `Codec` decides what
`ClientConnection` calls a command.

### Replication and the code

One call of a handler or of a stream callback is one action, because nothing else
of the process runs until it returns.  A stream call that takes a CM event and
then also polls the completion queue is two actions: that poll may return
nothing, so both orders happen in the code.  `pm` and `pr` are the Primary's
`replication_manager` and its `rdma_sync` together with the RDMA connection;
`rm[r]`, `rr[r]`, `rs[r]` are manager, RDMA state and store of Replica `r`.
A Replica never reconnects (`ntyco_connector` connects once), so a Replica that
is started again is another element of `Replica`, and `OldAof` is what its
directory may hold from before.  A file is a sequence of cells so that blocks,
chunks and commands need not end together: a command has `CmdLen` cells, a
snapshot `SnapSize`, one AOF read returns at most `ReadCap`, one RDMA chunk at
most `ChunkCap`.

`full_sync_id` is drawn from 160 random bits (`getrandom`) in the code; in the model it is a
counter, so two rounds never share one.  This is the only place where
probability one is assumed.

| Code | Actions |
| --- | --- |
| `kvs_replication_frame_protocol` | `PrimaryPing`, `PrimaryPsync` |
| `kvs_replication_stream`, FULL_SYNC | `PrimaryAccept`, `PrimaryReject`, `PrimaryEstablished`, `PrimaryDisconnected`, `PrimaryCmError`, `PrimarySendNext`, `PrimaryDisconnect`, `PrimarySendDone`, `PrimaryRecv` |
| `kvs_replication_stream`, CATCH_UP and ONLINE | `PrimarySendAof`, `PrimaryNextRound`, `PrimaryCaughtUp`, `PrimaryResume` |
| `kvs_replication_upstream_*_protocol` | `ReplicaHandshake`, `ReplicaCatchUp`, `ReplicaControlLine` |
| `kvs_replication_upstream_stream` | `ReplicaResolveRoute` to `ReplicaRecvChunk` |
| `server_reader` and its close callbacks | `PrimaryPeerClosed`, `ReplicaPeerClosed`, `DropReplica`, `DropPrimary` |
| failing calls, process ends, link loss | `PrimaryFailure`, `ReplicaFailure`, `ReplicaInstallFailure`, `RdmaBreak`, `PrimaryRestart` |

A connection is closed with FIN or RST, which the peer notices once it has read
what lies in front.  A peer that vanishes without either is outside the model:
the code has no heartbeat (`src/README.md:318`), and such a peer would keep the
slot until the kernel gives up.

`hist` is a history variable: the Primary's engine at every AOF offset.

### Persistence and the code

`aof` and `snap` are the files as the kernel sees them, `synced`, `named` and
`entries` what a power loss may leave of them.  An append writes its cells one by one
(`kvs_uring_io_write_batch` resubmits what is left of a short write), then
syncs; SAVE writes a temporary file, syncs and closes it, renames it and syncs
the directory.  `Kill` leaves the kernel's view, `PowerLoss` any outcome the
missing syncs allow, for the cells of the AOF, for its name and for the name of the
snapshot.  `kvs_aof_open` creates the AOF (`aof.c:72`) and no code but SAVE
synchronises the directory it lies in; whether the fsync of an append makes the name
of the new file durable as well is left to the file system (ext4, XFS and Btrfs do it,
fsync(2) does not promise it).  A scenario says which: with `names` = FSYNC the first
sync of the AOF sets `named`, with DIRECTORY only that of SAVE does.  All files lie
in the working directory.  The process also ends by itself when an append fails
(`kvstore.c:500`), which is `Kill` at that point.  `Start` is
`kvs_server_run`: `Recovery` is snapshot alone, AOF alone, or snapshot plus the
AOF behind its checkpoint, and it is refused for a file that is not whole or a
torn command.

A Primary and a Replica run in the hybrid mode; a Replica resets both files at
every synchronisation (`Replication`), so `Persistence` is about the standalone
process and the Primary.

### ReplicaInstall and the code

`Replication` installs a snapshot in one step, because a restarted Replica starts
over.  `ReplicaInstall` extends `Persistence` with the steps of
`kvs_snapshot_writer_write`, `kvs_snapshot_writer_commit`,
`kvs_install_replication_snapshot` and `kvs_aof_reset_to_offset`, each of which
may fail, and lets a later life start as a Primary.  `entries` and `before` are
what a power loss may bring back of a rename without a directory sync and of an
ftruncate without an fsync; `torn` records that an installation did not end, or
that a power loss took what was not yet durable, the name of the AOF included.

### UringIO, FileWriter, SnapshotFile

`kvs_uring_io_write_batch` is `WriteBatch`, `Prepare`, `Submit`, `Receive` and, on
an error, `Cancel`, `Reap`, `Aborted` or `Exit`; `Kernel` completes requests in any
order, in part, or with an error.  The bytes of a request are taken from the batch
of the call that runs when the kernel writes them, since the caller reuses its
buffer: a request that outlived its call would write the wrong bytes, and
`Refines` would notice.

In `SnapshotFile` a number and the checksum are one cell each.  The checksum is
taken to differ for different contents.  `Damage` cuts, extends or alters the
file in one place; a save or a load may fail at any call.

### ClientConnection and RdmaResources

`server_reader` is `Recv`, then a loop of `Execute`, `Reject` and `Incomplete` with
`Flush`; a request is a run of cells that TCP may cut and join anywhere, and its
kind says what the parser makes of it, which is `Codec`'s subject.  The reader closes
the connection when a buffer cannot grow (`NoRoom`, `ReplyFails`), when a send fails or
times out, and when the peer ends; `Closed` drops the replies that wait in the output
buffer, whose requests have been executed.  A connection that turns out to be a Replica leaves this module for `Replication`.

`RdmaResources` keeps what the libraries have handed out (`held`) apart from the
program's pointers.  `Left` and `Undone` are the order in which a close and the
unwinding of a setup give back, up to the call that fails.  The transfer itself is
in `Replication`.

### Engines and allocator

Every engine has its memory as a count of blocks (`heap`), and each allocation of
a call may fail.  `reply` is the last call with what it returned, so that the
refinement of `KVMap` is about return values, too.  The four engines differ there:
`kvs_hash_del` returns -1 for a missing key, the others 1.  In `RBTree` a direction
stands for the left and the right form of each case.  Heights of skip list nodes
are any, not random.  The keys of `HashEngine` are sequences of characters other than
NUL, which is all that `kvs_fields_to_tokens` refuses, and a character is signed, as
gcc has it on x86 (the Makefile does not ask for anything else).  `Hash` is the sum and
the remainder of C, so that a key may have a negative index.  `Stray` is a call with
such a key: it uses a word in front of the table, and the model allows any return
value, a node linked there or unlinked, or the end of the process.  `stray` records it,
and the engine's properties are stated up to that call.

In `Allocator` a pointer is a region and a block; `FreeSmall` may be called again
with a pointer that was freed.  The backend SYSTEM only forwards to malloc and is
left out.

### Codec, CommandExec, ServerStart

`ParseCommand` follows `kvs_parse_command_limited` with its order of tests.
Numbers are binary, so that short inputs have numbers of several digits and
`SizeMax` is near.  The grammar it is compared with (`IsCommand`) is written
without a parser.

`CommandExec` has `kvs_execute_fields` with its early replies, the engines' status,
the decision to log, the reply and its length, for a client, for the Primary's
stream and for recovery, which repeats the log as a recursive function over its
length (`Recovered`).  `ServerStart` reduces a line of the file to what the
loader tells apart; `Startup` and `Takedown` are the orders in which components are
started and released.  `status` is what `main` would return.  The destroys of the
replication and of the allocator may fail; `main` reports the second.  `AppendFails`
and `EnginesLost` are the `exit()` of a serving process, which releases nothing.

## 3. Runs

| Run | Question | Result |
| --- | --- | --- |
| `replication_safety` | two Replicas, a client, one failure anywhere, old AOFs: ten safety properties and the refinement of `ReplicatedLog` | holds |
| `replication_online` | no failure, connect in time: does every Replica go ONLINE and keep up? | holds |
| `replication_rounds` | two Replicas compete, one failure, deadlines may expire: does every round end and the slot come back? | holds |
| `persistence` | three crashes anywhere in appends and SAVEs of the three modes, in five kinds of life: is everything acknowledged recovered, and `DurableStore` refined? | holds |
| `persistence_hybrid` | the hybrid mode with kills and power losses in one life | violated |
| `persistence_new_aof` | power losses on a file system that keeps names only by a sync of the directory: is a synchronised write kept? | violated |
| `replica_install` | two crashes anywhere in installations, appends and SAVEs of a directory that changes roles: could a Replica that follows be promoted, and which pairs of files do not belong together? | holds |
| `storage` | are the structures of the four engines and of the allocator intact after every sequence of calls and failures, is memory lost, is each engine a map? | holds |
| `file_io` | does the writer keep `FileWriter`'s promise and return, is a snapshot loaded exactly as saved or not at all? | holds |
| `network` | replies in order, at most one batch lost at a close, everything answered, every peer identified; RDMA resources owned whatever fails, and a new round after a failed one | holds |
| `server` | which files are accepted, what a failing start and an end of the service leave, whether the log repeats, what a refused call changes, what the parser accepts | holds |
| `connection_resync` | is a connection usable after a malformed request? | violated |

What the safety run shows, property by property:

* `ReplicaPrefix`, `Promotable`: the engine and the files of a following Replica
  are those of the Primary at the offset the Replica has reached, although
  commands are cut by reads, and although its AOF may come from elsewhere;
* `OnlineAccepted`: the offset in ONLINE is right whatever clients write meanwhile;
* `ReceiverReady`: no RDMA message arrives without a posted receive, although
  completions are polled in any order;
* `ReceivedPrefix`, `DisconnectAfterInstall`: the transfer is contiguous and ends
  after installation;
* `SnapshotToSlotOwner`, `SnapshotFrozen`: rounds do not disturb each other, also
  when the request of a Replica that has given up is accepted in a later round;
* `ReadersInBounds`: no read of the AOF or of the snapshot comes up short;
* `Refines`: clients of a Replica see the Primary's history, forwards.

In the runs of several components a property names the component's own parts, which
are stated and explained there: `EnginesIntact` is `Compact`, `Chained`, `Linked`,
`RedBlack` and `Levels`; `PoolSound` is `BlocksAccounted`, `ObjectsFit`, `LargeList`
and `RegionsOwned`; `NothingLeftBehind` includes `PendingExact` and
`ProgressInFile`; `SnapshotExact` is `NothingDropped`, `LoadExact`, `DamageRefused`
and `WholeAccepted`; `RepliesInOrder` includes `InputBounded`; `ResourcesOwned` is
`Reachable`, `NothingDangling` and `DestroyComplete`; `CleanExit` includes
`StandsOnLive`; `ParserExact` is `AcceptsCommands`, `VerdictFinal` and `RoundTrip`;
`RefusedUnchanged` includes that a client of a Replica only reads.  Each part has a
mutant of its own in `PROJECT.json`.

`RefusedUnchanged` is about one call of the executor: if it answers an error or returns
-1, it has changed nothing.  It does not say that a client whose connection is closed
can tell what was done: replies are batched, and a connection that is closed because
one request could not be answered, or because a send failed, drops the replies of
earlier writes.  What such a client knows is in `RepliesInOrder`: every reply it has is
that of an executed request, in order, and the executed requests without a reply are
the last ones and at most one batch (`Threshold`).

`CleanExit`: a return from `main` has released everything, except what
`kvs_replication_destroy` or `kvs_allocator_destroy` gave up, and the status is success
only if the allocator's memory was given back.  `exit()` (`kvstore.c:503`, `1270`, `1291`,
`1308`) releases nothing; the property says where it can happen: in service, with the AOF
open, and with a failure as the status.

`PromotedRecoverable` of `replica_install` is about the exceptions: the only starts
as a Primary that serve something else than the next start would are those behind
an installation that ended between the rename and the ftruncate, or behind a power
loss before both, or the name of a new AOF, were durable.  The start does not notice
those.

### The disagreements

* `persistence_hybrid`: `SAVE` stores `kvs_aof_get_offset()` as its checkpoint.
  After a kill between the write and the fsync of an append, the restarted
  process replays the command from the page cache and continues behind it, and
  nothing syncs it until the next append.  A SAVE and then a power loss leave a
  durable checkpoint behind the end of the AOF.  `kvs_aof_replay` accepts that
  (`aof.c:404-413`), `kvs_aof_open` appends at the shorter end, and the next
  acknowledged command lies in front of the checkpoint: every later recovery
  skips it.  `src/tests/README_RDMA.md:48-49` promises that a restart after a
  SAVE and further writes recovers both.  The passing run keeps kills and power
  losses apart in this mode, so it shows that the combination is needed.
* `persistence_new_aof`: a process starts in an empty directory, `kvs_aof_open` creates
  the AOF, a SET is written, synchronised and answered.  The directory has never been
  synchronised, so the file may have no name after a power loss, and the next start
  begins with an empty log.  The comment at `aof.c:374` has each command synchronised
  before success is returned.  SAVE does synchronise the directory
  (`snapshot_store.c:1158`), but in the aof mode there is none.  The passing run has
  lives whose file system keeps the name with the first fsync, or which meet no power
  loss; `SyncedIsKept` is proved for such lives (`SyncedWritesKept`).
* `connection_resync`: `kvs_network_protocol` answers a malformed request and
  consumes what the buffer holds (`kvstore.c:1119`).  When TCP delivers the end of
  that request later, the end is parsed as a request of its own and the next
  correct command gets an error.  `src/tests/test_standalone.py:743-759` states
  that the connection remains usable, which it does when the frame arrives in one
  piece.

Met while modelling, and not given a run of their own:

* `_hash` adds signed chars (`kvs_hash.c:34`), so that a key with bytes above 127, as in
  any UTF-8 text outside ASCII, can have a negative index, and `kvs_hash_set` uses it
  (`kvs_hash.c:152-154`), in front of the table.  `kvs_fields_to_tokens` refuses only NUL,
  and `src/README.md:164` excludes nothing else.  In `HashEngine` such a call is `Stray`;
  the run `storage` makes it, and what it checks of the hash engine holds up to it.
* `kvs_array_set` calls `kvs_array_mod` first and so overwrites, which
  `src/tests/test_standalone.py:525` expects; `src/README.md:131` says that SET creates
  and MOD changes.
* A received snapshot is renamed without a sync of the directory
  (`snapshot_io.c:231`); the AOF is then cut and synchronised and the data served.
  A power loss can bring back the old snapshot beside the new AOF, although the
  comment at `kvstore.c:1299-1300` rules out serving data that a recovery might not
  give.  `LosePower` in `ReplicaInstall` has this outcome.
* A failing release in the close callback leaves `rdma_sync.connection` set
  (`replication.c:1624`), and every later PSYNC answers EBUSY
  (`replication.c:1360-1365`) until the Primary is restarted, while
  `src/README.md:17` asks to restart the Replica.  `SyncAgain` holds in the instance
  whose releases succeed and fails in the other.
* Line commands are refused (`kvstore.c:1102`); `src/README.md:56` and
  `src/README.md:145` describe them as usable.
* A Primary without `bind_ip` passes `validate_config`, although its RDMA listener
  needs an address of its own.

### Bounds, and why they are enough

* Replication with one key and two values: the protocol moves whole commands and
  never compares keys; two values tell an old state from a new one.
* Persistence with two keys, two values, `Capacity = 1` and three commands: the
  engine is full after one SET, and SET of the other key succeeds only after a
  DEL, so a replay that skipped or repeated a command would be refused.
* `CmdLen = 2`, `ReadCap = 3`: a block ends inside a command, and a round needs
  more than one block.  `MaxAof = 4` in the replication runs: two commands, so that one can be in the
  snapshot and one behind it, or both behind it in different rounds.
* `SnapSize = 2`, `ChunkCap = 1`: a first and a last chunk; the last one fills
  the buffer.
* Two Replicas: the slot owner and one competitor, or a Replica and its
  restarted successor.  One failure per behaviour, at every state.
* `replication_rounds` uses one-cell commands and snapshots, since liveness
  needs the whole graph and cannot use symmetry.
* `MaxCrashes = 3` in `persistence`: a crash, a crash of what recovery left, and
  one after new work.  Its lives: the snapshot mode with both crashes, where the AOF
  does not exist; the aof mode with both crashes where fsync keeps names, and with
  kills alone where it does not; the hybrid mode with kills alone where fsync does not
  keep names, and with power losses alone where it does.
* `persistence_new_aof`: one key, two commands, one crash; the name is lost behind the
  first command.
* `replica_install`: two crashes, an upstream log of two commands and a snapshot of
  one cell: an installation over the files of another life, and a crash in each; both
  kinds of file system.
* `storage`: four keys for an array of three; three keys in one chain, one elsewhere, keys with
  negative characters whose index lies in the table and one whose index does not;
  eight keys in a tree, the fewest with which the fixup of a deletion
  moves up one level and then rotates, and four with two values; four keys
  of three heights; four regions, two classes, two failing calls.
* `file_io`: a queue of two, a request of at most two bytes and blocks of three, so
  that short writes and a second round happen; three calls and three faults, so
  that a call follows one that was aborted.  Snapshots of two engines with keys of
  length zero and one, in blocks of two cells: records end at every offset of a
  block.
* `network`: three requests of the sizes one, two, three, the limit and more than
  the limit; a buffer that doubles once; a batch of two replies.  Three RDMA
  connections, which are the two the manager can own and one to spare, and five
  failing calls.
* `server`: five lines are a complete Replica, and one more than the others need;
  an array that holds one key, two keys, three logged commands; input of up to 18
  bytes, which is one more than a command with two empty fields.
* Deadlock is not checked: with the bounds reached, with every Replica finished,
  a connection or a ring closed, or a process ended, the systems may stop.

`Replica` is a symmetry set in the safety run: no action names a Replica.

### Fairness

`FairSpec` asks weak fairness of the Primary's stream loop, of every other
connection's reader on the Primary, and of every Replica's upstream coroutine.
NtyCo resumes a coroutine whose descriptor is ready or whose sleep is over, and
every stream loop sleeps for a bounded time between calls; none of these
coroutines can be starved by another, since each call is short.  Clients, new
Replicas and failures are not fair.  `replication_online` sets `ConnectInTime`:
the connect deadline of three seconds does not pass while the Primary serves
this Replica; without it a Replica may always time out and `EventuallyOnline`
would be false.  The number of writes is bounded, so an endless stream of writes
that keeps a Replica in CATCH_UP is outside the run; the code has no throttle.

`file_io` asks weak fairness of the thread inside a call and of the kernel, which
ends every request it was given; callers need not call.  `network` asks it of a
connection's coroutine, which the scheduler resumes when its socket is ready or
its sleep is over, and of time, so that the deadline passes; nothing is asked of
the peer.  For `SyncAgain` it is asked of the close callback, which follows a
handler that failed in the same coroutine, and of a Replica that is started again
until its PSYNC is answered, which is what the operator is told to do.  The other
new runs state no liveness.

## 4. Proofs

TLAPS checks the following for every value of the constants under the assumptions
that the modules declare (`EngineAssumption` with `ReplicationAssumption` or
`PersistenceAssumption`; `UringAssumption`; `RdmaAssumption`; `ConnectionAssumption`;
`AllocatorAssumption`; `ArrayAssumption` and `HashAssumption`; `ExecAssumption`;
`LineAssumption`; `SnapshotFileAssumption`), which say that sizes and counts are natural numbers, that what
cannot be empty is not, and that a value standing for nothing is no value: any
number of Replicas, any sizes, any number of failures, logs and configuration files
of any length.
Three more hypotheses occur, each where it is needed:

* `NoFileAssumption`: the value that stands for a missing file is no file;
* `SafeLives == OneCrashInHybrid /\ SyncKeepsName`, in four theorems of
  `PersistenceProof`: a life in the hybrid mode meets kills or power losses and not
  both, and a life with an AOF that meets power losses has a file system on which the
  fsync of a new file keeps its name.  The passing run has the same conditions;
  `persistence_hybrid` shows that the theorems are false without the first, and
  `persistence_new_aof` without the second;
* `ReplicatingLives`, in the last part of `PersistenceProof`: one kind of crash in a
  life, on either kind of file system, and the mode is the hybrid
  one, which is the only one `validate_config` accepts for a Primary or a Replica.

Each inductive invariant below was checked with TLC on the run's instance before it
was proved.

### Replication

* `TypeCorrect` and `ReadersStayInBounds` (`ReplicationProof`).  The inductive
  invariant is `TypeInv == TypeOK /\ ReadersInBounds /\ ReaderOpen`.  Types alone
  are not inductive: that `remaining` stays a natural number when a block is
  subtracted needs the bound of the reader, and the bound needs `ReaderOpen`,
  which ties an open snapshot reader to the FULL_SYNC state and a sent
  count to a connection.
* `RoundUndisturbed` (`ReplicationProof`).  Every step keeps the slot, frees
  it or fills a free one; `SnapshotFrozen` follows for every step.
* `SnapshotOnlyToOwner` (`ReplicationProof`).  `Owned(id, r)` says that only `r`
  can hold the slot under `id`.  Every place where an id travels, the FULLRESYNC
  line (`LineIds`), the Replica's manager (`ReplicaIds`), the READY message
  (`ReadyIds`), carries an id owned by the Replica it belongs to.  `SlotInv` is the
  conjunction with `SlotId` and the property.
* `ReceiversAreReady`, `ReceivedFileIsPrefix`, `EndsAfterInstall`
  (`ReplicationSyncProof`, on the lemmas of `ReplicationProof`).  The last part of
  `ReplicationProof` says once what each handler leaves of the state and gathers the handlers into
  `AnyStep`, so that each invariant is proved over some twenty cases instead of all
  actions.  `CmInv` and `FreshInv` are the phases of an RDMA connection with the
  events that both ends have still to read, `RoundInv` the slot with its snapshot
  file, `LineInv` the lines of a handshake.  On them rest `WireInv`, which of the
  messages READY, chunk and ACK can be on its way, given what both ends have
  counted, and `FileInv`, what the Replica has written.  None of the three
  properties is inductive alone: that a receive is posted follows from the
  alternation of chunk and ACK, and that alternation survives a stale connection
  only because of the identifiers in `SlotInv`.  `SyncInv` is the conjunction.
* `ReplicasFollowTheLog`, `OnlineIsAccepted` (`ReplicationSyncProof`).  `Feeds(s, p, q)`
  says that the tokens `s` lead from AOF offset `p` to `q`: every cell is the AOF's
  cell at its offset and every ONLINE line names the offset at which it lies.
  `StreamInv` says that what lies in the socket leads from what the Replica has read
  to what the Primary's reader has sent, that the Replica's buffer is the AOF
  behind its own, and that its engine is `hist` at its offset.
* `ReplicasArePromotable`.  `StreamInv` also says that the Replica's AOF behind the
  checkpoint is the Primary's, and `ReplayRecovers` turns this into what a recovery
  of its files returns.
* `ImplementsLog`.  The refinement mapping takes a following Replica to the length of
  its AOF; every case of `AnyStep` is a `Commit`, `Install`, `Advance`, `Serve` or
  `Lose` step of `ReplicatedLog`, or a stutter.

### Replay

`Replay` is a recursive function, and the induction theorems of the library take an
operator as a parameter.  `ReplayProof` goes around this: the induction is over sets
of numbers (`NatSetInduction`, from well-foundedness), so that no operator has to be
instantiated.  It shows that iteration is well defined (`Iterated`), that a replay
ends at an offset where it cannot go on (`ReplayStays`), and from that what the
others need:

* `ReplayRecovers`: over a log of whole commands, each of which returns OK, the
  replay reaches the end with the engine the commands lead to;
* `ReplayExtended`, `ReplayAligned`: replays of a log and of a longer one;
* `ReplayWithHoles`: a log of which a power loss has punched cells is replayed to its
  end only where the whole log is, and with the same result.

### Persistence

* `SnapshotNeverHalf`.  `SnapInv` says that a file is whole and durable before it is
  renamed (`RenameSafe`), so every file a crash may leave under the official name is
  (`EntriesSafe`).
* `FilesTyped`.  `FileTypes` adds the length of the AOF to the types: a write that
  did not start at the end of the file would not keep `synced` inside it.
* `CheckpointsInLog`, `RestartsRecoverAll`.  `RecoveryInv` has `SyncedInv` (without
  kills, all but the append under way is durable), `CheckpointInv` (no checkpoint
  behind the bound that the crashes of this life allow), `NameInv`, `AppendInv` (the
  cells behind the offset are those of the command under way), `EntryInv` (a log that
  holds a synchronised cell has a durable name; under `SafeLives` this is what an
  fsync of the AOF gives) and `ServedInv`: from
  every snapshot that a crash may leave, the log without the append under way
  leads to what is served.
* `SurvivesCrashes`: the refinement of `DurableStore`.  What a crash may be recovered
  to (`SafeStates`) changes only at the last cell of a command, at its fsync, at the
  rename and at the directory's fsync, and there by the engine that is served; every
  other system call is a stutter.
* `SyncedWritesKept`: with the whole AOF synchronised and no command under way, all files
  that a crash may leave recover to what is served, by `EntryInv`, `CheckpointInv` and
  `ServedInv`.

### Installation

* `FollowersArePromotable`, `PromotedIsRecoverable` (`PersistenceProof`).  Steps that
  are shared with `Persistence` reuse its lemmas.  `StageInv` says what each stage of
  an installation has reached, `FollowInv` that a follower has executed a prefix of
  the Primary's log that ends at its offset.  The recovery of a Primary needs two
  facts, both only while the files are not torn: that the checkpoint lies inside
  whatever the AOF can become (`CheckInv`; a checkpoint behind the end would be
  accepted, and would hide later commands), and that the two files lead to what is
  served (`LeadsInv`).

### File writer

* `WriterLeavesNothingBehind` (`FileIOProof`).  The inductive invariant is
  `WriterInv == Types /\ BatchInv /\ PhaseInv /\ QueueInv /\ ProgressInFile`.  That
  nothing is left when a call returns is `PhaseInv`, which counts requests and
  completions at every place of the code, the abort path included.  It needs
  `QueueInv`: each request that waits or runs, and each completion, belongs to the
  block that asked for it and to the bytes still missing there, and a block has at
  most one of them.  Without that, the completion of an earlier round could move the
  progress of a later one.
* `WriterRefines`: `Spec => Refines`, the refinement of `FileWriter`.  The kernel's
  write of one request is a `Put` step because the request lies inside its block
  and blocks of a batch do not overlap; success is returned only with every block
  complete, and then `ProgressInFile` says that the file has the whole batch.

### Snapshot file

* `SnapshotsExact` (`FileIOProof`): what `SnapshotExact` says of the run's instance, for
  every size of the buffer and its blocks, every contents and every order of the
  records (under `SnapshotFileAssumption`, which the run `file_io` evaluates; keys are
  a finite set, since the parser bounds their length).  The argument has three parts.
  The batch of requests of a flush covers the buffer and puts every cell where a
  concatenation would (`FlushedIs`, by `BlockOf`), so `SnapSaving` can say that the
  temporary file, the buffer and the pieces to come are one file.  `Run` is the cells
  of the first records, and a file that holds a run holds every record of it behind the
  one before (`RunHolds`); a parse there gives that record and the end of it
  (`ParseNext`), so both passes stop exactly where records end (`SkipIs`), and
  `SnapLoading` can say that the engines hold the records in front of the cursor.  A cut,
  an extension or a change leaves a checksum that does not fit (`Spoiled`), and the
  first pass ends at a number wherever it goes (`SkipTyped`), so it compares that
  checksum or stops earlier.

### RDMA resources

* `ResourcesStayOwned` (`NetworkProof`).  `OwnInv` adds to the property that what is
  held of a connection could have been reached by some prefix of a setup or of a
  close (`ConnSound`): a queue pair has its completion queue, a memory region its
  protection domain, and the CM identifier its channel or the listener's.  That is
  what lets a second close go on where the first one stopped, and what makes the
  release of the listener safe.

### Client connection

* `AnswersInOrder` (`NetworkProof`, under `ConnectionAssumption`, which the run
  `network` evaluates).  `ConnInv == BufferInv /\ PlaceInv /\ StreamInv /\ AnswerInv`.
  What was sent and is not consumed is one stream, `input \o net`: `Flow` says that it
  is an end of what was sent, cell after cell, so that `recv` changes nothing and the
  handler consumes at its front.  What the buffer holds of the first request is then
  a count (`HaveIs`), by induction over the stream (`FirstRun`).  `Historic` says that
  all executions are of earlier requests than the front, and that the front is the
  first cell of the next request as long as all were commands: a rejection throws
  the buffer away, and this is why it cannot happen then.  `Answered` ties replies to
  executions: while the connection is open they are the same, and the batch that a
  close drops is the end of both.  The bound of the
  buffer needs that the first capacity, doubled again and again, meets the limit
  (`Caps`), which `BUFFER_LENGTH` and `KVS_MAX_CLIENT_COMMAND_BYTES` do.

### Allocator

* `PoolInvariant`, `PoolStaysSound` (`StorageProof`).
  `PoolInv == Types /\ Slabs /\ Owners /\ Lists /\ Large /\ Mapped`.  `Slabs` ties the
  bitmap, the free list and `used_count` of each slab to the objects that callers
  hold; `Owners` gives every object a block of the smallest class that fits, which
  no other has; `Lists` says that each slab is in the list of its class once.
  `Large` says that the links of the large regions are one sequence that begins at
  the head (`Chain`): links that agree with each other could still form a ring
  beside the list, which a destroy would never reach.  `Mapped` counts what is lost:
  a mapping is forgotten only when a call fails and the munmap that undoes it fails
  as well, two faults each.

### Engines

* `ArrayStaysCompact`, `ArrayImplementsMap` (`StorageProof`, under `ArrayAssumption`).
  `ArrayInv` is the structure with the memory that belongs to it: `Shape(t, n)` says
  that the first `n` slots hold different keys and the others nothing.  What the
  table holds is `ContentsOf(t, n)`, so that a call is one lemma about two tables.
  That the table is full exactly when the map is (the reply of SET depends on it)
  needs a count: the used slots and the stored keys are in bijection
  (`StoredCount`).  `Spec => Map!Spec` is the refinement of `KVMap`.
* `HashStaysChained`, `HashImplementsMap` (`StorageProof`, under `HashAssumption`).
  `Good(s, i)` says that the chain `s` has different keys, all with index `i`; a new
  head, a new value and an unlinked node keep it and change the value of one key
  (`InsertChain`, `ReplaceChain`, `UnlinkChain`).  `Sound(t)` is that of
  every chain, `MapOf(t)` what the table holds; a key is looked for in one chain
  only, which `OneChain` turns into a change of the map at one key.  Both theorems are
  about keys of any bytes and hold up to the first call with a key whose index lies in
  front of the table (`stray`).
* `PlainKeysNeverStray`: with keys of characters 1 to 127 that call never comes, and
  `Spec => Map!Spec` holds without reservation.  That `_hash`, a sum written as a
  recursive function, stays inside the table for them is proved by induction over sets
  of numbers.  Without the condition on the characters it is false: the run `storage`
  reaches `stray`.

Both assumptions are evaluated by the run `storage` for its instances
(`StorageAssumption`).

### Command execution

* `LogAlwaysRepeats` (`ServerProof`).  `ExecInv == Types /\ Repeats`: the log
  behind the snapshot's offset, replayed onto the snapshot, is accepted to its end and
  gives the engines that are served.  That one more command is one more step of the replay (`RecoveredAppend`) is
  proved by `NatSetInduction`, as in `ReplayProof`.
* `RefusalsChangeNothing`: `Spec => RefusedUnchanged`, an action property.  It rests on
  the room in the output buffer: a write is executed only where every reply it could
  get fits, so no failure of this call to answer follows a change.  The replies of
  earlier calls are the connection's, in `AnswersInOrder`.

### Server start

* `LoadsWhatIsInOrder` (`ServerProof`, under `LineAssumption`, which the run `server`
  evaluates).  While the loader reads, its fields are those of the lines so far, each
  from one line (`Loaded`); a refused line stays in the file for ever, so that what
  `validate_config` tests of the fields at the end is a statement about the file.
* `ExitsClean`.  `StartInv` gives each component its place in the order of the start
  (`Rank`): what is up is what comes before the rest of the list (`Starting`).
  On a return to `main` everything that is up is still on the list, each after what
  stands on it (`Stopping`), except for a replication manager or an allocator that gave
  up its destroy; the latter has set the status.  `exit()` is called by a process whose
  list of starts is empty.

### Only model-checked

* Liveness (`EventuallyOnline` and the others): fairness is outside the prover's reach.
* `RBTree`, `SkipList` and `Codec`: their walks are RECURSIVE operators, which the
  prover does not accept; with them `ParserExact`, and what `MCStorage` says of the
  tree and the list.
* `EnginesIntact`, `NoLeak` and the refinement of `KVMap` are proved for two of the four
  engines; for the tree and the skip list only the run shows them.

## 5. Not modelled

* A peer that vanishes without FIN or RST; the inside of the NtyCo scheduler,
  which is not in the repository; the accept loop beyond the accepted connection.
* CRC32 collisions; what a process does after a key has led it in front of the hash
  table (the other modules have the keys for which that does not happen); the SYSTEM backend of the allocator and
  its statistics; the encoder of value replies, which repeats that of a field.
* Endless streams of writes against a Replica in CATCH_UP.
* Display functions, self-test programs, logging, example clients.

## 6. Plan

Every safety invariant whose module the prover accepts is proved.  What could follow
is the tree and the skip list, with walks that are recursive functions, as the hash
of `HashEngine` is, in place of RECURSIVE operators.
