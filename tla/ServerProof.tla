---------------------------- MODULE ServerProof -----------------------------
(***************************************************************************)
(* The server process: the executor, for any engines, keys, values and     *)
(* sizes and any number of requests of clients, of the Primary and of      *)
(* restarts, and the start, for any configuration file and any component   *)
(* that fails.                                                             *)
(*                                                                         *)
(* The executor can repeat what it logs.  The replay of the log is a       *)
(* recursive function over its commands.  RecoveredAppend says what one    *)
(* more command does to it, and RecoveredType that it ends in engines;     *)
(* both are inductions over the length, for which a set of numbers stands  *)
(* (NatSetInduction).                                                      *)
(*                                                                         *)
(* The loader's fields are those of the lines read so far (Loaded), which  *)
(* makes the tests of validate_config a property of the file.  A start is  *)
(* a sequence in the order of Rank, a way out one that releases all that   *)
(* is up (Stopping).                                                       *)
(***************************************************************************)
EXTENDS CommandExec, WellFoundedInduction, TLAPS

-----------------------------------------------------------------------------
(* Induction.                                                               *)

\* A set that holds 0 and the successor of each of its numbers holds them all.
LEMMA NatSetInduction ==
    ASSUME NEW S, 0 \in S, \A n \in Nat : n \in S => n + 1 \in S
    PROVE  \A n \in Nat : n \in S
<1> DEFINE T == Nat \ S
           below == OpToRel(<, Nat)
<1> SUFFICES ASSUME T # {} PROVE FALSE
    OBVIOUS
<1>1. PICK x \in T : \A y \in T : ~ (<<y, x>> \in below)
    <2>1. T \subseteq Nat
        OBVIOUS
    <2>2. IsWellFoundedOn(below, Nat)
        BY NatLessThanWellFounded
    <2> HIDE DEF T, below
    <2> QED
        BY <2>1, <2>2, WFMin
<1>2. x # 0 /\ x - 1 \in Nat /\ x - 1 < x
    OBVIOUS
<1>3. <<x - 1, x>> \in below
    BY <1>2 DEF OpToRel
<1>4. x - 1 \notin T
    BY <1>1, <1>3
<1> QED
    BY <1>2, <1>4

-----------------------------------------------------------------------------
(* The replay of a log.                                                     *)

Database == [Engine -> [Key -> Value \cup {Absent}]]

Start(d) == [ok |-> TRUE, db |-> d]

\* f has the states of the replay after each of the first N commands.
IsReplay(f, d, log, N) ==
    f = [n \in 0 .. N |-> IF n = 0 THEN Start(d) ELSE Recover(f[n - 1], log[n])]

\* The same, state by state.
LEMMA ReplaySteps ==
    ASSUME NEW f, NEW d, NEW log, NEW N \in Nat, IsReplay(f, d, log, N)
    PROVE  /\ DOMAIN f = 0 .. N
           /\ f[0] = Start(d)
           /\ \A n \in 0 .. N : n # 0 => f[n] = Recover(f[n - 1], log[n])
<1>1. 0 \in 0 .. N
    OBVIOUS
<1> QED
    BY <1>1 DEF IsReplay

\* The states of the replay exist.
LEMMA ReplayExists ==
    ASSUME NEW d, NEW log
    PROVE  \A N \in Nat : \E f : IsReplay(f, d, log, N)
<1> DEFINE S == {N \in Nat : \E f : IsReplay(f, d, log, N)}
<1>1. 0 \in S
    <2>1. PICK f : f = [n \in 0 .. 0 |-> Start(d)]
        OBVIOUS
    <2>2. \A n \in 0 .. 0 : n = 0
        OBVIOUS
    <2>3. IsReplay(f, d, log, 0)
        BY <2>1, <2>2 DEF IsReplay
    <2> QED
        BY <2>3
<1>2. ASSUME NEW N \in Nat, N \in S PROVE N + 1 \in S
    <2>1. PICK f : IsReplay(f, d, log, N)
        BY <1>2
    <2>2. /\ f[0] = Start(d)
          /\ \A n \in 0 .. N : n # 0 => f[n] = Recover(f[n - 1], log[n])
        BY <2>1, ReplaySteps
    <2>3. PICK h : h = [n \in 0 .. N + 1 |-> IF n <= N THEN f[n] ELSE Recover(f[N], log[N + 1])]
        OBVIOUS
    <2>4. \A n \in 0 .. N : h[n] = f[n]
        BY <2>3
    <2>5. h[N + 1] = Recover(f[N], log[N + 1])
        BY <2>3
    <2>6. ASSUME NEW n \in 0 .. N + 1
          PROVE  h[n] = IF n = 0 THEN Start(d) ELSE Recover(h[n - 1], log[n])
        <3>1. CASE n = 0
            BY <2>2, <2>4, <3>1
        <3>2. CASE n = N + 1
            <4>1. n # 0 /\ n - 1 = N /\ N \in 0 .. N
                BY <3>2
            <4> QED
                BY <2>4, <2>5, <3>2, <4>1
        <3>3. CASE n # 0 /\ n # N + 1
            <4>1. n \in 0 .. N /\ n - 1 \in 0 .. N
                BY <3>3
            <4> QED
                BY <2>2, <2>4, <3>3, <4>1
        <3> QED
            BY <3>1, <3>2, <3>3
    <2>7. h = [n \in 0 .. N + 1 |-> h[n]]
        BY <2>3
    <2>8. IsReplay(h, d, log, N + 1)
        BY <2>6, <2>7 DEF IsReplay
    <2> QED
        BY <2>8
<1> HIDE DEF S
<1>3. \A N \in Nat : N \in S
    BY <1>1, <1>2, NatSetInduction
<1> QED
    BY <1>3 DEF S

\* Replays of two logs agree as long as the logs do.
LEMMA ReplayAgrees ==
    ASSUME NEW d, NEW a, NEW b, NEW M \in Nat, NEW N \in Nat, M <= N,
           \A n \in 1 .. M : a[n] = b[n],
           NEW f, NEW h, IsReplay(f, d, a, M), IsReplay(h, d, b, N)
    PROVE  f[M] = h[M]
<1> DEFINE S == {n \in Nat : n <= M => f[n] = h[n]}
<1>1. /\ f[0] = Start(d) /\ h[0] = Start(d)
      /\ \A n \in 0 .. M : n # 0 => f[n] = Recover(f[n - 1], a[n])
      /\ \A n \in 0 .. N : n # 0 => h[n] = Recover(h[n - 1], b[n])
    BY ReplaySteps
<1>2. 0 \in S
    BY <1>1
<1>3. ASSUME NEW n \in Nat, n \in S PROVE n + 1 \in S
    <2> SUFFICES ASSUME n + 1 <= M PROVE f[n + 1] = h[n + 1]
        OBVIOUS
    <2>1. n + 1 \in 0 .. M /\ n + 1 \in 0 .. N /\ n + 1 \in 1 .. M /\ n + 1 # 0
          /\ (n + 1) - 1 = n /\ n <= M
        OBVIOUS
    <2>2. f[n] = h[n]
        BY <1>3, <2>1
    <2> QED
        BY <1>1, <2>1, <2>2
<1> HIDE DEF S
<1>4. \A n \in Nat : n \in S
    BY <1>2, <1>3, NatSetInduction
<1>5. M \in S
    BY <1>4
<1> QED
    BY <1>5 DEF S

\* Recovered is the last state of the replay.
LEMMA RecoveredIs ==
    ASSUME NEW d, NEW log, Len(log) \in Nat
    PROVE  \E f : IsReplay(f, d, log, Len(log)) /\ Recovered(d, log) = f[Len(log)]
<1> DEFINE r == CHOOSE f : IsReplay(f, d, log, Len(log))
<1>1. \E f : IsReplay(f, d, log, Len(log))
    BY ReplayExists
<1>2. IsReplay(r, d, log, Len(log))
    BY <1>1
<1>3. Recovered(d, log) = r[Len(log)]
    BY DEF Recovered, IsReplay, Start
<1> QED
    BY <1>2, <1>3

\* Nothing to replay.
LEMMA RecoveredEmpty ==
    ASSUME NEW d PROVE Recovered(d, <<>>) = Start(d)
<1>1. Len(<<>>) = 0
    OBVIOUS
<1>2. PICK f : IsReplay(f, d, <<>>, Len(<<>>)) /\ Recovered(d, <<>>) = f[Len(<<>>)]
    BY <1>1, RecoveredIs
<1>3. IsReplay(f, d, <<>>, 0) /\ Recovered(d, <<>>) = f[0]
    BY <1>1, <1>2
<1> QED
    BY <1>3, ReplaySteps

\* One more command.
LEMMA RecoveredAppend ==
    ASSUME NEW d, NEW log \in Seq(Request), NEW r \in Request
    PROVE  Recovered(d, Append(log, r)) = Recover(Recovered(d, log), r)
<1>1. PICK b : b = Append(log, r)
    OBVIOUS
<1>2. PICK N \in Nat : N = Len(log)
    OBVIOUS
<1>3. /\ Len(b) = N + 1 /\ Len(b) \in Nat /\ b[N + 1] = r
      /\ \A n \in 1 .. N : log[n] = b[n]
    BY <1>1, <1>2
<1>4. PICK f : IsReplay(f, d, log, N) /\ Recovered(d, log) = f[N]
    BY <1>2, RecoveredIs
<1>5. PICK h : IsReplay(h, d, b, N + 1) /\ Recovered(d, b) = h[N + 1]
    BY <1>3, RecoveredIs
<1>6. N + 1 \in Nat /\ N <= N + 1 /\ N + 1 \in 0 .. N + 1 /\ N + 1 # 0 /\ (N + 1) - 1 = N
    OBVIOUS
<1>7. f[N] = h[N]
    BY <1>3, <1>4, <1>5, <1>6, ReplayAgrees
<1>8. h[N + 1] = Recover(h[N], b[N + 1])
    BY <1>5, <1>6, ReplaySteps
<1> QED
    BY <1>1, <1>3, <1>4, <1>5, <1>7, <1>8

-----------------------------------------------------------------------------
(* Types.                                                                   *)

\* A request of an engine.
LEMMA KnownRequest ==
    ASSUME NEW r \in Request, Known(r)
    PROVE  /\ r.engine \in Engine /\ r.key \in Key /\ r.val \in Value
           /\ r.count \in 2 .. 3 /\ r.nul = FALSE
<1>1. CASE r \in [engine : Engine, op : Op, key : Key, val : Value, count : 2..3, nul : {FALSE}]
    BY <1>1
<1>2. CASE r \in [engine : {Absent}, op : {"PING", "SAVE", "OTHER"}, key : {Absent},
                  val : {Absent}, count : 1..2, nul : BOOLEAN]
    BY <1>2 DEF Known, Op
<1> QED
    BY <1>1, <1>2 DEF Request

\* A command makes engines of engines.
LEMMA AppliedType ==
    ASSUME NEW d \in Database, NEW r \in Request, Known(r)
    PROVE  Applied(d, r) \in Database
<1>1. r.engine \in Engine /\ r.key \in Key /\ r.val \in Value
    BY KnownRequest
<1>2. PICK v \in Value \cup {Absent} : v = IF r.op = "DEL" THEN Absent ELSE r.val
    BY <1>1
<1>3. Applied(d, r) = [d EXCEPT ![r.engine] = [d[r.engine] EXCEPT ![r.key] = v]]
    BY <1>2 DEF Applied
<1>4. [d[r.engine] EXCEPT ![r.key] = v] \in [Key -> Value \cup {Absent}]
    BY <1>1 DEF Database
<1> QED
    BY <1>1, <1>3, <1>4 DEF Database

ReplayState == [ok : BOOLEAN, db : Database]

\* A recovered command leaves engines behind.
LEMMA RecoverType ==
    ASSUME NEW s \in ReplayState, NEW r \in Request
    PROVE  Recover(s, r) \in ReplayState
<1>1. s.db \in Database
    BY DEF ReplayState
<1>2. CASE s.ok /\ ~r.nul /\ Known(r) /\ r.op # "GET" /\ r.count = Arity(r.op) /\ Status(s.db, r) = "OK"
    <2>1. Applied(s.db, r) \in Database
        BY <1>1, <1>2, AppliedType
    <2> QED
        BY <1>2, <2>1 DEF Recover, ReplayState
<1>3. CASE ~(s.ok /\ ~r.nul /\ Known(r) /\ r.op # "GET" /\ r.count = Arity(r.op) /\ Status(s.db, r) = "OK")
    <2>1. Recover(s, r) = [ok |-> FALSE, db |-> s.db]
        BY <1>3 DEF Recover
    <2> QED
        BY <1>1, <2>1 DEF ReplayState
<1> QED
    BY <1>2, <1>3

\* A replay ends with engines.
LEMMA RecoveredType ==
    ASSUME NEW d \in Database, NEW log \in Seq(Request)
    PROVE  Recovered(d, log) \in ReplayState
<1>1. PICK N \in Nat : N = Len(log)
    OBVIOUS
<1>2. \A n \in 1 .. N : log[n] \in Request
    BY <1>1
<1>3. PICK f : IsReplay(f, d, log, N) /\ Recovered(d, log) = f[N]
    BY <1>1, RecoveredIs
<1>4. /\ f[0] = Start(d)
      /\ \A n \in 0 .. N : n # 0 => f[n] = Recover(f[n - 1], log[n])
    BY <1>3, ReplaySteps
<1> DEFINE S == {n \in Nat : n <= N => f[n] \in ReplayState}
<1>5. 0 \in S
    <2>1. Start(d) \in ReplayState
        BY DEF Start, ReplayState
    <2> QED
        BY <1>4, <2>1
<1>6. ASSUME NEW n \in Nat, n \in S PROVE n + 1 \in S
    <2> SUFFICES ASSUME n + 1 <= N PROVE f[n + 1] \in ReplayState
        OBVIOUS
    <2>1. n + 1 \in 0 .. N /\ n + 1 \in 1 .. N /\ n + 1 # 0 /\ (n + 1) - 1 = n /\ n <= N
        OBVIOUS
    <2>2. f[n] \in ReplayState
        BY <1>6, <2>1
    <2>3. f[n + 1] = Recover(f[n], log[n + 1])
        BY <1>4, <2>1
    <2> QED
        BY <1>2, <2>1, <2>2, <2>3, RecoverType
<1> HIDE DEF S
<1>7. \A n \in Nat : n \in S
    BY <1>5, <1>6, NatSetInduction
<1>8. N \in S
    BY <1>7
<1> QED
    BY <1>3, <1>8 DEF S

-----------------------------------------------------------------------------
(* The inductive invariant: the types, and the log.                         *)

Types ==
    /\ role \in {"standalone", "primary", "replica"}
    /\ mode \in {"snapshot", "aof", "hybrid"}
    /\ alive \in BOOLEAN /\ online \in BOOLEAN
    /\ db \in Database
    /\ aof \in Seq(Request) /\ Len(aof) <= MaxLog
    /\ snapshot \in [db : Database, offset : Nat] /\ snapshot.offset <= Len(aof)

\* The log leads from the snapshot to the engines of the process.
Repeats ==
    alive /\ mode # "snapshot" /\ (role = "replica" => online) =>
        Restarted = Start(db)

ExecInv == Types /\ Repeats

\* The commands behind the snapshot, when one more is logged.
LEMMA Behind ==
    ASSUME NEW log \in Seq(Request), NEW r \in Request, NEW k \in 0 .. Len(log)
    PROVE  /\ SubSeq(log, k + 1, Len(log)) \in Seq(Request)
           /\ SubSeq(Append(log, r), k + 1, Len(Append(log, r)))
                  = Append(SubSeq(log, k + 1, Len(log)), r)
<1>1. PICK N \in Nat : N = Len(log)
    OBVIOUS
<1>2. PICK b : b = Append(log, r)
    OBVIOUS
<1>3. b \in Seq(Request) /\ Len(b) = N + 1 /\ b[N + 1] = r /\ \A n \in 1 .. N : b[n] = log[n]
    BY <1>1, <1>2
<1>4. PICK t : t = SubSeq(log, k + 1, N)
    OBVIOUS
<1>5. PICK u : u = SubSeq(b, k + 1, N + 1)
    OBVIOUS
<1>6. /\ t \in Seq(Request) /\ Len(t) = N - k /\ N - k \in Nat
      /\ \A i \in 1 .. N - k : t[i] = log[i + k]
    <2>1. N - (k + 1) + 1 = N - k /\ N - k \in Nat /\ k \in Nat
        BY <1>1
    <2>2. t = [i \in 1 .. (N - (k + 1) + 1) |-> log[i + (k + 1) - 1]]
        BY <1>1, <1>4
    <2>3. \A i \in 1 .. N - k : i + (k + 1) - 1 = i + k /\ i + k \in 1 .. N
        BY <1>1, <2>1
    <2>4. t = [i \in 1 .. N - k |-> log[i + k]]
        BY <2>1, <2>2, <2>3
    <2>5. \A i \in 1 .. N - k : log[i + k] \in Request
        BY <1>1, <2>3
    <2> QED
        BY <2>1, <2>4, <2>5
<1>7. /\ u \in Seq(Request) /\ Len(u) = N - k + 1
      /\ \A i \in 1 .. N - k + 1 : u[i] = b[i + k]
    <2>1. (N + 1) - (k + 1) + 1 = N - k + 1 /\ N - k + 1 \in Nat /\ k \in Nat
        BY <1>1
    <2>2. u = [i \in 1 .. ((N + 1) - (k + 1) + 1) |-> b[i + (k + 1) - 1]]
        BY <1>1, <1>3, <1>5
    <2>3. \A i \in 1 .. N - k + 1 : i + (k + 1) - 1 = i + k /\ i + k \in 1 .. N + 1
        BY <1>1, <2>1
    <2>4. u = [i \in 1 .. N - k + 1 |-> b[i + k]]
        BY <2>1, <2>2, <2>3
    <2>5. \A i \in 1 .. N - k + 1 : b[i + k] \in Request
        BY <1>3, <2>3
    <2> QED
        BY <2>1, <2>4, <2>5
<1>8. PICK v : v = Append(t, r)
    OBVIOUS
<1>9. /\ v \in Seq(Request) /\ Len(v) = N - k + 1 /\ v[N - k + 1] = r
      /\ \A i \in 1 .. N - k : v[i] = t[i]
    BY <1>6, <1>8
<1>10. u = v
    <2>1. ASSUME NEW i \in 1 .. N - k + 1 PROVE u[i] = v[i]
        <3>1. CASE i = N - k + 1
            <4>1. i + k = N + 1
                BY <1>1, <3>1
            <4> QED
                BY <1>3, <1>7, <1>9, <3>1, <4>1
        <3>2. CASE i # N - k + 1
            <4>1. PICK m \in Nat : m = N - k
                BY <1>6
            <4>2. i \in 1 .. m + 1 /\ i # m + 1 /\ k \in Nat /\ m + k = N
                BY <1>1, <3>2, <4>1
            <4>3. i \in 1 .. m /\ i + k \in 1 .. N
                BY <4>2
            <4> QED
                BY <1>3, <1>6, <1>7, <1>9, <4>1, <4>3
        <3> QED
            BY <3>1, <3>2
    <2> QED
        BY <1>6, <1>7, <1>9, <2>1
<1> QED
    BY <1>1, <1>2, <1>3, <1>4, <1>5, <1>6, <1>8, <1>10

\* The commands behind a snapshot of now.
LEMMA NothingBehind ==
    ASSUME NEW log \in Seq(Request)
    PROVE  SubSeq(log, Len(log) + 1, Len(log)) = <<>>
    OBVIOUS

\* A restart recovers engines.
LEMMA RestartedType ==
    ASSUME Types PROVE Restarted \in ReplayState
<1>1. PICK N \in Nat : N = Len(aof)
    BY DEF Types
<1>2. snapshot.db \in Database /\ snapshot.offset \in Nat /\ snapshot.offset <= N /\ aof \in Seq(Request)
    BY <1>1 DEF Types
<1>3. SubSeq(aof, snapshot.offset + 1, N) \in Seq(Request)
    BY <1>1, <1>2
<1> QED
    BY <1>1, <1>2, <1>3, RecoveredType DEF Restarted

-----------------------------------------------------------------------------
(* The steps.                                                               *)

\* Nothing is stored and nothing is logged at first.
LEMMA InitHolds ==
    ASSUME Init PROVE ExecInv
<1>1. Empty \in Database
    BY DEF Empty, Database
<1>2. aof = <<>> /\ Len(aof) = 0 /\ aof \in Seq(Request)
    BY DEF Init
<1>3. snapshot = [db |-> Empty, offset |-> 0] /\ db = Empty /\ alive = TRUE /\ online = FALSE
    BY DEF Init
<1>4. role \in {"standalone", "primary", "replica"} /\ mode \in {"snapshot", "aof", "hybrid"}
    BY DEF Init
<1>5. snapshot \in [db : Database, offset : Nat] /\ snapshot.offset = 0 /\ snapshot.db = Empty
    BY <1>1, <1>3
<1>6. Types
    <2>1. Len(aof) <= MaxLog /\ snapshot.offset <= Len(aof)
        BY <1>2, <1>5, ExecAssumption
    <2>2. alive \in BOOLEAN /\ online \in BOOLEAN
        BY <1>3
    <2> QED
        BY <1>1, <1>2, <1>3, <1>4, <1>5, <2>1, <2>2 DEF Types
<1>7. Restarted = Start(db)
    <2>1. SubSeq(aof, snapshot.offset + 1, Len(aof)) = <<>>
        BY <1>2, <1>5, NothingBehind
    <2> QED
        BY <1>3, <1>5, <2>1, RecoveredEmpty DEF Restarted
<1> QED
    BY <1>6, <1>7 DEF ExecInv, Repeats

\* A request that is answered and changes nothing.
LEMMA SameHolds ==
    ASSUME ExecInv, Unchanged PROVE ExecInv'
<1>1. UNCHANGED <<role, mode, alive, online, db, aof, snapshot>>
    BY DEF Unchanged
<1>2. Restarted' = Restarted
    BY <1>1 DEF Restarted
<1>3. Types'
    BY <1>1 DEF ExecInv, Types
<1> QED
    BY <1>1, <1>2, <1>3 DEF ExecInv, Repeats

\* SAVE: the snapshot stands for the whole log.
LEMMA SaveHolds ==
    ASSUME ExecInv, NEW r \in Request, Save(r) PROVE ExecInv'
<1>1. UNCHANGED <<role, mode, alive, online, db, aof>>
    BY DEF Save
<1>2. CASE UNCHANGED snapshot
    <2>1. Unchanged
        BY <1>1, <1>2 DEF Unchanged
    <2> QED
        BY <2>1, SameHolds
<1>3. CASE snapshot' = [db |-> db, offset |-> Len(aof)]
    <2>1. db \in Database /\ aof \in Seq(Request) /\ Len(aof) \in Nat
        BY DEF ExecInv, Types
    <2>2. snapshot' \in [db : Database, offset : Nat] /\ snapshot'.offset = Len(aof) /\ snapshot'.db = db
        BY <1>3, <2>1
    <2>3. SubSeq(aof', snapshot'.offset + 1, Len(aof')) = <<>>
        BY <1>1, <2>1, <2>2, NothingBehind
    <2>4. Restarted' = Start(db)
        BY <2>2, <2>3, RecoveredEmpty DEF Restarted
    <2>5. Types'
        BY <1>1, <2>1, <2>2 DEF ExecInv, Types
    <2> QED
        BY <1>1, <2>4, <2>5 DEF ExecInv, Repeats
<1> QED
    BY <1>2, <1>3 DEF Save

\* A command ends with OK only if it is a write that the engines allow, and not
\* one of a client of a Replica.
LEMMA OkStatus ==
    ASSUME NEW s, NEW r \in Request, Known(r), r.op # "GET", "OK" \in Statuses(s, r)
    PROVE  /\ Status(db, r) = "OK" /\ r.op \in Writes
           /\ ~(role = "replica" /\ s = "client")
<1>1. CASE role = "replica" /\ s = "client" /\ r.op \in Writes
    BY <1>1 DEF Statuses
<1>2. CASE ~(role = "replica" /\ s = "client" /\ r.op \in Writes)
    <2>1. Status(db, r) = "OK"
        BY <1>2 DEF Statuses
    <2>2. r.op \in Op
        BY DEF Known
    <2>3. r.op # "EXIST"
        BY <2>1 DEF Status
    <2>4. r.op \in Writes
        BY <2>2, <2>3 DEF Op, Writes
    <2> QED
        BY <1>2, <2>1, <2>4
<1> QED
    BY <1>1, <1>2

\* What a command of an engine does, with the status it ends with.
LEMMA RunCases ==
    ASSUME NEW s, NEW r \in Request, Known(r), r.op # "GET", Run(s, r)
    PROVE  /\ UNCHANGED <<role, mode, snapshot>>
           /\ \/ /\ Status(db, r) = "OK" /\ r.op \in Writes /\ ~(role = "replica" /\ s = "client")
                 /\ db' = Applied(db, r)
                 /\ \/ /\ aof' = IF mode # "snapshot" THEN Append(aof, r) ELSE aof
                       /\ mode # "snapshot" => Len(aof) < MaxLog
                       /\ alive' = alive /\ (online' => online)
                       /\ online' \in BOOLEAN
                    \/ mode # "snapshot" /\ alive' = FALSE /\ UNCHANGED <<aof, online>>
              \/ UNCHANGED <<db, aof, alive>> /\ (online' => online) /\ online' \in BOOLEAN
<1> DEFINE logged(status) == status = "OK" /\ r.op \in Writes /\ mode # "snapshot"
           text(status) == IF ReplyLength("exec") < Space THEN Sent(Reply(r.op, status)) ELSE "closed"
           out(status) == IF s = "client" THEN text(status)
                          ELSE IF status = "OK" THEN "ok" ELSE "closed"
           stays(status) == /\ logged(status) => Len(aof) < MaxLog
                            /\ aof' = IF logged(status) THEN Append(aof, r) ELSE aof
                            /\ online' = (online /\ (s = "replication" => out(status) = "ok"))
                            /\ UNCHANGED alive
           exits(status) == logged(status) /\ alive' = FALSE /\ UNCHANGED <<aof, online>>
<1>1. PICK status \in Statuses(s, r) :
          /\ db' = IF status = "OK" THEN Applied(db, r) ELSE db
          /\ UNCHANGED <<role, mode, snapshot>>
          /\ stays(status) \/ exits(status)
    BY DEF Run
<1>2. stays(status) => (online' => online) /\ online' \in BOOLEAN
    OBVIOUS
<1> HIDE DEF out
<1>3. CASE status = "OK"
    <2>1. Status(db, r) = "OK" /\ r.op \in Writes /\ ~(role = "replica" /\ s = "client")
        BY <1>3, OkStatus
    <2>2. logged(status) <=> mode # "snapshot"
        BY <1>3, <2>1
    <2> QED
        BY <1>1, <1>2, <1>3, <2>1, <2>2
<1>4. CASE status # "OK"
    <2>1. ~logged(status)
        BY <1>4
    <2> QED
        BY <1>1, <1>2, <1>4, <2>1
<1> QED
    BY <1>3, <1>4

\* A command is logged as it is executed, or the process is gone.
LEMMA RunHolds ==
    ASSUME ExecInv, alive, NEW s, NEW r \in Request, Known(r), r.op # "GET",
           r.count = Arity(r.op), role = "replica" => online, Run(s, r)
    PROVE  ExecInv'
<1>1. UNCHANGED <<role, mode, snapshot>>
    BY RunCases
<1>2. db \in Database /\ aof \in Seq(Request) /\ Len(aof) \in Nat /\ Len(aof) <= MaxLog /\ MaxLog \in Nat
    BY ExecAssumption DEF ExecInv, Types
<1>3. snapshot.offset \in Nat /\ snapshot.offset \in 0 .. Len(aof)
    BY <1>2 DEF ExecInv, Types
<1>4. CASE UNCHANGED <<db, aof, alive>> /\ (online' => online) /\ online' \in BOOLEAN
    <2>1. Restarted' = Restarted
        BY <1>1, <1>4 DEF Restarted
    <2>2. Types'
        BY <1>1, <1>4 DEF ExecInv, Types
    <2> QED
        BY <1>1, <1>4, <2>1, <2>2 DEF ExecInv, Repeats
<1>5. CASE /\ Status(db, r) = "OK" /\ r.op \in Writes
           /\ db' = Applied(db, r)
           /\ mode # "snapshot" /\ alive' = FALSE /\ UNCHANGED <<aof, online>>
    <2>1. Applied(db, r) \in Database
        BY <1>2, AppliedType
    <2>2. Types'
        BY <1>1, <1>5, <2>1 DEF ExecInv, Types
    <2> QED
        BY <1>5, <2>2 DEF ExecInv, Repeats
<1>6. CASE /\ Status(db, r) = "OK" /\ r.op \in Writes
           /\ db' = Applied(db, r)
           /\ aof' = IF mode # "snapshot" THEN Append(aof, r) ELSE aof
           /\ mode # "snapshot" => Len(aof) < MaxLog
           /\ alive' = alive /\ (online' => online) /\ online' \in BOOLEAN
    <2>1. Applied(db, r) \in Database
        BY <1>2, AppliedType
    <2>2. aof' \in Seq(Request) /\ Len(aof') <= MaxLog /\ Len(aof) <= Len(aof') /\ Len(aof') \in Nat
        BY <1>2, <1>6
    <2>3. snapshot'.offset <= Len(aof')
        BY <1>1, <1>2, <1>3, <2>2
    <2>4. Types'
        BY <1>1, <1>6, <2>1, <2>2, <2>3 DEF ExecInv, Types
    <2>5. CASE mode = "snapshot"
        BY <1>1, <2>4, <2>5 DEF ExecInv, Repeats
    <2>6. CASE mode # "snapshot"
        <3> DEFINE k == snapshot.offset
                   log == SubSeq(aof, k + 1, Len(aof))
        <3>1. log \in Seq(Request) /\ SubSeq(aof', k + 1, Len(aof')) = Append(log, r)
            BY <1>2, <1>3, <1>6, <2>6, Behind
        <3>2. Recovered(snapshot.db, Append(log, r)) = Recover(Recovered(snapshot.db, log), r)
            BY <3>1, RecoveredAppend
        <3>3. Restarted = Start(db)
            BY <2>6 DEF ExecInv, Repeats
        <3>4. Restarted' = Recover(Start(db), r)
            BY <1>1, <3>1, <3>2, <3>3 DEF Restarted
        <3>5. ~r.nul /\ Start(db).ok = TRUE /\ Start(db).db = db
            BY KnownRequest DEF Start
        <3>6. Recover(Start(db), r) = Start(Applied(db, r))
            BY <1>6, <3>5 DEF Recover, Start
        <3>7. Restarted' = Start(db')
            BY <1>6, <3>4, <3>6
        <3> QED
            BY <2>4, <3>7 DEF ExecInv, Repeats
    <2> QED
        BY <2>5, <2>6
<1> QED
    BY <1>4, <1>5, <1>6, RunCases

\* A client gets as far as the engines only if nothing is to be said before.
LEMMA EarlyNone ==
    ASSUME NEW r \in Request, EarlyReply(r) = "none"
    PROVE  /\ role = "replica" => online
           /\ Known(r) => r.count = Arity(r.op)
           /\ ~r.nul /\ r.op # "PING"
    BY DEF EarlyReply, Known, Op

\* A request of a client.
LEMMA ClientHolds ==
    ASSUME ExecInv, NEW r \in Request, Client(r) PROVE ExecInv'
<1>1. CASE Turned(r)
    BY <1>1, SameHolds DEF Turned
<1>2. CASE Save(r)
    BY <1>2, SaveHolds
<1>3. CASE Get(r)
    BY <1>3, SameHolds DEF Get
<1>4. CASE Known(r) /\ r.op # "GET" /\ EarlyReply(r) = "none" /\ Run("client", r)
    <2>1. alive /\ (role = "replica" => online) /\ r.count = Arity(r.op)
        BY <1>4, EarlyNone DEF Client
    <2> QED
        BY <1>4, <2>1, RunHolds
<1> QED
    BY <1>1, <1>2, <1>3, <1>4 DEF Client

\* A command that the Primary sent.
LEMMA ReplicatedHolds ==
    ASSUME ExecInv, NEW r \in Request, Replicated(r) PROVE ExecInv'
<1>1. alive /\ online /\ r.op \in Writes /\ r.count = Arity(r.op) /\ Run("replication", r)
    BY DEF Replicated
<1>2. Known(r) /\ r.op # "GET"
    BY <1>1 DEF Known, Op, Writes
<1> QED
    BY <1>1, <1>2, RunHolds

\* The snapshot of the Primary replaces engines, log and snapshot together.
LEMMA InstallHolds ==
    ASSUME ExecInv, NEW d \in Database, Install(d) PROVE ExecInv'
<1>1. /\ db' = d /\ aof' = <<>> /\ snapshot' = [db |-> d, offset |-> 0] /\ online' = TRUE
      /\ UNCHANGED <<role, mode, alive>>
    BY DEF Install
<1>2. aof' \in Seq(Request) /\ Len(aof') = 0
    BY <1>1
<1>3. snapshot' \in [db : Database, offset : Nat] /\ snapshot'.offset = 0 /\ snapshot'.db = d
    BY <1>1
<1>4. SubSeq(aof', snapshot'.offset + 1, Len(aof')) = <<>>
    BY <1>2, <1>3, NothingBehind
<1>5. Restarted' = Start(d)
    BY <1>3, <1>4, RecoveredEmpty DEF Restarted
<1>6. Len(aof') <= MaxLog /\ snapshot'.offset <= Len(aof')
    BY <1>2, <1>3, ExecAssumption
<1>7. Types'
    BY <1>1, <1>2, <1>3, <1>6 DEF ExecInv, Types
<1> QED
    BY <1>1, <1>5, <1>7 DEF ExecInv, Repeats

\* A Replica that has lost its Primary does not serve what it has.
LEMMA PrimaryLostHolds ==
    ASSUME ExecInv, PrimaryLost PROVE ExecInv'
<1>1. /\ role = "replica" /\ online' = FALSE
      /\ UNCHANGED <<role, mode, alive, db, aof, snapshot>>
    BY DEF PrimaryLost
<1>2. Types'
    BY <1>1 DEF ExecInv, Types
<1> QED
    BY <1>1, <1>2 DEF ExecInv, Repeats

\* A restart serves what the files lead to.
LEMMA RestartHolds ==
    ASSUME ExecInv, Restart PROVE ExecInv'
<1>1. /\ alive' = TRUE /\ online' = FALSE /\ UNCHANGED <<role, mode, aof, snapshot>>
      /\ mode # "snapshot" => Restarted.ok
      /\ db' = IF role = "replica" THEN Empty
               ELSE IF mode = "snapshot" THEN snapshot.db ELSE Restarted.db
    BY DEF Restart
<1>2. Restarted \in ReplayState /\ snapshot.db \in Database
    BY RestartedType DEF ExecInv, Types
<1>3. Restarted.db \in Database /\ Restarted = [ok |-> Restarted.ok, db |-> Restarted.db]
      /\ Restarted.ok \in BOOLEAN
    BY <1>2 DEF ReplayState
<1>4. Empty \in Database
    BY DEF Empty, Database
<1>5. db' \in Database
    BY <1>1, <1>2, <1>3, <1>4
<1>6. Types'
    BY <1>1, <1>5 DEF ExecInv, Types
<1>7. Restarted' = Restarted
    BY <1>1 DEF Restarted
<1>8. CASE role = "replica" \/ mode = "snapshot"
    BY <1>1, <1>6, <1>8 DEF ExecInv, Repeats
<1>9. CASE role # "replica" /\ mode # "snapshot"
    <2>1. Restarted.ok = TRUE
        BY <1>1, <1>3, <1>9
    <2>2. Restarted' = Start(db')
        BY <1>1, <1>3, <1>7, <1>9, <2>1 DEF Start
    <2> QED
        BY <1>6, <2>2 DEF ExecInv, Repeats
<1> QED
    BY <1>8, <1>9

-----------------------------------------------------------------------------
(* The theorems.                                                            *)

\* Every step of the executor keeps the log and the engines together.
LEMMA NextHolds ==
    ASSUME ExecInv, [Next]_vars PROVE ExecInv'
<1>1. ASSUME NEW r \in Request, Client(r) PROVE ExecInv'
    BY <1>1, ClientHolds
<1>2. ASSUME NEW r \in Request, Replicated(r) PROVE ExecInv'
    BY <1>2, ReplicatedHolds
<1>3. ASSUME NEW e \in Engine, NEW k \in Key, NEW v \in Value, Install([Empty EXCEPT ![e][k] = v])
      PROVE  ExecInv'
    <2>1. [Empty EXCEPT ![e][k] = v] \in Database
        BY DEF Empty, Database
    <2> QED
        BY <1>3, <2>1, InstallHolds
<1>4. CASE PrimaryLost
    BY <1>4, PrimaryLostHolds
<1>5. CASE Restart
    BY <1>5, RestartHolds
<1>6. CASE UNCHANGED vars
    <2>1. Unchanged
        BY <1>6 DEF vars, Unchanged
    <2> QED
        BY <2>1, SameHolds
<1> QED
    BY <1>1, <1>2, <1>3, <1>4, <1>5, <1>6 DEF Next

\* What kvs_filter_protocol has logged for clients and for the Primary it repeats
\* for the recovery without one refusal, and the recovery ends with the engines of
\* the process that is running, whatever failed before.
THEOREM LogAlwaysRepeats == Spec => []LogRepeats
<1>1. Init => ExecInv
    BY InitHolds
<1>2. ExecInv /\ [Next]_vars => ExecInv'
    BY NextHolds
<1>3. ExecInv => LogRepeats
    <2> SUFFICES ASSUME ExecInv PROVE LogRepeats
        OBVIOUS
    <2>1. aof \in Seq(Request) /\ Len(aof) \in Nat /\ snapshot.offset \in Nat /\ snapshot.offset <= Len(aof)
        BY DEF ExecInv, Types
    <2>2. (\A i \in 1..Len(aof) : aof[i] \in Request) /\ snapshot.offset \in 0..Len(aof)
        BY <2>1
    <2>3. TypeOK
        BY <2>2 DEF ExecInv, Types, TypeOK, Database
    <2> QED
        BY <2>3 DEF ExecInv, Repeats, LogRepeats, Start
<1> QED
    BY <1>1, <1>2, <1>3, PTL DEF Spec

\* There is room for every reply.
LEMMA AllSent == \A text : Sent(text) = text
<1>1. \A text : ReplyLength(text) \in {7, 49, 51}
    BY DEF ReplyLength
<1>2. \A text : ReplyLength(text) < Space
    BY <1>1 DEF Space
<1> QED
    BY <1>2 DEF Sent

\* A client hears of a write that was made.
LEMMA RunReply ==
    ASSUME NEW r \in Request, Known(r), r.op # "GET", Run("client", r)
    PROVE  /\ last' = [source |-> "client", out |-> last'.out]
           /\ last'.out \notin {"ok", "one", "exited"} => db' = db /\ aof' = aof
           /\ role = "replica" => db' = db /\ aof' = aof
<1>1. ReplyLength("exec") < Space
    BY DEF ReplyLength, Space
<1>2. PICK status \in Statuses("client", r) :
          /\ db' = IF status = "OK" THEN Applied(db, r) ELSE db
          /\ \/ /\ aof' = IF status = "OK" /\ r.op \in Writes /\ mode # "snapshot" THEN Append(aof, r) ELSE aof
                /\ last' = [source |-> "client", out |-> Sent(Reply(r.op, status))]
             \/ /\ status = "OK" /\ r.op \in Writes /\ mode # "snapshot"
                /\ last' = [source |-> "client", out |-> "exited"]
                /\ aof' = aof
    BY <1>1 DEF Run, Result
<1>3. last' = [source |-> "client", out |-> last'.out]
    BY <1>2
<1>4. CASE status = "OK"
    <2>1. r.op \in Writes /\ ~(role = "replica")
        BY <1>4, OkStatus
    <2>2. Reply(r.op, status) \in {"ok", "one"}
        BY <1>4, <2>1 DEF Reply, Writes
    <2>3. Sent(Reply(r.op, status)) \in {"ok", "one"}
        BY <2>2, AllSent
    <2>4. last'.out \in {"ok", "one", "exited"}
        BY <1>2, <2>3
    <2> QED
        BY <1>3, <2>1, <2>4
<1>5. CASE status # "OK"
    BY <1>2, <1>3, <1>5
<1> QED
    BY <1>4, <1>5

\* A Replica that is not ONLINE says nothing of its data.
LEMMA EarlyLoading ==
    ASSUME NEW r \in Request, role = "replica", ~online
    PROVE  EarlyReply(r) \in {"pong", "loading", "nul", "arity"}
    BY DEF EarlyReply

\* What one request of a client may do.
LEMMA ClientStep ==
    ASSUME NEW r \in Request, Client(r) PROVE RefusedStep /\ ReadOnlyStep
<1>1. CASE Turned(r)
    <2>1. db' = db /\ aof' = aof
        BY <1>1 DEF Turned, Unchanged
    <2>2. last'.out = Sent(EarlyReply(r)) \/ last'.out = "closed"
        BY <1>1 DEF Turned, Result
    <2>3. last'.out = EarlyReply(r) \/ last'.out = "closed"
        BY <2>2, AllSent
    <2>4. role = "replica" /\ ~online => last'.out \in {"pong", "loading", "nul", "arity", "closed"}
        BY <2>3, EarlyLoading
    <2> QED
        BY <2>1, <2>4 DEF RefusedStep, ReadOnlyStep
<1>2. CASE Save(r)
    <2>1. db' = db /\ aof' = aof /\ EarlyReply(r) = "none"
        BY <1>2 DEF Save
    <2>2. role = "replica" => online
        BY <2>1, EarlyNone
    <2> QED
        BY <2>1, <2>2 DEF RefusedStep, ReadOnlyStep
<1>3. CASE Get(r)
    <2>1. db' = db /\ aof' = aof /\ EarlyReply(r) = "none"
        BY <1>3 DEF Get, Unchanged
    <2>2. role = "replica" => online
        BY <2>1, EarlyNone
    <2> QED
        BY <2>1, <2>2 DEF RefusedStep, ReadOnlyStep
<1>4. CASE Known(r) /\ r.op # "GET" /\ EarlyReply(r) = "none" /\ Run("client", r)
    <2>1. /\ last'.out \notin {"ok", "one", "exited"} => db' = db /\ aof' = aof
          /\ role = "replica" => db' = db /\ aof' = aof
        BY <1>4, RunReply
    <2>2. role = "replica" => online
        BY <1>4, EarlyNone
    <2> QED
        BY <2>1, <2>2 DEF RefusedStep, ReadOnlyStep
<1> QED
    BY <1>1, <1>2, <1>3, <1>4 DEF Client

\* A step of anyone else is no answer to a client.
LEMMA OtherStep ==
    ASSUME last'.source # "client" PROVE RefusedStep /\ ReadOnlyStep
    BY DEF RefusedStep, ReadOnlyStep

\* A call of kvs_execute_fields for a client that returns an error reply or -1 has
\* neither changed an engine nor logged anything for that request; and no client of
\* a Replica changes it.
THEOREM RefusalsChangeNothing == Spec => RefusedUnchanged
<1>1. ASSUME Next PROVE RefusedStep /\ ReadOnlyStep
    <2>1. ASSUME NEW r \in Request, Client(r) PROVE RefusedStep /\ ReadOnlyStep
        BY <2>1, ClientStep
    <2>2. ASSUME NEW r \in Request, Replicated(r) PROVE RefusedStep /\ ReadOnlyStep
        <3>1. \E out : last' = [source |-> "replication", out |-> out]
            BY <2>2, Zenon DEF Replicated, Run, Result
        <3>2. last'.source = "replication"
            BY <3>1
        <3> QED
            BY <3>2, OtherStep
    <2>3. ASSUME NEW d, Install(d) PROVE RefusedStep /\ ReadOnlyStep
        <3>1. last'.source = "none"
            BY <2>3 DEF Install, Result
        <3> QED
            BY <3>1, OtherStep
    <2>4. CASE PrimaryLost \/ Restart
        <3>1. last'.source = "none"
            BY <2>4 DEF PrimaryLost, Restart, Result
        <3> QED
            BY <3>1, OtherStep
    <2> QED
        BY <1>1, <2>1, <2>2, <2>3, <2>4 DEF Next
<1>2. [Next]_vars => [RefusedStep /\ ReadOnlyStep]_vars
    BY <1>1
<1> QED
    BY <1>2, PTL DEF Spec, RefusedUnchanged

-----------------------------------------------------------------------------
(* The start of the server and the ways out of it, which share no state     *)
(* with the executor.                                                       *)

CONSTANTS Line, Port, Unset, MaxLines

VARIABLES pc, file, parsed, config, live, todo, leaked, status

S == INSTANCE ServerStart

-----------------------------------------------------------------------------
(* The loader.                                                              *)

\* The line l was accepted, and the fields p have what it says.
Agrees(l, p) ==
    /\ l.kind \in {"skip", "field"}
    /\ l.kind = "field" =>
           /\ l.field \in DOMAIN p /\ p[l.field] = l.value
           /\ l.field \in S!Field /\ l.value \in S!Legal(l.field) /\ l.value # "bad"

IsField(l, f) == l.kind = "field" /\ l.field = f

\* The fields p are those of the lines F, each from one line.
Loaded(F, p) ==
    /\ F \in Seq(Line) /\ p = [f \in DOMAIN p |-> p[f]]
    /\ \A i \in DOMAIN F : Agrees(F[i], p)
    /\ \A f \in DOMAIN p : \E i \in DOMAIN F : IsField(F[i], f)
    /\ \A i, j \in DOMAIN F : F[i].kind = "field" /\ IsField(F[j], F[i].field) => i = j

\* What validate_config sees of a role's fields, and what it must not see.
Accepted(p) ==
    /\ {"role", "service_port", "persistence_mode"} \subseteq DOMAIN p
    /\ \/ /\ p["role"] = "standalone"
          /\ DOMAIN p \cap {"rdma_port", "replication_port", "primary_host", "primary_port"} = {}
          /\ p["persistence_mode"] \in {"snapshot", "aof"}
       \/ /\ p["role"] = "primary" /\ "rdma_port" \in DOMAIN p
          /\ DOMAIN p \cap {"replication_port", "primary_host", "primary_port"} = {}
          /\ p["rdma_port"] # p["service_port"]
          /\ p["persistence_mode"] = "legacy_hybrid"
       \/ /\ p["role"] = "replica" /\ {"primary_host", "primary_port"} \subseteq DOMAIN p
          /\ DOMAIN p \cap {"rdma_port", "replication_port"} = {}
          /\ p["persistence_mode"] = "legacy_hybrid"

\* A line of a file: what a field may be, and that no legal value is "bad".
LEMMA LineFacts ==
    ASSUME S!LineAssumption, NEW l \in Line
    PROVE  /\ l.kind \in {"skip", "malformed", "unknown", "field"}
           /\ l.kind = "field" => /\ l.field \in S!Field
                                  /\ l.value \in S!Legal(l.field) \cup {"bad"}
<1>1. l \in S!AnyLine
    BY DEF S!LineAssumption
<1>2. CASE l \in [kind : {"skip", "malformed", "unknown"}, field : {Unset}, value : {Unset}]
    BY <1>2
<1>3. CASE \E f \in S!Field : l \in [kind : {"field"}, field : {f}, value : S!Legal(f) \cup {"bad"}]
    BY <1>3
<1> QED
    BY <1>1, <1>2, <1>3 DEF S!AnyLine

LEMMA LegalFacts ==
    ASSUME S!LineAssumption
    PROVE  /\ \A f \in S!Field : "bad" \notin S!Legal(f)
           /\ S!Legal("role") = {"standalone", "primary", "replica"}
           /\ S!Legal("persistence_mode") = {"legacy_hybrid", "snapshot", "aof"}
    BY DEF S!LineAssumption, S!Legal, S!Role, S!Mode, S!Field, S!PortField

\* The value of a loaded field is legal.
LEMMA LoadedFields ==
    ASSUME S!LineAssumption, NEW F, NEW p, Loaded(F, p), NEW f \in DOMAIN p
    PROVE  f \in S!Field /\ p[f] \in S!Legal(f) /\ p[f] # "bad"
<1>1. PICK i \in DOMAIN F : IsField(F[i], f)
    BY DEF Loaded
<1> QED
    BY <1>1 DEF Loaded, Agrees, IsField

\* validate_config accepts what a role must and may configure.
LEMMA ValidMeans ==
    ASSUME S!LineAssumption, NEW F, Loaded(F, parsed)
    PROVE  S!Valid <=> Accepted(parsed)
<1>1. "role" \in DOMAIN parsed => parsed["role"] \in {"standalone", "primary", "replica"}
    BY LoadedFields, LegalFacts
<1> QED
    BY <1>1 DEF S!Valid, Accepted, S!Seen

\* And these are the files that are in order.
LEMMA OrderMeans ==
    ASSUME S!LineAssumption, NEW F, NEW p, Loaded(F, p)
    PROVE  S!InOrder(F) <=> Accepted(p)
<1> DEFINE fields == {i \in DOMAIN F : F[i].kind = "field"}
           names == {F[i].field : i \in fields}
           Of(f) == F[CHOOSE i \in fields : F[i].field = f].value
<1>1. names = DOMAIN p
    <2>1. ASSUME NEW i \in fields PROVE F[i].field \in DOMAIN p
        BY DEF Loaded, Agrees
    <2>2. ASSUME NEW f \in DOMAIN p PROVE \E i \in fields : F[i].field = f
        BY DEF Loaded, IsField
    <2> QED
        BY <2>1, <2>2
<1>2. ASSUME NEW f \in DOMAIN p PROVE Of(f) = p[f]
    <2>1. \E i \in fields : F[i].field = f
        BY DEF Loaded, IsField
    <2>2. PICK i \in fields : i = CHOOSE j \in fields : F[j].field = f
        BY <2>1
    <2>3. F[i].field = f
        BY <2>1, <2>2
    <2> QED
        BY <2>2, <2>3 DEF Loaded, Agrees
<1>3. /\ \A i \in DOMAIN F : F[i].kind \in {"skip", "field"}
      /\ \A i \in fields : F[i].value # "bad"
      /\ \A i, j \in fields : F[i].field = F[j].field => i = j
    BY DEF Loaded, Agrees, IsField
<1>4. S!InOrder(F) <=>
          /\ "role" \in names
          /\ S!Required(Of("role")) \subseteq names
          /\ names \subseteq S!Required(Of("role")) \cup S!Optional
          /\ Of("persistence_mode") \in
                IF Of("role") = "standalone" THEN {"snapshot", "aof"} ELSE {"legacy_hybrid"}
          /\ "rdma_port" \in names => Of("rdma_port") # Of("service_port")
    BY <1>3 DEF S!InOrder
<1> HIDE DEF fields, names, Of
<1>5. DOMAIN p \subseteq S!Field
    BY LoadedFields
<1>6. "role" \in DOMAIN p => p["role"] \in {"standalone", "primary", "replica"}
    BY LoadedFields, LegalFacts
<1>7. ASSUME "role" \in DOMAIN p
      PROVE  {"role", "service_port", "persistence_mode"} \subseteq S!Required(p["role"])
    BY <1>6, <1>7 DEF S!Required
<1>8. CASE "role" \in DOMAIN p /\ p["role"] = "standalone"
    <2>1. /\ S!Required("standalone") = {"role", "service_port", "persistence_mode"}
          /\ DOMAIN p \subseteq S!Required("standalone") \cup S!Optional <=>
                DOMAIN p \cap {"rdma_port", "replication_port", "primary_host", "primary_port"} = {}
        BY <1>5 DEF S!Required, S!Optional, S!Field, S!PortField
    <2> QED
        BY <1>1, <1>2, <1>4, <1>8, <2>1 DEF Accepted
<1>9. CASE "role" \in DOMAIN p /\ p["role"] = "primary"
    <2>1. /\ S!Required("primary") = {"role", "service_port", "persistence_mode", "rdma_port"}
          /\ DOMAIN p \subseteq S!Required("primary") \cup S!Optional <=>
                DOMAIN p \cap {"replication_port", "primary_host", "primary_port"} = {}
        BY <1>5 DEF S!Required, S!Optional, S!Field, S!PortField
    <2> QED
        BY <1>1, <1>2, <1>4, <1>9, <2>1 DEF Accepted
<1>10. CASE "role" \in DOMAIN p /\ p["role"] = "replica"
    <2>1. /\ S!Required("replica") =
                {"role", "service_port", "persistence_mode", "primary_host", "primary_port"}
          /\ DOMAIN p \subseteq S!Required("replica") \cup S!Optional <=>
                DOMAIN p \cap {"rdma_port", "replication_port"} = {}
        BY <1>5 DEF S!Required, S!Optional, S!Field, S!PortField
    <2> QED
        BY <1>1, <1>2, <1>4, <1>10, <2>1 DEF Accepted
<1>11. CASE "role" \notin DOMAIN p
    BY <1>1, <1>4, <1>11 DEF Accepted
<1> QED
    BY <1>6, <1>8, <1>9, <1>10, <1>11

\* One more line.
LEMMA LineRead ==
    ASSUME S!LineAssumption, Loaded(file, parsed), NEW l \in Line, NEW F, F = Append(file, l)
    PROVE  /\ S!Refused(l) => ~S!InOrder(F)
           /\ ~S!Refused(l) =>
                 Loaded(F, IF l.kind = "field"
                           THEN [f \in DOMAIN parsed \cup {l.field} |->
                                   IF f = l.field THEN l.value ELSE parsed[f]]
                           ELSE parsed)
<1>1. PICK n \in Nat : n = Len(file) + 1 /\ DOMAIN file = 1 .. n - 1 /\ file \in Seq(Line)
    BY DEF Loaded
<1>2. /\ F \in Seq(Line) /\ DOMAIN F = 1 .. n /\ n \in DOMAIN F /\ F[n] = l
      /\ \A i \in DOMAIN file : i \in DOMAIN F /\ i # n /\ F[i] = file[i]
      /\ \A i \in DOMAIN F : i = n \/ i \in DOMAIN file
    BY <1>1
<1>3. ASSUME S!Refused(l), S!InOrder(F) PROVE FALSE
    <2>1. /\ \A i \in DOMAIN F : F[i].kind \in {"skip", "field"}
          /\ \A i \in DOMAIN F : F[i].kind = "field" => F[i].value # "bad"
          /\ \A i, j \in DOMAIN F :
                F[i].kind = "field" /\ F[j].kind = "field" /\ F[i].field = F[j].field => i = j
        <3> DEFINE fields == {i \in DOMAIN F : F[i].kind = "field"}
        <3>1. /\ \A i \in DOMAIN F : F[i].kind \in {"skip", "field"}
              /\ \A i \in fields : F[i].value # "bad"
              /\ \A i, j \in fields : F[i].field = F[j].field => i = j
            BY <1>3, Zenon DEF S!InOrder
        <3> QED
            BY <3>1
    <2>2. l.kind = "field" /\ l.field \in DOMAIN parsed
        BY <1>2, <1>3, <2>1, LineFacts DEF S!Refused, S!Seen
    <2>3. PICK i \in DOMAIN file : IsField(file[i], l.field)
        BY <2>2 DEF Loaded
    <2> QED
        BY <1>2, <2>1, <2>2, <2>3 DEF IsField
<1>4. CASE ~S!Refused(l) /\ l.kind # "field"
    <2>1. l.kind = "skip"
        BY <1>4, LineFacts DEF S!Refused
    <2>2. /\ \A i \in DOMAIN F : Agrees(F[i], parsed)
          /\ \A f \in DOMAIN parsed : \E i \in DOMAIN F : IsField(F[i], f)
        BY <1>2, <2>1 DEF Loaded, Agrees
    <2>3. \A i, j \in DOMAIN F : F[i].kind = "field" /\ IsField(F[j], F[i].field) => i = j
        BY <1>2, <2>1 DEF Loaded, IsField
    <2>4. Loaded(F, parsed)
        BY <1>2, <2>2, <2>3 DEF Loaded
    <2> QED
        BY <1>3, <1>4, <2>4
<1>5. CASE ~S!Refused(l) /\ l.kind = "field"
    <2> DEFINE p == [f \in DOMAIN parsed \cup {l.field} |->
                        IF f = l.field THEN l.value ELSE parsed[f]]
    <2>1. /\ l.field \notin DOMAIN parsed /\ l.field \in S!Field
          /\ l.value \in S!Legal(l.field) /\ l.value # "bad"
        BY <1>5, LineFacts, LegalFacts DEF S!Refused, S!Seen
    <2>2. /\ DOMAIN p = DOMAIN parsed \cup {l.field} /\ p[l.field] = l.value
          /\ \A f \in DOMAIN parsed : p[f] = parsed[f]
          /\ p = [f \in DOMAIN p |-> p[f]]
        BY <2>1
    <2> HIDE DEF p
    <2>3. \A i \in DOMAIN file : Agrees(file[i], p)
        BY <2>2 DEF Loaded, Agrees
    <2>4. Agrees(l, p)
        BY <1>5, <2>1, <2>2 DEF Agrees
    <2>5. \A i \in DOMAIN F : Agrees(F[i], p)
        BY <1>2, <2>3, <2>4
    <2>6. \A f \in DOMAIN p : \E i \in DOMAIN F : IsField(F[i], f)
        BY <1>2, <1>5, <2>2 DEF Loaded, IsField
    <2>7. \A i \in DOMAIN file : ~IsField(file[i], l.field)
        BY <2>1 DEF Loaded, Agrees, IsField
    <2>8. \A i, j \in DOMAIN F : F[i].kind = "field" /\ IsField(F[j], F[i].field) => i = j
        BY <1>2, <2>7 DEF Loaded, IsField
    <2>9. Loaded(F, p)
        BY <1>2, <2>2, <2>5, <2>6, <2>8 DEF Loaded
    <2> QED
        BY <1>3, <1>5, <2>9 DEF p
<1> QED
    BY <1>3, <1>4, <1>5

-----------------------------------------------------------------------------
(* The components.  They start in the order of their ranks.                 *)

Four == {"array", "rbtree", "hash", "skiplist"}

Rank(d) == CASE d = "allocator" -> 1 [] d = "array" -> 2 [] d = "rbtree" -> 3
             [] d = "hash" -> 4 [] d = "skiplist" -> 5 [] d = "aof" -> 6
             [] d = "replication" -> 7 [] d = "listener" -> 8 [] d = "network" -> 9

\* What a configuration starts.
Wanted(c) ==
    {"allocator", "network"} \cup Four
    \cup (IF c["persistence_mode"] = "snapshot" THEN {} ELSE {"aof"})
    \cup (IF c["role"] = "standalone" THEN {} ELSE {"replication"})
    \cup (IF c["role"] = "primary" THEN {"listener"} ELSE {})

\* The sequence t is what is left to start of W, and L is up.
Starting(W, t, L) ==
    /\ t \in Seq(W) /\ L \subseteq W
    /\ \A i, j \in DOMAIN t : i < j => Rank(t[i]) < Rank(t[j])
    /\ \A d \in W : d \in L \/ \E i \in DOMAIN t : t[i] = d
    /\ \A d \in L : \A i \in DOMAIN t : Rank(d) < Rank(t[i])

\* No component of L but those of K lacks what it works on.
Stands(L, K) ==
    /\ (L \ K) \cap (Four \cup {"network"}) # {} => "allocator" \in L
    /\ "network" \in L \ K => Four \subseteq L
    /\ "listener" \in L \ K => "replication" \in L
    /\ "replication" \in L \ K => {"aof", "hash"} \subseteq L

\* The sequence t releases all of L but K, the replication first and the
\* allocator last; K is what could not be released.
Stopping(t, L, K) ==
    /\ t \in Seq(S!Component \ {"listener"}) /\ L \subseteq S!Component \ {"network"}
    /\ K \subseteq L \cap {"replication", "listener", "allocator"}
    /\ "allocator" \in K => t = <<>>
    /\ \A d \in L \ K : \E i \in DOMAIN t : d \in S!Released(t[i])
    /\ \A i \in DOMAIN t : /\ t[i] = "replication" => i = 1 /\ K = {}
                           /\ t[i] = "allocator" => i = Len(t)
    /\ Stands(L, K)

LEMMA StandsMeans ==
    ASSUME pc # "aborted"
    PROVE  S!StandsOnLive <=> Stands(live, leaked)
<1>1. S!Range(S!Engines) = Four
    BY DEF S!Range, S!Engines, Four
<1>2. S!Needs = {<<e, "allocator">> : e \in Four}
                \cup {<<"listener", "replication">>, <<"network", "allocator">>}
                \cup {<<"network", e>> : e \in Four}
                \cup {<<"replication", "aof">>, <<"replication", "hash">>}
    BY <1>1 DEF S!Needs
<1>3. ASSUME S!StandsOnLive PROVE Stands(live, leaked)
    <2>1. ASSUME NEW e, NEW d, <<e, d>> \in S!Needs, e \in live \ leaked PROVE d \in live
        <3>1. PICK n \in S!Needs : n = <<e, d>> /\ n[1] = e /\ n[2] = d
            BY <2>1
        <3> QED
            BY <1>3, <2>1, <3>1 DEF S!StandsOnLive
    <2>2. /\ \A e \in Four : <<e, "allocator">> \in S!Needs /\ <<"network", e>> \in S!Needs
          /\ <<"listener", "replication">> \in S!Needs /\ <<"network", "allocator">> \in S!Needs
          /\ <<"replication", "aof">> \in S!Needs /\ <<"replication", "hash">> \in S!Needs
        BY <1>2
    <2> QED
        BY <2>1, <2>2 DEF Stands
<1>4. ASSUME Stands(live, leaked), NEW n \in S!Needs, n[1] \in live \ leaked
      PROVE  n[2] \in live
    <2>1. CASE \E e \in Four : n = <<e, "allocator">>
        BY <1>4, <2>1 DEF Stands
    <2>2. CASE \E e \in Four : n = <<"network", e>>
        BY <1>4, <2>2 DEF Stands
    <2>3. CASE n \in {<<"listener", "replication">>, <<"network", "allocator">>}
        BY <1>4, <2>3 DEF Stands
    <2>4. CASE n \in {<<"replication", "aof">>, <<"replication", "hash">>}
        BY <1>4, <2>4 DEF Stands
    <2> QED
        BY <1>2, <2>1, <2>2, <2>3, <2>4
<1> QED
    BY <1>3, <1>4 DEF S!StandsOnLive

LEMMA WantedIs ==
    ASSUME NEW c, Accepted(c)
    PROVE  /\ Wanted(c) \subseteq S!Component
           /\ {"allocator", "network"} \cup Four \subseteq Wanted(c)
           /\ "replication" \in Wanted(c) => "aof" \in Wanted(c)
           /\ "listener" \in Wanted(c) => "replication" \in Wanted(c)
           /\ c["persistence_mode"] = "snapshot" =>
                 "aof" \notin Wanted(c) /\ "replication" \notin Wanted(c)
<1>1. /\ c["role"] \in {"standalone", "replica", "primary"}
      /\ c["role"] # "standalone" => c["persistence_mode"] = "legacy_hybrid"
    BY DEF Accepted
<1> QED
    BY <1>1 DEF Wanted, S!Component, Four

\* One more component at the end of the sequence.
LEMMA BeginsMore ==
    ASSUME NEW W, NEW s, Starting(W, s, {}), NEW d, \A e \in W : Rank(e) < Rank(d)
    PROVE  Starting(W \cup {d}, s \o <<d>>, {})
<1>1. PICK n \in Nat : n = Len(s) /\ DOMAIN s = 1 .. n /\ s \in Seq(W)
    BY DEF Starting
<1>2. PICK t : t = s \o <<d>>
    OBVIOUS
<1>3. /\ t \in Seq(W \cup {d}) /\ DOMAIN t = 1 .. n + 1 /\ t[n + 1] = d
      /\ \A i \in 1 .. n : t[i] = s[i] /\ s[i] \in W
    BY <1>1, <1>2
<1>4. ASSUME NEW i \in DOMAIN t, NEW j \in DOMAIN t, i < j PROVE Rank(t[i]) < Rank(t[j])
    <2>1. CASE j = n + 1
        <3>1. i \in 1 .. n
            BY <1>1, <1>3, <1>4, <2>1
        <3> QED
            BY <1>3, <2>1, <3>1
    <2>2. CASE j # n + 1
        <3>1. i \in 1 .. n /\ j \in 1 .. n
            BY <1>1, <1>3, <1>4, <2>2
        <3>2. Rank(s[i]) < Rank(s[j])
            BY <1>1, <1>4, <3>1 DEF Starting
        <3> QED
            BY <1>3, <3>1, <3>2
    <2> QED
        BY <2>1, <2>2
<1>5. ASSUME NEW e \in W \cup {d} PROVE \E i \in DOMAIN t : t[i] = e
    <2>1. CASE e = d
        BY <1>1, <1>3, <2>1
    <2>2. CASE e \in W
        <3>1. PICK i \in 1 .. n : s[i] = e
            BY <1>1, <2>2 DEF Starting
        <3>2. i \in DOMAIN t
            BY <1>1, <1>3
        <3> QED
            BY <1>3, <3>1, <3>2
    <2> QED
        BY <2>1, <2>2
<1>6. Starting(W \cup {d}, t, {})
    BY <1>3, <1>4, <1>5 DEF Starting
<1> QED
    BY <1>2, <1>6

LEMMA Begins ==
    ASSUME NEW c, Accepted(c)
    PROVE  Starting(Wanted(c), S!Startup(c), {})
<1> DEFINE W1 == {"allocator"} \cup Four
           s1 == <<"allocator", "array", "rbtree", "hash", "skiplist">>
           W2 == W1 \cup (IF c["persistence_mode"] = "snapshot" THEN {} ELSE {"aof"})
           s2 == s1 \o (IF c["persistence_mode"] = "snapshot" THEN <<>> ELSE <<"aof">>)
           W3 == W2 \cup (IF c["role"] = "standalone" THEN {} ELSE {"replication"})
           s3 == s2 \o (IF c["role"] = "standalone" THEN <<>> ELSE <<"replication">>)
           W4 == W3 \cup (IF c["role"] = "primary" THEN {"listener"} ELSE {})
           s4 == s3 \o (IF c["role"] = "primary" THEN <<"listener">> ELSE <<>>)
<1>1. \A d \in S!Component : Rank(d) \in Nat
    BY DEF S!Component, Rank
<1>2. Starting(W1, s1, {})
    <2>1. s1 \in Seq(W1)
        BY DEF Four
    <2>2. /\ DOMAIN s1 = 1 .. 5 /\ s1[1] = "allocator" /\ s1[2] = "array" /\ s1[3] = "rbtree"
          /\ s1[4] = "hash" /\ s1[5] = "skiplist"
        OBVIOUS
    <2> HIDE DEF s1
    <2>3. \A i \in DOMAIN s1 : Rank(s1[i]) = i
        <3>1. ASSUME NEW i \in 1 .. 5 PROVE i = 1 \/ i = 2 \/ i = 3 \/ i = 4 \/ i = 5
            OBVIOUS
        <3> QED
            BY <2>2, <3>1 DEF Rank
    <2>4. \A d \in W1 : \E i \in DOMAIN s1 : s1[i] = d
        BY <2>2 DEF Four
    <2> QED
        BY <2>1, <2>3, <2>4 DEF Starting
<1>3. Starting(W2, s2, {}) /\ W2 \subseteq W1 \cup {"aof"}
    <2>1. \A e \in W1 : Rank(e) < Rank("aof")
        BY DEF Four, Rank
    <2>2. Starting(W1 \cup {"aof"}, s1 \o <<"aof">>, {})
        BY <1>2, <2>1, BeginsMore
    <2>3. s1 \o <<>> = s1 /\ W1 \cup {} = W1
        OBVIOUS
    <2> QED
        BY <1>2, <2>2, <2>3
<1> HIDE DEF s1, s2
<1>4. Starting(W3, s3, {}) /\ W3 \subseteq W2 \cup {"replication"}
    <2>1. \A e \in W2 : Rank(e) < Rank("replication")
        BY DEF Four, Rank
    <2>2. Starting(W2 \cup {"replication"}, s2 \o <<"replication">>, {})
        BY <1>3, <2>1, BeginsMore
    <2>3. s2 \o <<>> = s2 /\ W2 \cup {} = W2
        BY <1>3 DEF Starting
    <2> QED
        BY <1>3, <2>2, <2>3
<1> HIDE DEF s3
<1>5. Starting(W4, s4, {}) /\ W4 \subseteq W3 \cup {"listener"}
    <2>1. \A e \in W3 : Rank(e) < Rank("listener")
        BY DEF Four, Rank
    <2>2. Starting(W3 \cup {"listener"}, s3 \o <<"listener">>, {})
        BY <1>4, <2>1, BeginsMore
    <2>3. s3 \o <<>> = s3 /\ W3 \cup {} = W3
        BY <1>4 DEF Starting
    <2> QED
        BY <1>4, <2>2, <2>3
<1> HIDE DEF s4
<1>6. Starting(W4 \cup {"network"}, s4 \o <<"network">>, {})
    <2>1. \A e \in W4 : Rank(e) < Rank("network")
        BY DEF Four, Rank
    <2> QED
        BY <1>5, <2>1, BeginsMore
<1>7. Wanted(c) = W4 \cup {"network"}
    BY DEF Wanted
<1>8. S!Startup(c) = s4 \o <<"network">>
    BY DEF S!Startup, s1, s2, s3, s4
<1> QED
    BY <1>6, <1>7, <1>8

\* While a server starts, what is up stands on what is up.
LEMMA StartingStands ==
    ASSUME NEW c, Accepted(c), NEW t, NEW L, Starting(Wanted(c), t, L)
    PROVE  /\ Stands(L, {})
           /\ L \subseteq S!Component
           /\ \A d \in L, e \in Wanted(c) : Rank(e) < Rank(d) => e \in L
<1>1. \A d \in S!Component : Rank(d) \in Nat
    BY DEF S!Component, Rank
<1>2. L \subseteq S!Component /\ Wanted(c) \subseteq S!Component
    BY WantedIs DEF Starting
<1>3. ASSUME NEW d \in L, NEW e \in Wanted(c), Rank(e) < Rank(d) PROVE e \in L
    <2>1. ASSUME NEW i \in DOMAIN t, t[i] = e PROVE FALSE
        <3>1. Rank(d) < Rank(e) /\ Rank(d) \in Nat /\ Rank(e) \in Nat
            BY <1>1, <1>2, <2>1 DEF Starting
        <3> QED
            BY <1>3, <3>1
    <2> QED
        BY <2>1 DEF Starting
<1>4. /\ Rank("allocator") = 1 /\ Rank("aof") = 6 /\ Rank("hash") = 4 /\ Rank("replication") = 7
      /\ Rank("listener") = 8 /\ Rank("network") = 9
      /\ \A e \in Four : Rank(e) \in Nat /\ 1 < Rank(e) /\ Rank(e) < 6
    BY DEF Rank, Four
<1>5. /\ {"allocator"} \cup Four \subseteq Wanted(c) /\ "hash" \in Four
      /\ "replication" \in Wanted(c) => "aof" \in Wanted(c)
      /\ "listener" \in Wanted(c) => "replication" \in Wanted(c)
    BY WantedIs DEF Four
<1>6. L \subseteq Wanted(c)
    BY DEF Starting
<1>7. L \cap (Four \cup {"network"}) # {} => "allocator" \in L
    BY <1>3, <1>4, <1>5
<1>8. "network" \in L => Four \subseteq L
    BY <1>3, <1>4, <1>5
<1>9. /\ "listener" \in L => "replication" \in L
      /\ "replication" \in L => {"aof", "hash"} \subseteq L
    BY <1>3, <1>4, <1>5, <1>6
<1> QED
    BY <1>2, <1>3, <1>7, <1>8, <1>9 DEF Stands

-----------------------------------------------------------------------------
(* The inductive invariant of the start.                                    *)

Files ==
    /\ file \in Seq(Line) /\ Len(file) <= MaxLines
    /\ S!Seen \subseteq S!Field
    /\ \A f \in S!Seen : parsed[f] \in S!Legal(f)
    /\ config = S!NoFields \/ config = parsed
    /\ S!AcceptedInOrder

Idle == live = {} /\ todo = <<>> /\ leaked = {}

\* What exit() leaves.
Aborted ==
    /\ {"allocator", "aof", "network"} \subseteq live /\ live \subseteq S!Component
    /\ leaked = {} /\ todo = <<>> /\ status = "failure"

StartInv ==
    /\ pc \in {"load", "refused", "failed", "start", "stop", "exited", "aborted"}
    /\ status \in {"success", "failure"}
    /\ Files
    /\ pc = "load" => Loaded(file, parsed) /\ config = S!NoFields
    /\ pc \in {"load", "refused", "failed"} => Idle
    /\ pc = "start" => Accepted(config) /\ leaked = {} /\ Starting(Wanted(config), todo, live)
    /\ pc \in {"stop", "exited"} => Stopping(todo, live, leaked)
    /\ pc = "exited" => todo = <<>>
    /\ pc \in {"load", "refused", "failed", "start"} => status = "failure"
    /\ "allocator" \in leaked => status = "failure"
    /\ pc = "aborted" => Aborted

\* What an engine, the AOF or the replication is released by.
LEMMA ReleasedBy ==
    ASSUME NEW d
    PROVE  /\ d \in S!Released(d)
           /\ \A e : d \in S!Released(e) <=> e = d \/ (d = "listener" /\ e = "replication")
    BY DEF S!Released

\* The sequence t lists the set D.
Lists(t, D) == t \in Seq(D) /\ \A d \in D : \E i \in DOMAIN t : t[i] = d

Joined(s, t) == s \o t

LEMMA ListsBoth ==
    ASSUME NEW s, NEW t, NEW D, NEW E, Lists(s, D), Lists(t, E), NEW u, u = Joined(s, t)
    PROVE  /\ Lists(u, D \cup E) /\ Len(u) = Len(s) + Len(t)
           /\ \A i \in DOMAIN u : \/ i \in DOMAIN s /\ u[i] = s[i] /\ u[i] \in D
                                  \/ i > Len(s) /\ u[i] \in E
<1> USE DEF Joined
<1>1. PICK m \in Nat, n \in Nat : /\ m = Len(s) /\ DOMAIN s = 1 .. m /\ s \in Seq(D)
                                  /\ n = Len(t) /\ DOMAIN t = 1 .. n /\ t \in Seq(E)
    BY DEF Lists
<1>2. /\ u \in Seq(D \cup E) /\ Len(u) = m + n /\ DOMAIN u = 1 .. m + n
      /\ \A i \in 1 .. m : u[i] = s[i] /\ u[i] \in D
      /\ \A i \in 1 .. n : u[m + i] = t[i] /\ u[m + i] \in E
    <2>1. s \in Seq(D \cup E) /\ t \in Seq(D \cup E)
        BY <1>1
    <2>2. \A i \in 1 .. n : m + i \in 1 .. m + n /\ ~(m + i <= m) /\ (m + i) - m = i
        BY <1>1
    <2>3. u \in Seq(D \cup E) /\ Len(u) = m + n /\ DOMAIN u = 1 .. m + n
        BY <1>1, <2>1
    <2>4. \A i \in 1 .. m : u[i] = s[i] /\ u[i] \in D
        BY <1>1
    <2>5. \A i \in 1 .. n : u[m + i] = t[i] /\ u[m + i] \in E
        BY <1>1, <2>2
    <2> QED
        BY <2>3, <2>4, <2>5
<1>3. ASSUME NEW d \in D \cup E PROVE \E i \in DOMAIN u : u[i] = d
    <2>1. CASE d \in D
        <3>1. PICK i \in 1 .. m : s[i] = d
            BY <1>1, <2>1 DEF Lists
        <3> QED
            BY <1>1, <1>2, <3>1
    <2>2. CASE d \in E
        <3>1. PICK i \in 1 .. n : t[i] = d
            BY <1>1, <2>2 DEF Lists
        <3>2. m + i \in DOMAIN u
            BY <1>1, <1>2
        <3> QED
            BY <1>2, <3>1, <3>2
    <2> QED
        BY <2>1, <2>2
<1>4. ASSUME NEW i \in DOMAIN u
      PROVE  \/ i \in DOMAIN s /\ u[i] = s[i] /\ u[i] \in D
             \/ i > Len(s) /\ u[i] \in E
    <2>1. CASE i <= m
        BY <1>1, <1>2, <2>1
    <2>2. CASE i > m
        <3>1. i - m \in 1 .. n /\ m + (i - m) = i
            BY <1>1, <1>2, <2>2
        <3> QED
            BY <1>1, <1>2, <2>2, <3>1
    <2> QED
        BY <1>1, <1>2, <2>1, <2>2
<1> QED
    BY <1>1, <1>2, <1>3, <1>4 DEF Lists

\* The parts of which the ways out are made.
LEMMA WayOutParts ==
    /\ Lists(S!Engines, Four)
    /\ Lists(<<"allocator">>, {"allocator"}) /\ Len(<<"allocator">>) = 1
    /\ Lists(<<"aof">>, {"aof"})
    /\ Lists(<<"replication", "aof">>, {"replication", "aof"})
    /\ \A i \in DOMAIN <<"replication", "aof">> :
           <<"replication", "aof">>[i] = "replication" => i = 1
<1>1. Lists(S!Engines, Four)
    BY DEF Lists, S!Engines, Four
<1>2. Lists(<<"allocator">>, {"allocator"}) /\ Lists(<<"aof">>, {"aof"})
    BY DEF Lists
<1>3. Lists(<<"replication", "aof">>, {"replication", "aof"})
    BY DEF Lists
<1> QED
    BY <1>1, <1>2, <1>3

\* The releases of a complete way out.
LEMMA WholeWayOut ==
    ASSUME NEW t, NEW L \in SUBSET (S!Component \ {"network"}), Stands(L, {}),
           \/ /\ t = <<"replication", "aof">> \o S!Engines \o <<"allocator">>
           \/ t = <<"aof">> \o S!Engines \o <<"allocator">> /\ L \cap {"replication", "listener"} = {}
           \/ /\ t = S!Engines \o <<"allocator">>
              /\ L \cap {"replication", "listener", "aof"} = {}
    PROVE  Stopping(t, L, {})
<1>1. PICK e, a, r, w :
         /\ e = S!Engines /\ a = <<"allocator">> /\ r = <<"replication", "aof">> /\ w = <<"aof">>
         /\ Lists(e, Four) /\ Lists(a, {"allocator"}) /\ Len(a) = 1
         /\ Lists(r, {"replication", "aof"}) /\ Lists(w, {"aof"})
         /\ \A i \in DOMAIN r : r[i] = "replication" => i = 1
    BY WayOutParts
<1>2. PICK u, D :
         /\ t = u \o a /\ Lists(u, D) /\ L \subseteq D \cup {"allocator", "listener"}
         /\ D \subseteq S!Component \ {"allocator", "listener"}
         /\ "listener" \in L => "replication" \in D
         /\ \A i \in DOMAIN u : u[i] = "replication" => i = 1
    <2>1. CASE t = <<"replication", "aof">> \o S!Engines \o <<"allocator">>
        <3>1. PICK u : u = r \o e /\ t = u \o a
            BY ONLY <1>1, <2>1
        <3>2. /\ Lists(u, {"replication", "aof"} \cup Four) /\ Len(u) = Len(r) + Len(e)
              /\ \A i \in DOMAIN u : \/ i \in DOMAIN r /\ u[i] = r[i] /\ u[i] \in {"replication", "aof"}
                                     \/ i > Len(r) /\ u[i] \in Four
            <4>1. PICK D : D = {"replication", "aof"}
                OBVIOUS
            <4>2. Lists(r, D) /\ Lists(e, Four) /\ u = Joined(r, e)
                BY ONLY <1>1, <3>1, <4>1 DEF Joined
            <4> QED
                BY ONLY <4>1, <4>2, ListsBoth
        <3>3. \A i \in DOMAIN u : u[i] = "replication" => i = 1
            BY <1>1, <3>2 DEF Four
        <3> QED
            BY <3>1, <3>2, <3>3 DEF Four, S!Component
    <2>2. CASE /\ t = <<"aof">> \o S!Engines \o <<"allocator">>
               /\ L \cap {"replication", "listener"} = {}
        <3>1. PICK u : u = w \o e /\ t = u \o a
            BY ONLY <1>1, <2>2
        <3>2. /\ Lists(u, {"aof"} \cup Four) /\ Len(u) = Len(w) + Len(e)
              /\ \A i \in DOMAIN u : \/ i \in DOMAIN w /\ u[i] = w[i] /\ u[i] \in {"aof"}
                                     \/ i > Len(w) /\ u[i] \in Four
            <4>1. PICK D : D = {"aof"}
                OBVIOUS
            <4>2. Lists(w, D) /\ Lists(e, Four) /\ u = Joined(w, e)
                BY ONLY <1>1, <3>1, <4>1 DEF Joined
            <4>3. /\ Lists(u, D \cup Four) /\ Len(u) = Len(w) + Len(e)
                  /\ \A i \in DOMAIN u : \/ i \in DOMAIN w /\ u[i] = w[i] /\ u[i] \in D
                                         \/ i > Len(w) /\ u[i] \in Four
                BY ONLY <4>2, ListsBoth
            <4> QED
                BY ONLY <4>1, <4>3
        <3>3. \A i \in DOMAIN u : u[i] # "replication"
            BY <3>2 DEF Four
        <3> QED
            BY <2>2, <3>1, <3>2, <3>3 DEF Four, S!Component
    <2>3. CASE /\ t = S!Engines \o <<"allocator">>
               /\ L \cap {"replication", "listener", "aof"} = {}
        <3>1. \A i \in DOMAIN e : e[i] \in Four
            BY <1>1 DEF Lists
        <3>2. t = e \o a /\ \A i \in DOMAIN e : e[i] # "replication"
            BY <1>1, <2>3, <3>1 DEF Four
        <3> QED
            BY <1>1, <2>3, <3>2 DEF Four, S!Component
    <2> QED
        BY <2>1, <2>2, <2>3
<1>3. /\ Lists(t, D \cup {"allocator"}) /\ Len(t) = Len(u) + Len(a)
      /\ \A i \in DOMAIN t : \/ i \in DOMAIN u /\ t[i] = u[i] /\ t[i] \in D
                             \/ i > Len(u) /\ t[i] \in {"allocator"}
    <2>1. PICK E : E = {"allocator"}
        OBVIOUS
    <2>2. Lists(u, D) /\ Lists(a, E) /\ t = Joined(u, a)
        BY ONLY <1>1, <1>2, <2>1 DEF Joined
    <2> QED
        BY ONLY <2>1, <2>2, ListsBoth
<1>4. Len(u) \in Nat /\ t \in Seq(S!Component \ {"listener"}) /\ DOMAIN t = 1 .. Len(t)
    <2>1. t \in Seq(D \cup {"allocator"}) /\ D \cup {"allocator"} \subseteq S!Component \ {"listener"}
        BY <1>2, <1>3 DEF Lists, S!Component
    <2>2. Len(u) \in Nat
        <3>1. u \in Seq(D)
            BY <1>2 DEF Lists
        <3> QED
            BY ONLY <3>1
    <2>3. PICK E, F : E = D \cup {"allocator"} /\ F = S!Component \ {"listener"}
        OBVIOUS
    <2>4. t \in Seq(E) /\ E \subseteq F
        BY ONLY <2>1, <2>3
    <2>5. t \in Seq(F) /\ DOMAIN t = 1 .. Len(t)
        BY ONLY <2>4
    <2> QED
        BY ONLY <2>2, <2>3, <2>5
<1>5. \A i \in DOMAIN t : /\ t[i] = "replication" => i = 1
                          /\ t[i] = "allocator" => i = Len(t)
    BY <1>1, <1>2, <1>3, <1>4
<1>6. ASSUME NEW d \in L PROVE \E i \in DOMAIN t : d \in S!Released(t[i])
    <2>1. CASE d = "listener"
        <3>1. PICK i \in DOMAIN t : t[i] = "replication"
            BY <1>2, <1>3, <2>1 DEF Lists
        <3> QED
            BY <2>1, <3>1, ReleasedBy
    <2>2. CASE d # "listener"
        <3>1. PICK i \in DOMAIN t : t[i] = d
            BY <1>2, <1>3, <2>2 DEF Lists
        <3> QED
            BY <3>1, ReleasedBy
    <2> QED
        BY <2>1, <2>2
<1> QED
    BY <1>4, <1>5, <1>6 DEF Stopping

\* The releases when an engine cannot be created.
LEMMA ShortWayOut ==
    ASSUME NEW x \in {"allocator"} \cup Four, NEW L \in SUBSET S!Component, Stands(L, {}),
           \A d \in L : Rank(d) < Rank(x)
    PROVE  Stopping(S!Takedown(x), L, {})
<1>1. \A d \in S!Component : d \in L =>
          \/ d = "allocator" /\ x # "allocator"
          \/ d = "array" /\ x \in {"rbtree", "hash", "skiplist"}
          \/ d = "rbtree" /\ x \in {"hash", "skiplist"}
          \/ d = "hash" /\ x = "skiplist"
    BY DEF Rank, S!Component, Four
<1>2. "network" \notin L
    BY <1>1
<1>3. CASE x = "allocator"
    <2>1. S!Takedown(x) = <<>> /\ L = {}
        BY <1>1, <1>3 DEF S!Takedown
    <2> QED
        BY <2>1 DEF Stopping
<1>4. CASE x = "array"
    <2>1. PICK t : t = S!Takedown(x) /\ t = <<"allocator">>
        BY <1>4 DEF S!Takedown
    <2>2. t \in Seq(S!Component \ {"listener"}) /\ Len(t) = 1 /\ DOMAIN t = 1 .. 1 /\ t[1] = "allocator"
        BY <2>1 DEF S!Component
    <2>3. \A d \in L : \E i \in DOMAIN t : d \in S!Released(t[i])
        BY <1>1, <1>4, <2>2, ReleasedBy
    <2> QED
        BY <1>2, <2>1, <2>2, <2>3 DEF Stopping
<1>5. CASE x = "rbtree"
    <2>1. PICK t : t = S!Takedown(x) /\ t = <<"array", "allocator">>
        BY <1>5 DEF S!Takedown
    <2>2. /\ t \in Seq(S!Component \ {"listener"}) /\ Len(t) = 2 /\ DOMAIN t = 1 .. 2
          /\ t[1] = "array" /\ t[2] = "allocator"
        BY <2>1 DEF S!Component
    <2>3. \A d \in L : \E i \in DOMAIN t : d \in S!Released(t[i])
        BY <1>1, <1>5, <2>2, ReleasedBy
    <2>4. \A i \in DOMAIN t : t[i] # "replication" /\ (t[i] = "allocator" => i = Len(t))
        BY <2>2
    <2> QED
        BY <1>2, <2>1, <2>2, <2>3, <2>4 DEF Stopping
<1>6. CASE x = "hash"
    <2>1. PICK t : t = S!Takedown(x) /\ t = <<"rbtree", "array", "allocator">>
        BY <1>6 DEF S!Takedown
    <2>2. /\ t \in Seq(S!Component \ {"listener"}) /\ Len(t) = 3 /\ DOMAIN t = 1 .. 3
          /\ t[1] = "rbtree" /\ t[2] = "array" /\ t[3] = "allocator"
        BY <2>1 DEF S!Component
    <2>3. \A d \in L : \E i \in DOMAIN t : d \in S!Released(t[i])
        BY <1>1, <1>6, <2>2, ReleasedBy
    <2>4. \A i \in DOMAIN t : t[i] # "replication" /\ (t[i] = "allocator" => i = Len(t))
        BY <2>2
    <2> QED
        BY <1>2, <2>1, <2>2, <2>3, <2>4 DEF Stopping
<1>7. CASE x = "skiplist"
    <2>1. PICK t : t = S!Takedown(x) /\ t = <<"hash", "rbtree", "array", "allocator">>
        BY <1>7 DEF S!Takedown
    <2>2. /\ t \in Seq(S!Component \ {"listener"}) /\ Len(t) = 4 /\ DOMAIN t = 1 .. 4
          /\ t[1] = "hash" /\ t[2] = "rbtree" /\ t[3] = "array" /\ t[4] = "allocator"
        BY <2>1 DEF S!Component
    <2>3. \A d \in L : \E i \in DOMAIN t : d \in S!Released(t[i])
        BY <1>1, <1>7, <2>2, ReleasedBy
    <2>4. \A i \in DOMAIN t : t[i] # "replication" /\ (t[i] = "allocator" => i = Len(t))
        BY <2>2
    <2> QED
        BY <1>2, <2>1, <2>2, <2>3, <2>4 DEF Stopping
<1> QED
    BY <1>3, <1>4, <1>5, <1>6, <1>7 DEF Four

\* A component fails to start.
LEMMA FailsToStart ==
    ASSUME NEW c, Accepted(c), NEW t, NEW L, Starting(Wanted(c), t, L), t # <<>>, NEW x, x = Head(t)
    PROVE  Stopping(S!Takedown(x), L \cup ({x} \cap {"listener"}), {})
<1>1. x \in Wanted(c) /\ x \in S!Component /\ 1 \in DOMAIN t /\ t[1] = x
    BY WantedIs DEF Starting
<1>2. Stands(L, {}) /\ L \subseteq S!Component
    BY StartingStands
<1>3. \A d \in L : Rank(d) < Rank(x)
    BY <1>1 DEF Starting
<1>4. CASE x \in {"allocator"} \cup Four
    <2>1. L \cup ({x} \cap {"listener"}) = L
        BY <1>4 DEF Four
    <2>2. Stopping(S!Takedown(x), L, {})
        BY <1>2, <1>3, <1>4, ShortWayOut
    <2> QED
        BY <2>1, <2>2
<1>5. CASE x = "aof"
    <2>1. L \cap {"replication", "listener", "aof", "network"} = {}
        BY <1>3, <1>5 DEF Rank
    <2>2. S!Takedown(x) = S!Engines \o <<"allocator">> /\ L \cup ({x} \cap {"listener"}) = L
        BY <1>5 DEF S!Takedown
    <2> QED
        BY <1>2, <2>1, <2>2, WholeWayOut
<1>6. CASE x = "replication"
    <2>1. L \cap {"replication", "listener", "network"} = {}
        BY <1>3, <1>6 DEF Rank
    <2>2. /\ S!Takedown(x) = <<"aof">> \o S!Engines \o <<"allocator">>
          /\ L \cup ({x} \cap {"listener"}) = L
        BY <1>6 DEF S!Takedown
    <2> QED
        BY <1>2, <2>1, <2>2, WholeWayOut
<1>7. CASE x \in {"listener", "network"}
    <2>1. "network" \notin L
        BY <1>3, <1>7 DEF Rank
    <2>2. S!Takedown(x) = <<"replication", "aof">> \o S!Engines \o <<"allocator">>
        BY <1>7 DEF S!Takedown
    <2>3. x = "listener" => "replication" \in L
        <3>1. ASSUME x = "listener", "replication" \notin L PROVE FALSE
            <4>1. PICK i \in DOMAIN t : t[i] = "replication"
                BY <1>1, <3>1, WantedIs DEF Starting
            <4>2. i # 1 /\ 1 < i
                BY <1>1, <3>1, <4>1 DEF Starting
            <4>3. Rank("listener") < Rank("replication")
                BY <1>1, <3>1, <4>1, <4>2 DEF Starting
            <4> QED
                BY <4>3 DEF Rank
        <3> QED
            BY <3>1
    <2>4. PICK M : M = L \cup ({x} \cap {"listener"})
        OBVIOUS
    <2>5. M \subseteq S!Component \ {"network"} /\ Stands(M, {})
        BY <1>1, <1>2, <2>1, <2>3, <2>4 DEF Stands, Four
    <2> QED
        BY <2>2, <2>4, <2>5, WholeWayOut
<1> QED
    BY <1>1, <1>4, <1>5, <1>6, <1>7 DEF S!Component, Four

\* A component starts.
LEMMA Starts ==
    ASSUME NEW W, NEW t, NEW L, Starting(W, t, L), t # <<>>
    PROVE  Starting(W, Tail(t), L \cup {Head(t)})
<1>1. PICK n \in Nat : n = Len(t) /\ DOMAIN t = 1 .. n /\ n # 0 /\ t \in Seq(W)
    BY DEF Starting
<1>2. PICK u, x : u = Tail(t) /\ x = Head(t)
    OBVIOUS
<1>3. /\ u \in Seq(W) /\ DOMAIN u = 1 .. n - 1 /\ x = t[1] /\ x \in W
      /\ \A i \in DOMAIN u : u[i] = t[i + 1] /\ i + 1 \in DOMAIN t /\ 1 < i + 1
    BY <1>1, <1>2
<1>4. \A i, j \in DOMAIN u : i < j => Rank(u[i]) < Rank(u[j])
    <2>1. ASSUME NEW i \in DOMAIN u, NEW j \in DOMAIN u, i < j PROVE i + 1 < j + 1
        BY <1>3, <2>1
    <2> QED
        BY <1>3, <2>1 DEF Starting
<1>5. ASSUME NEW d \in W PROVE d \in L \cup {x} \/ \E i \in DOMAIN u : u[i] = d
    <2>1. CASE d \notin L \cup {x}
        <3>1. PICK i \in DOMAIN t : t[i] = d
            BY <2>1 DEF Starting
        <3>2. i # 1
            BY <1>3, <2>1, <3>1
        <3>3. i - 1 \in DOMAIN u /\ (i - 1) + 1 = i
            BY <1>1, <1>3, <3>2
        <3> QED
            BY <1>3, <3>1, <3>3
    <2> QED
        BY <2>1
<1>6. \A d \in L \cup {x} : \A i \in DOMAIN u : Rank(d) < Rank(u[i])
    <2>1. 1 \in DOMAIN t
        BY <1>1
    <2> QED
        BY <1>3, <2>1 DEF Starting
<1>7. Starting(W, u, L \cup {x})
    BY <1>3, <1>4, <1>5, <1>6 DEF Starting
<1> QED
    BY <1>2, <1>7

\* The next component is released, or the replication or the allocator given up.
LEMMA Releases ==
    ASSUME NEW t, NEW L, NEW K, Stopping(t, L, K), t # <<>>, NEW x, x = Head(t)
    PROVE  /\ Stopping(Tail(t), L \ S!Released(x), K)
           /\ x \in {"replication", "allocator"} /\ x \in L =>
                  Stopping(Tail(t), L, K \cup (L \cap S!Released(x)))
<1>1. PICK n \in Nat : /\ n = Len(t) /\ DOMAIN t = 1 .. n /\ n # 0 /\ t \in Seq(S!Component \ {"listener"})
                       /\ x = t[1] /\ 1 \in DOMAIN t
    BY DEF Stopping
<1>2. PICK u : u = Tail(t)
    OBVIOUS
<1>3. /\ u \in Seq(S!Component \ {"listener"}) /\ Len(u) = n - 1 /\ DOMAIN u = 1 .. n - 1
      /\ \A i \in DOMAIN u : i + 1 \in DOMAIN t /\ i + 1 # 1 /\ u[i] = t[i + 1]
    BY <1>1, <1>2
<1>4. \A i \in DOMAIN u : /\ u[i] # "replication"
                          /\ u[i] = "allocator" => i = Len(u)
    <2>1. ASSUME NEW i \in DOMAIN u PROVE i \in Nat /\ (i + 1 = n => i = n - 1)
        BY <1>1, <1>3
    <2> QED
        BY <1>1, <1>3, <2>1 DEF Stopping
<1>5. \A d \in L \ K : d \in S!Released(x) \/ \E i \in DOMAIN u : d \in S!Released(u[i])
    <2>1. ASSUME NEW d \in L \ K, d \notin S!Released(x)
          PROVE  \E i \in DOMAIN u : d \in S!Released(u[i])
        <3>1. PICK i \in DOMAIN t : d \in S!Released(t[i])
            BY DEF Stopping
        <3>2. i # 1
            BY <1>1, <2>1, <3>1
        <3>3. i - 1 \in DOMAIN u /\ (i - 1) + 1 = i
            BY <1>1, <1>3, <3>2
        <3> QED
            BY <1>3, <3>1, <3>3
    <2> QED
        BY <2>1
<1>6. /\ L \subseteq S!Component \ {"network"}
      /\ K \subseteq L \cap {"replication", "listener"}
    BY DEF Stopping
<1>7. x = "replication" => K = {}
    BY <1>1 DEF Stopping
<1>8. x # "replication" => S!Released(x) = {x}
    BY DEF S!Released
<1>9. S!Released("replication") = {"replication", "listener"}
    BY DEF S!Released
<1>10. \A d \in L \ K : x # "replication" => d \notin {"replication", "listener"} \/ d \in S!Released(x)
    <2>1. ASSUME NEW d \in L \ K, d \in {"replication", "listener"}, d \notin S!Released(x)
          PROVE  FALSE
        <3>1. PICK i \in DOMAIN u : d \in S!Released(u[i])
            BY <1>5, <2>1
        <3>2. u[i] # "replication" /\ u[i] # "listener"
            BY <1>3, <1>4
        <3> QED
            BY <2>1, <3>1, <3>2, ReleasedBy
    <2> QED
        BY <2>1
<1>11. x = "allocator" => \A d \in L \ K : d = "allocator"
    <2>1. x = "allocator" => n = 1
        BY <1>1 DEF Stopping
    <2>2. x = "allocator" => DOMAIN u = {}
        BY <1>1, <1>3, <2>1
    <2> QED
        BY <1>5, <1>8, <2>2
<1>12. CASE x = "replication"
    <2>1. Stands(L \ S!Released(x), K)
        BY <1>6, <1>7, <1>9, <1>12 DEF Stopping, Stands, Four
    <2>2. Stopping(u, L \ S!Released(x), K)
        BY <1>3, <1>4, <1>5, <1>6, <1>7, <2>1 DEF Stopping
    <2>3. PICK M : /\ M = L \cap S!Released(x) /\ M \subseteq L \cap {"replication", "listener"}
                   /\ K \cup M = M
        BY <1>7, <1>9, <1>12
    <2>4. Stands(L, M)
        BY <1>7, <1>12, <2>3 DEF Stopping, Stands, Four
    <2>5. \A d \in L \ M : \E i \in DOMAIN u : d \in S!Released(u[i])
        BY <1>5, <1>7, <1>12, <2>3
    <2>6. Stopping(u, L, M)
        BY <1>3, <1>4, <1>6, <2>3, <2>4, <2>5 DEF Stopping
    <2> QED
        BY <1>2, <2>2, <2>3, <2>6
<1>13. CASE x # "replication"
    <2>1. S!Released(x) = {x} /\ "network" \notin L
        BY <1>6, <1>8, <1>13
    <2>2. K \subseteq L \ {x}
        \* what could not be released is not released later
        <3>1. x # "listener"
            BY <1>1
        <3> QED
            BY <1>6, <1>13, <3>1
    <2>3. Stands(L \ {x}, K)
        BY <1>10, <1>11, <1>13, <2>1 DEF Stopping, Stands, Four
    <2>4. Stopping(u, L \ {x}, K)
        BY <1>3, <1>4, <1>5, <1>6, <2>1, <2>2, <2>3 DEF Stopping
    <2>5. ASSUME x = "allocator", x \in L PROVE Stopping(u, L, K \cup (L \cap S!Released(x)))
        <3>1. u = <<>> /\ \A d \in L \ K : d = "allocator"
            <4>1. n = 1
                BY <1>1, <2>5 DEF Stopping
            <4> QED
                BY <1>3, <1>11, <2>5, <4>1
        <3>2. PICK M : M = K \cup (L \cap S!Released(x)) /\ M = K \cup {"allocator"}
            BY <2>1, <2>5
        <3>3. /\ M \subseteq L \cap {"replication", "listener", "allocator"} /\ L \ M = {}
              /\ Stands(L, M)
            BY <1>6, <2>5, <3>1, <3>2 DEF Stands
        <3>4. Stopping(u, L, M)
            BY <1>3, <1>6, <3>1, <3>3 DEF Stopping
        <3> QED
            BY <3>2, <3>4
    <2> QED
        BY <1>2, <1>13, <2>1, <2>4, <2>5
<1> QED
    BY <1>12, <1>13

LEMMA StartInit == ASSUME S!LineAssumption, S!Init PROVE StartInv
<1>1. Loaded(<<>>, S!NoFields)
    BY DEF Loaded, S!NoFields
<1>2. Files
    BY DEF S!Init, Files, S!AcceptedInOrder, S!Seen, S!NoFields, S!LineAssumption
<1> QED
    BY <1>1, <1>2 DEF S!Init, StartInv, Idle

LEMMA NextInOrder ==
    ASSUME NEW F, file' = F
    PROVE  S!InOrder(file)' <=> S!InOrder(F)
    BY DEF S!InOrder, S!Required, S!Optional

\* The files stay what they are once the loader has ended.
LEMMA SameFiles ==
    ASSUME Files, UNCHANGED <<file, parsed, config>>,
           \/ pc' = pc \/ pc' = "failed"
           \/ pc \in {"start", "stop"} /\ pc' \in {"stop", "exited", "aborted"}
    PROVE  Files'
<1>1. S!InOrder(file)' <=> S!InOrder(file)
    BY NextInOrder
<1>2. S!AcceptedInOrder'
    BY <1>1 DEF Files, S!AcceptedInOrder
<1> QED
    BY <1>2 DEF Files, S!Seen, S!Legal

LEMMA StartNextInv ==
    ASSUME S!LineAssumption, StartInv, [S!Next]_(S!vars)
    PROVE  StartInv'
<1>1. CASE \E l \in Line : S!ReadLine(l)
    <2>1. PICK l \in Line : S!ReadLine(l)
        BY <1>1
    <2>2. /\ Loaded(file, parsed) /\ config = S!NoFields /\ Idle /\ Idle' /\ config' = config
          /\ file' = Append(file, l) /\ Len(file) < MaxLines /\ pc = "load" /\ status' = status
        BY <2>1 DEF StartInv, S!ReadLine, S!LoaderIdle, Idle
    <2>3. file' \in Seq(Line) /\ Len(file') <= MaxLines
        BY <2>2 DEF Loaded, S!LineAssumption
    <2>4. PICK F : F = file' /\ F = Append(file, l)
        BY <2>2
    <2>5. CASE S!Refused(l)
        <3>1. pc' = "refused" /\ parsed' = parsed
            BY <2>1, <2>5 DEF S!ReadLine
        <3>2. ~S!InOrder(F)
            BY <2>2, <2>4, <2>5, LineRead
        <3>3. S!AcceptedInOrder'
            BY <2>4, <3>1, <3>2, NextInOrder DEF S!AcceptedInOrder
        <3>4. Files'
            BY <2>2, <2>3, <3>1, <3>3 DEF StartInv, Files, S!Seen, S!Legal
        <3> QED
            BY <2>2, <3>1, <3>4 DEF StartInv, Idle
    <2>6. CASE ~S!Refused(l)
        <3>1. pc' = "load"
            BY <2>1, <2>2, <2>6 DEF S!ReadLine
        <3>2. Loaded(F, parsed')
            BY <2>1, <2>2, <2>4, <2>6, LineRead DEF S!ReadLine, S!Seen
        <3>3. \A f \in DOMAIN parsed' : f \in S!Field /\ parsed'[f] \in S!Legal(f)
            BY <3>2, LoadedFields
        <3>4. Files'
            BY <2>2, <2>3, <3>1, <3>3 DEF Files, S!Seen, S!Legal, S!AcceptedInOrder
        <3>5. Loaded(file, parsed)'
            BY <2>4, <3>2 DEF Loaded, Agrees, IsField, S!Legal
        <3> QED
            BY <2>2, <3>1, <3>4, <3>5 DEF StartInv, Idle
    <2> QED
        BY <2>5, <2>6
<1>2. CASE S!LoadFails
    <2>1. /\ pc = "load" /\ pc' = "failed" /\ UNCHANGED <<file, parsed, config>>
          /\ Idle /\ UNCHANGED <<live, todo, leaked, status>>
        BY <1>2 DEF S!LoadFails, S!LoaderIdle, StartInv
    <2>2. Files'
        BY <2>1, SameFiles DEF StartInv
    <2> QED
        BY <2>1, <2>2 DEF StartInv, Idle
<1>3. CASE S!EndOfFile
    <2>1. /\ pc = "load" /\ Loaded(file, parsed) /\ Idle /\ config = S!NoFields
          /\ UNCHANGED <<file, parsed, live, leaked, status>>
        BY <1>3 DEF S!EndOfFile, StartInv
    <2>2. S!Valid <=> Accepted(parsed)
        BY <2>1, ValidMeans
    <2>3. S!InOrder(file) <=> Accepted(parsed)
        BY <2>1, OrderMeans
    <2>4. CASE S!Valid
        <3>1. pc' = "start" /\ config' = parsed /\ todo' = S!Startup(parsed)
            BY <1>3, <2>4 DEF S!EndOfFile
        <3>2. Files'
            <4>1. S!InOrder(file)' <=> S!InOrder(file)
                BY <2>1, NextInOrder
            <4>2. S!AcceptedInOrder'
                BY <2>2, <2>3, <2>4, <3>1, <4>1 DEF S!AcceptedInOrder
            <4> QED
                BY <2>1, <3>1, <4>2 DEF StartInv, Files, S!Seen, S!Legal
        <3>3. Starting(Wanted(parsed), S!Startup(parsed), {})
            BY <2>2, <2>4, Begins
        <3>4. Accepted(config') /\ Starting(Wanted(config'), todo', live') /\ leaked' = {}
            BY <2>1, <2>2, <2>4, <3>1, <3>3 DEF Idle
        <3> QED
            BY <2>1, <3>1, <3>2, <3>4 DEF StartInv
    <2>5. CASE ~S!Valid
        <3>1. pc' = "refused" /\ config' = config /\ todo' = todo
            BY <1>3, <2>5 DEF S!EndOfFile
        <3>2. Files'
            <4>1. S!InOrder(file)' <=> S!InOrder(file)
                BY <2>1, NextInOrder
            <4>2. S!AcceptedInOrder'
                BY <2>2, <2>3, <2>5, <3>1, <4>1 DEF S!AcceptedInOrder
            <4> QED
                BY <2>1, <3>1, <4>2 DEF StartInv, Files, S!Seen, S!Legal
        <3> QED
            BY <2>1, <3>1, <3>2 DEF StartInv, Idle
    <2> QED
        BY <2>4, <2>5
<1>4. CASE S!StartNext
    <2>1. /\ pc = "start" /\ todo # <<>> /\ UNCHANGED <<file, parsed, config, leaked, status>>
          /\ Accepted(config) /\ leaked = {} /\ Starting(Wanted(config), todo, live)
        BY <1>4 DEF S!StartNext, StartInv
    <2>2. CASE live' = live \cup {Head(todo)} /\ todo' = Tail(todo) /\ pc' = pc
        <3>1. Starting(Wanted(config'), todo', live')
            BY <2>1, <2>2, Starts
        <3>2. Files'
            BY <2>1, <2>2, SameFiles DEF StartInv
        <3> QED
            BY <2>1, <2>2, <3>1, <3>2 DEF StartInv
    <2>3. CASE /\ pc' = "stop" /\ live' = live \cup ({Head(todo)} \cap {"listener"})
               /\ todo' = S!Takedown(Head(todo))
        <3>1. Stopping(todo', live', leaked')
            BY <2>1, <2>3, FailsToStart
        <3>2. Files'
            BY <2>1, <2>3, SameFiles DEF StartInv
        <3> QED
            BY <2>1, <2>3, <3>1, <3>2 DEF StartInv
    <2> QED
        BY <1>4, <2>2, <2>3 DEF S!StartNext
<1>5. CASE S!RecoveryFails
    <2>1. /\ pc = "start" /\ todo # <<>> /\ UNCHANGED <<file, parsed, config, live, leaked, status>>
          /\ Accepted(config) /\ leaked = {} /\ Starting(Wanted(config), todo, live)
          /\ config["persistence_mode"] = "snapshot" /\ Head(todo) = "network"
          /\ pc' = "stop" /\ todo' = S!Engines \o <<"allocator">>
        BY <1>5 DEF S!RecoveryFails, StartInv
    <2>2. Stands(live, {}) /\ live \subseteq S!Component
        BY <2>1, StartingStands
    <2>3. "network" \notin live
        <3>1. 1 \in DOMAIN todo /\ todo[1] = "network"
            BY <2>1 DEF Starting
        <3> QED
            BY <2>1, <3>1 DEF Starting, Rank
    <2>4. live \cap {"replication", "listener", "aof"} = {}
        BY <2>1, WantedIs DEF Starting
    <2>5. Stopping(todo', live, {})
        BY <2>1, <2>2, <2>3, <2>4, WholeWayOut
    <2>6. Files'
        BY <2>1, SameFiles DEF StartInv
    <2> QED
        BY <2>1, <2>5, <2>6 DEF StartInv
<1>6. CASE S!ServiceEnds
    <2>1. /\ pc = "start" /\ UNCHANGED <<file, parsed, config, leaked>>
          /\ Accepted(config) /\ leaked = {} /\ Starting(Wanted(config), todo, live)
          /\ pc' = "stop" /\ live' = live \ {"network"} /\ status' = "success"
          /\ todo' = <<"replication", "aof">> \o S!Engines \o <<"allocator">>
        BY <1>6 DEF S!ServiceEnds, S!Serving, StartInv, S!Takedown
    <2>2. Stands(live, {}) /\ live \subseteq S!Component
        BY <2>1, StartingStands
    <2>3. Stands(live', {}) /\ live' \subseteq S!Component \ {"network"}
        BY <2>1, <2>2 DEF Stands, Four
    <2>4. Stopping(todo', live', {})
        BY <2>1, <2>3, WholeWayOut
    <2>5. Files'
        BY <2>1, SameFiles DEF StartInv
    <2> QED
        BY <2>1, <2>4, <2>5 DEF StartInv
<1>7. CASE S!StopNext
    <2>1. /\ pc = "stop" /\ pc' = pc /\ todo # <<>> /\ UNCHANGED <<file, parsed, config>>
          /\ todo' = Tail(todo) /\ Stopping(todo, live, leaked)
        BY <1>7 DEF S!StopNext, StartInv
    <2>2. Stopping(todo', live', leaked')
        <3>1. PICK x : x = Head(todo)
            OBVIOUS
        <3>2. /\ Stopping(todo', live \ S!Released(x), leaked)
              /\ x \in {"replication", "allocator"} /\ x \in live =>
                    Stopping(todo', live, leaked \cup (live \cap S!Released(x)))
            BY <2>1, <3>1, Releases
        <3>3. \/ live' = live \ S!Released(x) /\ leaked' = leaked
              \/ /\ x \in {"replication", "allocator"} /\ x \in live /\ live' = live
                 /\ leaked' = leaked \cup (live \cap S!Released(x))
            BY <1>7, <3>1 DEF S!StopNext
        <3> QED
            BY <3>2, <3>3
    <2>3. Files'
        BY <2>1, SameFiles DEF StartInv
    <2>4. status' \in {"success", "failure"} /\ ("allocator" \in leaked' => status' = "failure")
        BY <1>7 DEF S!StopNext, StartInv, S!Released
    <2> QED
        BY <2>1, <2>2, <2>3, <2>4 DEF StartInv
<1>8. CASE S!Exit
    <2>1. /\ pc = "stop" /\ pc' = "exited" /\ todo = <<>>
          /\ UNCHANGED <<file, parsed, config, live, todo, leaked, status>>
        BY <1>8 DEF S!Exit
    <2>2. Files'
        BY <2>1, SameFiles DEF StartInv
    <2> QED
        BY <2>1, <2>2 DEF StartInv
<1>9. CASE S!Ended \/ UNCHANGED S!vars
    <2>1. UNCHANGED <<pc, file, parsed, config, live, todo, leaked, status>>
        BY <1>9 DEF S!Ended, S!vars
    <2>2. Files'
        BY <2>1, SameFiles DEF StartInv
    <2>3. Loaded(file, parsed) <=> Loaded(file, parsed)'
        BY <2>1 DEF Loaded, Agrees, IsField, S!Legal
    <2> QED
        BY <2>1, <2>2, <2>3 DEF StartInv, Idle, Aborted
<1>10. CASE S!AppendFails \/ S!EnginesLost
    <2>1. /\ pc = "start" /\ todo = <<>> /\ pc' = "aborted"
          /\ UNCHANGED <<file, parsed, config, todo, leaked, status>>
          /\ Accepted(config) /\ leaked = {} /\ Starting(Wanted(config), todo, live)
          /\ status = "failure"
        BY <1>10 DEF S!AppendFails, S!EnginesLost, S!Serving, StartInv
    <2>2. Wanted(config) \subseteq live /\ live \subseteq S!Component
        <3>1. DOMAIN todo = {}
            BY <2>1
        <3> QED
            BY <2>1, <3>1, WantedIs DEF Starting
    <2>3. {"allocator", "network"} \subseteq live
        BY <2>1, <2>2, WantedIs
    <2>4. {"allocator", "aof", "network"} \subseteq live' /\ live' \subseteq live
        <3>1. CASE S!AppendFails
            BY <2>3, <3>1 DEF S!AppendFails
        <3>2. CASE S!EnginesLost
            <4>1. "aof" \in live
                BY <2>1, <2>2, <3>2 DEF S!EnginesLost, Accepted, Wanted
            <4>2. S!Range(S!Engines) = Four
                BY DEF S!Range, S!Engines, Four
            <4> QED
                BY <2>3, <3>2, <4>1, <4>2 DEF S!EnginesLost, Four
        <3> QED
            BY <1>10, <3>1, <3>2
    <2>5. Files'
        BY <2>1, SameFiles DEF StartInv
    <2> QED
        BY <2>1, <2>2, <2>4, <2>5 DEF StartInv, Aborted
<1> QED
    BY <1>1, <1>2, <1>3, <1>4, <1>5, <1>6, <1>7, <1>8, <1>9, <1>10 DEF S!Next

\* kvs_config_load accepts exactly the files that are in order, whatever the order,
\* the number and the kind of their lines.
THEOREM LoadsWhatIsInOrder ==
    ASSUME S!LineAssumption
    PROVE  S!Spec => [](S!TypeOK /\ S!AcceptedInOrder)
<1>1. S!Init => StartInv
    BY StartInit
<1>2. StartInv /\ [S!Next]_(S!vars) => StartInv'
    BY StartNextInv
<1>3. StartInv => S!TypeOK /\ S!AcceptedInOrder
    <2>1. ASSUME StartInv
          PROVE  /\ live \subseteq S!Component /\ leaked \subseteq live
                 /\ todo \in Seq(S!Component)
        <3>1. CASE pc \in {"load", "refused", "failed"}
            <4>1. live = {} /\ leaked = {} /\ todo = <<>>
                BY <2>1, <3>1 DEF StartInv, Idle
            <4> QED
                BY <4>1
        <3>2. CASE pc = "start"
            BY <2>1, <3>2, WantedIs DEF StartInv, Starting
        <3>3. CASE pc \in {"stop", "exited"}
            BY <2>1, <3>3 DEF StartInv, Stopping
        <3>4. CASE pc = "aborted"
            BY <2>1, <3>4 DEF StartInv, Aborted
        <3> QED
            BY <2>1, <3>1, <3>2, <3>3, <3>4 DEF StartInv
    <2> QED
        BY <2>1 DEF StartInv, Files, S!TypeOK
<1> QED
    BY <1>1, <1>2, <1>3, PTL DEF S!Spec

\* kvs_server_run and main: at no moment of a start, and of no return from it, is a
\* component up without what it works on, and a process that returns from main has
\* released everything but what kvs_replication_destroy and kvs_allocator_destroy
\* could not, with a failure in the latter case.  exit() ends only a server that is
\* in service with an AOF, with a failure.
THEOREM ExitsClean ==
    ASSUME S!LineAssumption
    PROVE  S!Spec => [](S!CleanExit /\ S!StandsOnLive)
<1>1. S!Init => StartInv
    BY StartInit
<1>2. StartInv /\ [S!Next]_(S!vars) => StartInv'
    BY StartNextInv
<1>3. StartInv => S!CleanExit /\ S!StandsOnLive
    <2>1. ASSUME StartInv, pc # "aborted" PROVE Stands(live, leaked)
        <3>1. CASE pc \in {"load", "refused", "failed"}
            BY <2>1, <3>1 DEF StartInv, Idle, Stands, Four
        <3>2. CASE pc = "start"
            BY <2>1, <3>2, StartingStands DEF StartInv
        <3>3. CASE pc \in {"stop", "exited"}
            BY <2>1, <3>3 DEF StartInv, Stopping
        <3> QED
            BY <2>1, <3>1, <3>2, <3>3 DEF StartInv
    <2>2. ASSUME StartInv, pc = "exited"
          PROVE  live = leaked /\ leaked \subseteq {"replication", "listener", "allocator"}
        <3>1. Stopping(<<>>, live, leaked)
            BY <2>2 DEF StartInv
        <3>2. \A d \in live : d \in leaked
            BY <3>1 DEF Stopping
        <3>3. leaked \subseteq live \cap {"replication", "listener", "allocator"}
            BY <3>1 DEF Stopping
        <3> QED
            BY <3>2, <3>3
    <2>3. S!Released("replication") = {"replication", "listener"}
        BY DEF S!Released
    <2>4. ASSUME StartInv PROVE S!CleanExit
        BY <2>2, <2>3, <2>4 DEF StartInv, Aborted, S!CleanExit
    <2>5. ASSUME StartInv PROVE S!StandsOnLive
        <3>1. CASE pc = "aborted"
            BY <3>1 DEF S!StandsOnLive
        <3>2. CASE pc # "aborted"
            BY <2>1, <2>5, <3>2, StandsMeans
        <3> QED
            BY <3>1, <3>2
    <2> QED
        BY <2>4, <2>5
<1> QED
    BY <1>1, <1>2, <1>3, PTL DEF S!Spec
=============================================================================
