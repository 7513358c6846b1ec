---------------------------- MODULE ReplayProof -----------------------------
(***************************************************************************)
(* What a replay of the append-only file computes, for a file of any       *)
(* length.                                                                 *)
(*                                                                         *)
(* Replay is a fold over the positions of the file, so a proof about it is *)
(* an induction.  No operator stands for the induction hypothesis here:    *)
(* the numbers for which it holds are a set, and NatSetInduction takes the *)
(* least number outside of it.  RunExists and RunUnique turn the fold into *)
(* a sequence of states, one per step, and Iterated says what the last of  *)
(* them is.                                                                *)
(***************************************************************************)
EXTENDS KVEngine, TLAPS, WellFoundedInduction

-----------------------------------------------------------------------------
(* Induction and recursion, without an operator as a parameter.             *)

Below == {ss \in Nat \X Nat : ss[1] < ss[2]}

\* Below is the order of the natural numbers.
LEMMA BelowIs == \A x, y \in Nat : <<x, y>> \in Below <=> x < y
    BY DEF Below

\* The natural numbers are well founded.
LEMMA BelowWellFounded == IsWellFoundedOn(Below, Nat)
    BY NatLessThanWellFounded DEF Below, OpToRel

\* A set that holds 0 and the successor of each of its numbers holds them all.
LEMMA NatSetInduction ==
    ASSUME NEW S, 0 \in S, \A n \in Nat : n \in S => n + 1 \in S
    PROVE  \A n \in Nat : n \in S
<1> DEFINE T == Nat \ S
<1> SUFFICES ASSUME T # {} PROVE FALSE
    OBVIOUS
<1>1. PICK x \in T : \A y \in T : ~ (<<y, x>> \in Below)
    <2>1. T \subseteq Nat
        OBVIOUS
    <2> HIDE DEF T
    <2> QED
        BY BelowWellFounded, WFMin, <2>1
<1>2. x # 0 /\ x - 1 \in Nat /\ x - 1 < x
    OBVIOUS
<1>3. x - 1 \notin T
    BY <1>1, <1>2, BelowIs
<1> QED
    BY <1>2, <1>3

\* The run of g from f0, up to N.
Run(D, f0, g, N, f) ==
    /\ f \in [0 .. N -> D]
    /\ f[0] = f0
    /\ \A n \in 0 .. N : n > 0 => f[n] = g[f[n - 1]]

\* There is a run of every length.
LEMMA RunExists ==
    ASSUME NEW D, NEW f0 \in D, NEW g \in [D -> D]
    PROVE  \A N \in Nat : \E f : Run(D, f0, g, N, f)
<1> DEFINE S == {N \in Nat : \E f : Run(D, f0, g, N, f)}
<1>1. 0 \in S
    <2> DEFINE f == [n \in 0 .. 0 |-> f0]
    <2>1. f \in [0 .. 0 -> D] /\ f[0] = f0
        OBVIOUS
    <2> HIDE DEF f
    <2>2. Run(D, f0, g, 0, f)
        BY <2>1 DEF Run
    <2> QED
        BY <2>2
<1>2. ASSUME NEW N \in Nat, N \in S PROVE N + 1 \in S
    <2>1. PICK f : Run(D, f0, g, N, f)
        BY <1>2
    <2>2. f \in [0 .. N -> D] /\ f[0] = f0 /\ \A n \in 0 .. N : n > 0 => f[n] = g[f[n - 1]]
        BY <2>1 DEF Run
    <2> DEFINE h == [n \in 0 .. N + 1 |-> IF n <= N THEN f[n] ELSE g[f[N]]]
    <2>3. \A n \in 0 .. N : h[n] = f[n]
        OBVIOUS
    <2>4. h[N + 1] = g[f[N]]
        OBVIOUS
    <2>5. f[N] \in D /\ g[f[N]] \in D
        BY <2>2
    <2>6. h \in [0 .. N + 1 -> D]
        BY <2>2, <2>5
    <2> HIDE DEF h
    <2>7. h[0] = f0
        BY <2>2, <2>3
    <2>8. ASSUME NEW n \in 0 .. N + 1, n > 0 PROVE h[n] = g[h[n - 1]]
        <3>1. n - 1 \in 0 .. N
            BY <2>8
        <3>2. CASE n \in 0 .. N
            BY <2>2, <2>3, <2>8, <3>1, <3>2
        <3>3. CASE n = N + 1
            BY <2>3, <2>4, <3>1, <3>3
        <3> QED
            BY <3>2, <3>3
    <2>9. Run(D, f0, g, N + 1, h)
        BY <2>6, <2>7, <2>8 DEF Run
    <2> QED
        BY <2>9
<1> HIDE DEF S
<1>3. \A N \in Nat : N \in S
    BY <1>1, <1>2, NatSetInduction
<1> QED
    BY <1>3 DEF S

\* Two runs agree as far as both go.
LEMMA RunUnique ==
    ASSUME NEW D, NEW f0 \in D, NEW g \in [D -> D], NEW M \in Nat, NEW N \in Nat,
           NEW f, NEW h, Run(D, f0, g, M, f), Run(D, f0, g, N, h)
    PROVE  \A n \in Nat : n <= M /\ n <= N => f[n] = h[n]
<1> DEFINE S == {n \in Nat : n <= M /\ n <= N => f[n] = h[n]}
<1>0. /\ f[0] = f0 /\ h[0] = f0
      /\ \A n \in 0 .. M : n > 0 => f[n] = g[f[n - 1]]
      /\ \A n \in 0 .. N : n > 0 => h[n] = g[h[n - 1]]
    BY DEF Run
<1>1. 0 \in S
    BY <1>0
<1>2. ASSUME NEW n \in Nat, n \in S PROVE n + 1 \in S
    <2> SUFFICES ASSUME n + 1 <= M, n + 1 <= N PROVE f[n + 1] = h[n + 1]
        OBVIOUS
    <2>1. f[n] = h[n]
        BY <1>2
    <2>2. n + 1 \in 0 .. M /\ n + 1 \in 0 .. N /\ n + 1 > 0 /\ (n + 1) - 1 = n
        OBVIOUS
    <2> QED
        BY <1>0, <2>1, <2>2
<1> HIDE DEF S
<1>3. \A n \in Nat : n \in S
    BY <1>1, <1>2, NatSetInduction
<1> QED
    BY <1>3 DEF S

Iterates(f, f0, g) == f = [n \in Nat |-> IF n = 0 THEN f0 ELSE g[f[n - 1]]]

\* The definition of a function by recursion on the natural numbers has a meaning.
LEMMA Iterated ==
    ASSUME NEW D, NEW f0 \in D, NEW g \in [D -> D]
    PROVE  \E f : Iterates(f, f0, g)
<1> DEFINE run(N) == CHOOSE f : Run(D, f0, g, N, f)
           all == [n \in Nat |-> run(n)[n]]
<1>1. ASSUME NEW N \in Nat PROVE Run(D, f0, g, N, run(N))
    BY RunExists
<1> HIDE DEF run
<1>2. all[0] = f0
    BY <1>1 DEF Run
<1>3. ASSUME NEW n \in Nat, n # 0 PROVE all[n] = g[all[n - 1]]
    <2>1. n - 1 \in Nat /\ n \in 0 .. n /\ n > 0
        BY <1>3
    <2>2. run(n)[n] = g[run(n)[n - 1]]
        BY <1>1, <2>1 DEF Run
    <2>3. Run(D, f0, g, n, run(n)) /\ Run(D, f0, g, n - 1, run(n - 1))
        BY <1>1, <2>1
    <2>4. n - 1 <= n /\ n - 1 <= n - 1
        BY <2>1
    <2>5. run(n)[n - 1] = run(n - 1)[n - 1]
        BY <2>1, <2>3, <2>4, RunUnique
    <2> QED
        BY <2>1, <2>2, <2>5
<1>4. Iterates(all, f0, g)
    BY <1>2, <1>3 DEF Iterates
<1> QED
    BY <1>4

-----------------------------------------------------------------------------
(* kvs_aof_replay.                                                          *)

ReplayState == [db : Database, pos : Nat]

\* The two functions of Replay, by name.
ReplayStep(file) ==
    [s \in ReplayState |->
        IF CommandAt(file, s.pos)
        THEN IF ExecStatus(s.db, file[s.pos + 1].cmd) = "OK"
             THEN [db  |-> Execute(s.db, file[s.pos + 1].cmd), pos |-> s.pos + CmdLen]
             ELSE s
        ELSE s]

ReplayStart(d, file, start) ==
    [db |-> d, pos |-> IF start < Len(file) THEN start ELSE Len(file)]

ReplayRun(d, file, start) ==
    CHOOSE f : f = [n \in Nat |-> IF n = 0 THEN ReplayStart(d, file, start)
                                  ELSE ReplayStep(file)[f[n - 1]]]

\* Replay is the state in which the run has handled as many commands as fit.
LEMMA ReplayIsRun ==
    ASSUME NEW d, NEW file, NEW start
    PROVE  Replay(d, file, start) = ReplayRun(d, file, start)[Len(file) \div CmdLen]
    BY DEF Replay, ReplayRun, ReplayStep, ReplayStart, ReplayState

\* A command of the write commands makes a database of a database.
LEMMA ReplayStepType ==
    ASSUME NEW file \in Seq(Cell) PROVE ReplayStep(file) \in [ReplayState -> ReplayState]
<1> SUFFICES ASSUME NEW s \in ReplayState
             PROVE  (IF CommandAt(file, s.pos)
                     THEN IF ExecStatus(s.db, file[s.pos + 1].cmd) = "OK"
                          THEN [db  |-> Execute(s.db, file[s.pos + 1].cmd),
                                pos |-> s.pos + CmdLen]
                          ELSE s
                     ELSE s) \in ReplayState
    BY DEF ReplayStep
<1>1. s.db \in Database /\ s.pos \in Nat /\ CmdLen \in Nat
    BY EngineAssumption DEF ReplayState
<1>2. CASE CommandAt(file, s.pos)
    <2>1. s.pos + CmdLen <= Len(file) /\ file[s.pos + 1] # Hole
        BY <1>2 DEF CommandAt
    <2>2. Len(file) \in Nat /\ CmdLen > 0
        BY EngineAssumption
    <2>3. s.pos + 1 \in 1 .. Len(file)
        BY <1>1, <2>1, <2>2
    <2>4. file[s.pos + 1] \in [cmd : Command, part : 1 .. CmdLen]
        BY <2>1, <2>3 DEF Cell
    <2>5. PICK c \in Command : c = file[s.pos + 1].cmd
        BY <2>4
    <2>6. Execute(s.db, c) \in Database
        BY <1>1, <2>5 DEF Execute, Database, Command
    <2>7. s.pos + CmdLen \in Nat
        BY <1>1
    <2> QED
        BY <2>5, <2>6, <2>7 DEF ReplayState
<1> QED
    BY <1>2

\* The run of Replay, step by step.
LEMMA ReplayRunIs ==
    ASSUME NEW d \in Database, NEW file \in Seq(Cell), NEW start \in Nat
    PROVE  LET f == ReplayRun(d, file, start) IN
           /\ f[0] = ReplayStart(d, file, start)
           /\ \A n \in Nat : f[n + 1] = ReplayStep(file)[f[n]]
<1> DEFINE f0 == ReplayStart(d, file, start)
           g == ReplayStep(file)
           f == ReplayRun(d, file, start)
<1>1. f0 \in ReplayState
    BY DEF ReplayStart, ReplayState
<1>2. g \in [ReplayState -> ReplayState]
    BY ReplayStepType
<1>3. f = [n \in Nat |-> IF n = 0 THEN f0 ELSE g[f[n - 1]]]
    <2>1. f = CHOOSE h : Iterates(h, f0, g)
        BY DEF ReplayRun, Iterates
    <2> HIDE DEF f0, g, f
    <2>2. \E h : Iterates(h, f0, g)
        BY <1>1, <1>2, Iterated
    <2>3. Iterates(f, f0, g)
        BY <2>1, <2>2
    <2> QED
        BY <2>3 DEF Iterates
<1> HIDE DEF f0, g, f
<1>4. f[0] = f0
    BY <1>3
<1>5. ASSUME NEW n \in Nat PROVE f[n + 1] = g[f[n]]
    <2>1. n + 1 \in Nat /\ n + 1 # 0 /\ (n + 1) - 1 = n
        OBVIOUS
    <2> QED
        BY <1>3, <2>1
<1> QED
    BY <1>4, <1>5 DEF f0, g, f

\* How many commands fit into a file.
LEMMA Commands ==
    ASSUME NEW L \in Nat, NEW c \in Nat \ {0}
    PROVE  /\ L \div c \in Nat
           /\ L < (L \div c) * c + c
    OBVIOUS

\* One more command.
LEMMA OneMore ==
    ASSUME NEW n \in Nat, NEW c \in Nat, NEW p \in Nat, p >= n * c
    PROVE  p + c >= (n + 1) * c
    OBVIOUS

\* kvs_aof_replay goes on from offset p with engine d.
Goes(file, p, d) ==
    CommandAt(file, p) /\ ExecStatus(d, file[p + 1].cmd) = "OK"

\* From start on, the replay stays within the offsets S and has the engines h there.
Within(file, start, S, h) ==
    /\ start \in S /\ S \subseteq 0 .. Len(file)
    /\ h \in [S -> Database]
    /\ \A p \in S : Goes(file, p, h[p]) =>
          /\ p + CmdLen \in S
          /\ h[p + CmdLen] = Execute(h[p], file[p + 1].cmd)

\* A replay ends at one of these offsets, one at which it cannot go on.
LEMMA ReplayStays ==
    ASSUME NEW file \in Seq(Cell), NEW start, NEW S, NEW h, Within(file, start, S, h)
    PROVE  \E q \in S : /\ Replay(h[start], file, start) = [db |-> h[q], pos |-> q]
                        /\ ~Goes(file, q, h[q])
<1> DEFINE L == Len(file)
           d == h[start]
           f == ReplayRun(d, file, start)
           \* What holds after n steps of the run.
           Good(n) == \E p \in S : /\ f[n] = [db |-> h[p], pos |-> p]
                                   /\ ~Goes(file, p, h[p]) \/ p >= n * CmdLen
           T == {n \in Nat : Good(n)}
<1>a. /\ start \in S /\ S \subseteq 0 .. Len(file) /\ h \in [S -> Database]
      /\ \A p \in S : Goes(file, p, h[p]) =>
            /\ p + CmdLen \in S
            /\ h[p + CmdLen] = Execute(h[p], file[p + 1].cmd)
    BY DEF Within
<1>0. L \in Nat /\ CmdLen \in Nat \ {0} /\ d \in Database /\ start \in Nat /\ start <= L
    BY <1>a, EngineAssumption
<1>1. /\ f[0] = ReplayStart(d, file, start)
      /\ \A n \in Nat : f[n + 1] = ReplayStep(file)[f[n]]
    BY <1>0, ReplayRunIs
<1> HIDE DEF f
<1>2. 0 \in T
    <2>1. (IF start < L THEN start ELSE L) = start
        BY <1>0
    <2>2. f[0] = [db |-> h[start], pos |-> start]
        BY <1>1, <2>1 DEF ReplayStart
    <2>3. start >= 0 * CmdLen
        BY <1>0
    <2> QED
        BY <1>a, <2>2, <2>3
<1>3. ASSUME NEW n \in Nat, n \in T PROVE n + 1 \in T
    <2>1. PICK p \in S : /\ f[n] = [db |-> h[p], pos |-> p]
                         /\ ~Goes(file, p, h[p]) \/ p >= n * CmdLen
        BY <1>3
    <2>2. p \in Nat /\ p <= L /\ h[p] \in Database
        BY <1>a, <1>0
    <2>3. f[n] \in ReplayState /\ f[n].db = h[p] /\ f[n].pos = p
        BY <2>1, <2>2 DEF ReplayState
    <2>4. f[n + 1] = IF Goes(file, p, h[p])
                     THEN [db  |-> Execute(h[p], file[p + 1].cmd), pos |-> p + CmdLen]
                     ELSE f[n]
        BY <1>1, <2>3 DEF ReplayStep, Goes
    <2>5. CASE Goes(file, p, h[p])
        <3>1. /\ f[n + 1] = [db |-> h[p + CmdLen], pos |-> p + CmdLen]
              /\ p + CmdLen \in S
            BY <1>a, <2>4, <2>5
        <3>2. p + CmdLen >= (n + 1) * CmdLen
            BY <1>0, <2>1, <2>2, <2>5, OneMore
        <3> QED
            BY <3>1, <3>2
    <2>6. CASE ~Goes(file, p, h[p])
        BY <2>1, <2>4, <2>6
    <2> QED
        BY <2>5, <2>6
<1> HIDE DEF T
<1>4. \A n \in Nat : n \in T
    BY <1>2, <1>3, NatSetInduction
<1>5. PICK k \in Nat : k = L \div CmdLen /\ L < k * CmdLen + CmdLen
    BY <1>0, Commands
<1>6. PICK p \in S : /\ f[k] = [db |-> h[p], pos |-> p]
                     /\ ~Goes(file, p, h[p]) \/ p >= k * CmdLen
    BY <1>4 DEF T
<1>7. ~Goes(file, p, h[p])
    <2> SUFFICES ASSUME Goes(file, p, h[p]) PROVE FALSE
        OBVIOUS
    <2>1. p \in Nat /\ p >= k * CmdLen /\ p + CmdLen <= L
        BY <1>a, <1>0, <1>6 DEF Goes, CommandAt
    <2>2. k * CmdLen \in Nat
        BY <1>0
    <2> QED
        BY <1>0, <1>5, <2>1, <2>2
<1> QED
    BY <1>5, <1>6, <1>7, ReplayIsRun DEF f

\* The file holds whole commands from start on: S are the offsets between them,
\* h the engines there, and every command leads from one engine to the next.
Recoverable(file, start, S, h) ==
    /\ start \in S /\ S \subseteq 0 .. Len(file)
    /\ h \in [S -> Database]
    /\ \A n \in S : n < Len(file) =>
          /\ CommandAt(file, n)
          /\ ExecStatus(h[n], file[n + 1].cmd) = "OK"
          /\ n + CmdLen \in S
          /\ h[n + CmdLen] = Execute(h[n], file[n + 1].cmd)

\* ReplayRecovers: kvs_aof_replay of such a file stops at its end, with the last
\* of the engines (Replay), however many commands it holds.
THEOREM ReplayRecovers ==
    ASSUME NEW file \in Seq(Cell), NEW start, NEW S, NEW h, Recoverable(file, start, S, h)
    PROVE  /\ Len(file) \in S
           /\ Replay(h[start], file, start) = [db |-> h[Len(file)], pos |-> Len(file)]
<1>1. Within(file, start, S, h)
    <2>1. ASSUME NEW p \in S, Goes(file, p, h[p]) PROVE p < Len(file)
        BY <2>1, EngineAssumption DEF Goes, CommandAt, Recoverable
    <2> QED
        BY <2>1 DEF Within, Recoverable
<1>2. PICK q \in S : /\ Replay(h[start], file, start) = [db |-> h[q], pos |-> q]
                     /\ ~Goes(file, q, h[q])
    BY <1>1, ReplayStays
<1>3. q \in Nat /\ q <= Len(file) /\ ~(q < Len(file))
    BY <1>2 DEF Recoverable, Goes
<1>4. q = Len(file)
    BY <1>3
<1> QED
    BY <1>2, <1>4

-----------------------------------------------------------------------------
(* The same in the other direction: what a replay has gone through.         *)

\* The replay of the file from start, with engine d, goes through the offsets S with
\* the engines h and stops at q.
Trace(file, d, start, S, h, q) ==
    /\ start \in S /\ q \in S /\ h \in [S -> Database] /\ h[start] = d
    /\ \A p \in S : p \in start .. q /\ q <= Len(file)
    /\ \A p \in S : p # q =>
          /\ Goes(file, p, h[p])
          /\ p + CmdLen \in S
          /\ h[p + CmdLen] = Execute(h[p], file[p + 1].cmd)
    /\ ~Goes(file, q, h[q])

\* A replay is where its trace stops.
LEMMA TraceIsReplay ==
    ASSUME NEW file \in Seq(Cell), NEW d, NEW start \in Nat, NEW S, NEW h, NEW q \in Nat,
           Trace(file, d, start, S, h, q)
    PROVE  Replay(d, file, start) = [db |-> h[q], pos |-> q]
<1>1. Within(file, start, S, h)
    <2>1. S \subseteq 0 .. Len(file)
        BY DEF Trace
    <2> QED
        BY <2>1 DEF Within, Trace
<1>2. PICK x \in S : /\ Replay(h[start], file, start) = [db |-> h[x], pos |-> x]
                     /\ ~Goes(file, x, h[x])
    BY <1>1, ReplayStays
<1>3. x = q
    BY <1>2 DEF Trace
<1> QED
    BY <1>2, <1>3 DEF Trace

\* The command that a replay executes.
LEMMA GoesOn ==
    ASSUME NEW file \in Seq(Cell), NEW p \in Nat, NEW d \in Database, Goes(file, p, d)
    PROVE  /\ file[p + 1].cmd \in Command
           /\ Execute(d, file[p + 1].cmd) \in Database
           /\ p + CmdLen \in Nat /\ p + CmdLen > p /\ p + CmdLen <= Len(file)
<1>1. p + CmdLen <= Len(file) /\ file[p + 1] # Hole
    BY DEF Goes, CommandAt
<1>2. Len(file) \in Nat /\ CmdLen \in Nat /\ CmdLen > 0
    BY EngineAssumption
<1>3. p + 1 \in 1 .. Len(file)
    BY <1>1, <1>2
<1>4. file[p + 1] \in [cmd : Command, part : 1 .. CmdLen]
    BY <1>1, <1>3 DEF Cell
<1>5. PICK c \in Command : c = file[p + 1].cmd
    BY <1>4
<1>6. Execute(d, c) \in Database
    BY <1>5 DEF Execute, Database, Command
<1> QED
    BY <1>1, <1>2, <1>5, <1>6

\* A trace is longer by a command at its beginning.
LEMMA TraceBefore ==
    ASSUME NEW file \in Seq(Cell), NEW start \in Nat, NEW d \in Database,
           Goes(file, start, d), NEW S, NEW h, NEW q \in Nat,
           Trace(file, Execute(d, file[start + 1].cmd), start + CmdLen, S, h, q)
    PROVE  \E S2, h2 : Trace(file, d, start, S2, h2, q)
<1> DEFINE next == start + CmdLen
           S2 == S \cup {start}
           h2 == [p \in S2 |-> IF p = start THEN d ELSE h[p]]
<1>1. next \in Nat /\ next > start
    BY GoesOn
<1>2. /\ next \in S /\ q \in S /\ h \in [S -> Database]
      /\ h[next] = Execute(d, file[start + 1].cmd)
      /\ \A p \in S : p \in next .. q /\ q <= Len(file)
      /\ \A p \in S : p # q =>
            /\ Goes(file, p, h[p]) /\ p + CmdLen \in S
            /\ h[p + CmdLen] = Execute(h[p], file[p + 1].cmd)
      /\ ~Goes(file, q, h[q])
    BY DEF Trace
<1>3. \A p \in S : p \in start .. q /\ p # start /\ h2[p] = h[p]
    BY <1>1, <1>2
<1>4. q # start /\ start \in start .. q /\ q <= Len(file)
    BY <1>1, <1>2
<1>5. h2 \in [S2 -> Database] /\ h2[start] = d
    BY <1>2
<1>6. ASSUME NEW p \in S2, p # q
      PROVE  /\ Goes(file, p, h2[p]) /\ p + CmdLen \in S2
             /\ h2[p + CmdLen] = Execute(h2[p], file[p + 1].cmd)
    <2>1. CASE p = start
        BY <1>2, <1>3, <1>5, <2>1
    <2>2. CASE p \in S
        <3>1. /\ Goes(file, p, h[p]) /\ p + CmdLen \in S
              /\ h[p + CmdLen] = Execute(h[p], file[p + 1].cmd)
            BY <1>2, <1>6, <2>2
        <3> QED
            BY <1>3, <2>2, <3>1
    <2> QED
        BY <2>1, <2>2
<1>7. ~Goes(file, q, h2[q]) /\ q \in S2
    BY <1>2, <1>3
<1>8. \A p \in S2 : p \in start .. q /\ q <= Len(file)
    BY <1>3, <1>4
<1> HIDE DEF S2, h2
<1>9. start \in S2
    BY DEF S2
<1>10. Trace(file, d, start, S2, h2, q)
    BY <1>5, <1>6, <1>7, <1>8, <1>9 DEF Trace
<1> QED
    BY <1>10

\* A replay that cannot go on stays where it is.
LEMMA TraceStuck ==
    ASSUME NEW file \in Seq(Cell), NEW start \in Nat, start <= Len(file),
           NEW d \in Database, ~Goes(file, start, d)
    PROVE  Trace(file, d, start, {start}, [p \in {start} |-> d], start)
    BY DEF Trace

\* Every replay has a trace.
LEMMA TraceExists ==
    ASSUME NEW file \in Seq(Cell), NEW start0 \in 0 .. Len(file), NEW d0 \in Database
    PROVE  \E S, h : \E q \in Nat : Trace(file, d0, start0, S, h, q)
<1> DEFINE L == Len(file)
           Has(start, d) == \E S, h : \E q \in Nat : Trace(file, d, start, S, h, q)
           T == {n \in Nat : \A start \in 0 .. L : \A d \in Database :
                                 L - start <= n => Has(start, d)}
<1>0. L \in Nat /\ CmdLen \in Nat /\ CmdLen > 0
    BY EngineAssumption
<1>1. ASSUME NEW start \in 0 .. L, NEW d \in Database, ~Goes(file, start, d)
      PROVE  Has(start, d)
    <2>1. start \in Nat /\ start <= Len(file)
        OBVIOUS
    <2>2. Trace(file, d, start, {start}, [p \in {start} |-> d], start)
        BY <1>1, <2>1, TraceStuck
    <2> QED
        BY <2>1, <2>2
<1>2. ASSUME NEW start \in 0 .. L, NEW d \in Database, Goes(file, start, d),
             Has(start + CmdLen, Execute(d, file[start + 1].cmd))
      PROVE  Has(start, d)
    <2>1. start \in Nat
        OBVIOUS
    <2>2. PICK S, h : \E q \in Nat :
              Trace(file, Execute(d, file[start + 1].cmd), start + CmdLen, S, h, q)
        BY <1>2
    <2>3. PICK q \in Nat :
              Trace(file, Execute(d, file[start + 1].cmd), start + CmdLen, S, h, q)
        BY <2>2
    <2> QED
        BY <1>2, <2>1, <2>3, TraceBefore
<1> HIDE DEF Has
<1>3. 0 \in T
    <2> SUFFICES ASSUME NEW start \in 0 .. L, NEW d \in Database, L - start <= 0
                 PROVE  Has(start, d)
        OBVIOUS
    <2>1. start = L
        BY <1>0
    <2>2. ~Goes(file, start, d)
        BY <1>0, <2>1 DEF Goes, CommandAt
    <2> QED
        BY <1>1, <2>2
<1>4. ASSUME NEW n \in Nat, n \in T PROVE n + 1 \in T
    <2> SUFFICES ASSUME NEW start \in 0 .. L, NEW d \in Database, L - start <= n + 1
                 PROVE  Has(start, d)
        OBVIOUS
    <2>1. CASE Goes(file, start, d)
        <3>1. PICK next \in Nat, e \in Database :
                  /\ next = start + CmdLen /\ e = Execute(d, file[start + 1].cmd)
                  /\ next > start /\ next <= L
            BY <2>1, GoesOn
        <3>2. next \in 0 .. L /\ L - next <= n
            BY <1>0, <3>1
        <3>3. Has(next, e)
            BY <1>4, <3>2
        <3> QED
            BY <1>2, <2>1, <3>1, <3>3
    <2> QED
        BY <1>1, <2>1
<1> HIDE DEF T
<1>5. \A n \in Nat : n \in T
    BY <1>3, <1>4, NatSetInduction
<1>6. L - start0 \in Nat
    BY <1>0
<1>7. Has(start0, d0)
    BY <1>5, <1>6 DEF T
<1> QED
    BY <1>7 DEF Has

-----------------------------------------------------------------------------
(* Two files of which one is the other, longer, shorter or with holes.      *)

\* A command is at an offset when its cells are there.
LEMMA CommandCells ==
    ASSUME NEW file \in Seq(Cell), NEW p \in Nat, p + CmdLen <= Len(file)
    PROVE  CommandAt(file, p) <=>
               /\ file[p + 1] # Hole
               /\ \A i \in 1 .. CmdLen : file[p + i] = Encode(file[p + 1].cmd)[i]
<1> DEFINE part == SubSeq(file, p + 1, p + CmdLen)
           code == Encode(file[p + 1].cmd)
<1>0. CmdLen \in Nat /\ CmdLen > 0 /\ Len(file) \in Nat
    BY EngineAssumption
<1>1. /\ part \in Seq(Cell) /\ Len(part) = CmdLen
      /\ \A i \in 1 .. CmdLen : part[i] = file[p + i]
    <2>1. p + 1 \in 1 .. Len(file) + 1 /\ p + CmdLen \in p .. Len(file)
        BY <1>0
    <2>2. \A i \in 1 .. CmdLen : (p + 1) + i - 1 = p + i
        BY <1>0
    <2>3. (p + CmdLen) - (p + 1) + 1 = CmdLen
        BY <1>0
    <2> QED
        BY <1>0, <2>1, <2>2, <2>3
<1>2. part = code <=> \A i \in 1 .. CmdLen : part[i] = code[i]
    <2>1. part = [i \in 1 .. CmdLen |-> part[i]]
        BY <1>0, <1>1
    <2>2. code = [i \in 1 .. CmdLen |-> code[i]]
        BY DEF Encode
    <2> HIDE DEF part, code
    <2> QED
        BY <2>1, <2>2
<1> HIDE DEF part
<1> QED
    BY <1>1, <1>2 DEF CommandAt, part

\* Where two files are the same, they hold the same command.
LEMMA SameCommand ==
    ASSUME NEW a \in Seq(Cell), NEW b \in Seq(Cell), NEW p \in Nat,
           CommandAt(a, p), p + CmdLen <= Len(b),
           \A i \in 1 .. CmdLen : b[p + i] = a[p + i]
    PROVE  CommandAt(b, p) /\ b[p + 1] = a[p + 1]
<1>0. 1 \in 1 .. CmdLen
    BY EngineAssumption
<1>1. b[p + 1] = a[p + 1]
    BY <1>0
<1>2. p + CmdLen <= Len(a)
    BY DEF CommandAt
<1> QED
    BY <1>1, <1>2, CommandCells

\* Where two files are the same, a replay goes on alike.
LEMMA GoesAlike ==
    ASSUME NEW a \in Seq(Cell), NEW b \in Seq(Cell), NEW p \in Nat, NEW d,
           Goes(a, p, d), p + CmdLen <= Len(b),
           \A i \in 1 .. CmdLen : b[p + i] = a[p + i]
    PROVE  Goes(b, p, d) /\ b[p + 1].cmd = a[p + 1].cmd
    BY SameCommand DEF Goes

\* A replay stays within the file.
LEMMA ReplayInFile ==
    ASSUME NEW file \in Seq(Cell), NEW start \in 0 .. Len(file), NEW d \in Database
    PROVE  LET end == Replay(d, file, start) IN
           /\ end = [db |-> end.db, pos |-> end.pos] /\ end.db \in Database
           /\ end.pos \in start .. Len(file) /\ ~Goes(file, end.pos, end.db)
<1>1. PICK S, h : \E q \in Nat : Trace(file, d, start, S, h, q)
    BY TraceExists
<1>2. PICK q \in Nat : Trace(file, d, start, S, h, q)
    BY <1>1
<1>3. Replay(d, file, start) = [db |-> h[q], pos |-> q]
    BY <1>2, TraceIsReplay
<1>4. h[q] \in Database /\ q \in start .. Len(file) /\ ~Goes(file, q, h[q])
    BY <1>2 DEF Trace
<1> QED
    BY <1>3, <1>4

\* A replay that begins at the end of the file has nothing to do.
LEMMA ReplayAtEnd ==
    ASSUME NEW file \in Seq(Cell), NEW d \in Database
    PROVE  Replay(d, file, Len(file)) = [db |-> d, pos |-> Len(file)]
<1>0. Len(file) \in Nat /\ Len(file) <= Len(file) /\ CmdLen \in Nat /\ CmdLen > 0
    BY EngineAssumption
<1>1. ~Goes(file, Len(file), d)
    BY <1>0 DEF Goes, CommandAt
<1>2. Trace(file, d, Len(file), {Len(file)}, [p \in {Len(file)} |-> d], Len(file))
    BY <1>0, <1>1, TraceStuck
<1> QED
    BY <1>0, <1>2, TraceIsReplay

\* A checkpoint behind the end of the file is taken for the end.
LEMMA ReplayBeyond ==
    ASSUME NEW file \in Seq(Cell), NEW d \in Database, NEW start \in Nat, Len(file) <= start
    PROVE  Replay(d, file, start) = [db |-> d, pos |-> Len(file)]
<1>1. ReplayStart(d, file, start) = ReplayStart(d, file, Len(file))
    BY DEF ReplayStart
<1>2. ReplayRun(d, file, start) = ReplayRun(d, file, Len(file))
    BY <1>1 DEF ReplayRun
<1>3. Replay(d, file, start) = Replay(d, file, Len(file))
    BY <1>2, ReplayIsRun
<1> QED
    BY <1>3, ReplayAtEnd

\* A replay leaves a database.
LEMMA ReplayType ==
    ASSUME NEW file \in Seq(Cell), NEW d \in Database, NEW start \in Nat
    PROVE  Replay(d, file, start).db \in Database
<1>1. CASE start <= Len(file)
    BY <1>1, ReplayInFile
<1>2. CASE Len(file) <= start
    BY <1>2, ReplayBeyond
<1> QED
    BY <1>1, <1>2

\* Multiples of a length are at least that length apart.
LEMMA Multiples ==
    ASSUME NEW a \in Nat, NEW b \in Nat, NEW c \in Nat, a < b
    PROVE  a * c + c <= b * c
<1>1. PICK k \in Nat : b = a + 1 + k
    <2>1. b - a - 1 \in Nat /\ b = a + 1 + (b - a - 1)
        OBVIOUS
    <2> QED
        BY <2>1
<1>2. b * c = a * c + c + k * c /\ k * c \in Nat
    BY <1>1
<1> QED
    BY <1>2

\* A multiple has no remainder.
LEMMA NoRemainder ==
    ASSUME NEW k \in Nat, NEW c \in Nat \ {0}
    PROVE  (k * c) % c = 0
<1>1. PICK x \in Nat : x = k * c
    OBVIOUS
<1>2. PICK q \in Nat, r \in Nat : q = x \div c /\ r = x % c /\ r < c
    OBVIOUS
<1>3. x = c * q + r
    BY <1>2
<1>4. k * c = q * c + r /\ q * c \in Nat
    BY <1>1, <1>3
<1>5. ~(k < q) /\ ~(q < k)
    BY <1>2, <1>4, Multiples
<1>6. k = q
    BY <1>5
<1> QED
    BY <1>1, <1>2, <1>4, <1>6

\* A command more leaves a multiple of the length of commands.
LEMMA NextMultiple ==
    ASSUME NEW n \in Nat, NEW c \in Nat \ {0}, n % c = 0
    PROVE  (n + c) % c = 0
<1>1. PICK k \in Nat : k = n \div c
    OBVIOUS
<1>2. n = c * k
    BY <1>1
<1>3. PICK m \in Nat : m = k + 1
    OBVIOUS
<1>4. n + c = m * c
    BY <1>2, <1>3
<1> QED
    BY <1>4, NoRemainder

\* A replay that begins between two commands ends between two commands.
LEMMA ReplayAligned ==
    ASSUME NEW file \in Seq(Cell), NEW start \in 0 .. Len(file), NEW d \in Database,
           start % CmdLen = 0
    PROVE  Replay(d, file, start).pos % CmdLen = 0
<1>1. PICK S, h : \E q \in Nat : Trace(file, d, start, S, h, q)
    BY TraceExists
<1>2. PICK q \in Nat : Trace(file, d, start, S, h, q)
    BY <1>1
<1> DEFINE S2 == {p \in S : p % CmdLen = 0}
           h2 == [p \in S2 |-> h[p]]
<1>3. S \subseteq 0 .. Len(file) /\ start \in S /\ h \in [S -> Database] /\ h[start] = d
    BY <1>2 DEF Trace
<1>4. ASSUME NEW p \in S2, Goes(file, p, h2[p])
      PROVE  p + CmdLen \in S2 /\ h2[p + CmdLen] = Execute(h2[p], file[p + 1].cmd)
    <2>1. p # q
        BY <1>2, <1>4 DEF Trace
    <2>2. p + CmdLen \in S /\ h[p + CmdLen] = Execute(h[p], file[p + 1].cmd)
        BY <1>2, <2>1 DEF Trace
    <2>3. p \in Nat /\ p % CmdLen = 0 /\ CmdLen \in Nat \ {0}
        BY <1>3, EngineAssumption
    <2>4. (p + CmdLen) % CmdLen = 0
        BY <2>3, NextMultiple
    <2> QED
        BY <2>2, <2>4
<1>5. start \in S2 /\ S2 \subseteq 0 .. Len(file) /\ h2 \in [S2 -> Database] /\ h2[start] = d
    BY <1>3
<1> HIDE DEF S2, h2
<1>6. Within(file, start, S2, h2)
    BY <1>4, <1>5 DEF Within
<1>7. PICK x \in S2 : Replay(h2[start], file, start) = [db |-> h2[x], pos |-> x]
    BY <1>6, ReplayStays
<1> QED
    BY <1>5, <1>7 DEF S2

\* What was appended to a file: a replay that goes on behind its old end executes
\* one command more, when there is room for no other.
LEMMA ReplayExtended ==
    ASSUME NEW file \in Seq(Cell), NEW start \in 0 .. Len(file), NEW d \in Database,
           NEW longer \in Seq(Cell), Len(file) <= Len(longer),
           \A i \in 1 .. Len(file) : longer[i] = file[i],
           NEW e \in Database, NEW q \in Nat,
           Replay(d, file, start) = [db |-> e, pos |-> q]
    PROVE  /\ ~Goes(longer, q, e) => Replay(d, longer, start) = [db |-> e, pos |-> q]
           /\ Goes(longer, q, e) /\ Len(longer) < q + CmdLen + CmdLen =>
                  Replay(d, longer, start) = [db  |-> Execute(e, longer[q + 1].cmd),
                                              pos |-> q + CmdLen]
<1>0. CmdLen \in Nat /\ CmdLen > 0 /\ Len(file) \in Nat /\ Len(longer) \in Nat /\ start \in Nat
    BY EngineAssumption
<1>1. PICK S, h : \E x \in Nat : Trace(file, d, start, S, h, x)
    BY TraceExists
<1>2. PICK x \in Nat : Trace(file, d, start, S, h, x)
    BY <1>1
<1>3. x = q /\ h[q] = e
    <2>1. Replay(d, file, start) = [db |-> h[x], pos |-> x]
        BY <1>0, <1>2, TraceIsReplay
    <2> QED
        BY <2>1
<1>4. /\ start \in S /\ q \in S /\ h \in [S -> Database] /\ h[start] = d
      /\ \A p \in S : p \in start .. q /\ q <= Len(file)
      /\ \A p \in S : p # q =>
            /\ Goes(file, p, h[p]) /\ p + CmdLen \in S
            /\ h[p + CmdLen] = Execute(h[p], file[p + 1].cmd)
    BY <1>2, <1>3 DEF Trace
<1>5. ASSUME NEW p \in S, p # q
      PROVE  /\ Goes(longer, p, h[p]) /\ p + CmdLen \in S
             /\ h[p + CmdLen] = Execute(h[p], longer[p + 1].cmd)
    <2>1. /\ Goes(file, p, h[p]) /\ p + CmdLen \in S
          /\ h[p + CmdLen] = Execute(h[p], file[p + 1].cmd)
        BY <1>4, <1>5
    <2>2. p \in Nat /\ p + CmdLen <= Len(file)
        BY <1>0, <1>4, <2>1
    <2>3. p + CmdLen <= Len(longer) /\ \A i \in 1 .. CmdLen : longer[p + i] = file[p + i]
        <3>1. \A i \in 1 .. CmdLen : p + i \in 1 .. Len(file)
            BY <1>0, <2>2
        <3>2. p + CmdLen <= Len(longer)
            BY <1>0, <2>2
        <3> QED
            BY <3>1, <3>2
    <2>4. Goes(longer, p, h[p]) /\ longer[p + 1].cmd = file[p + 1].cmd
        BY <2>1, <2>2, <2>3, GoesAlike
    <2> QED
        BY <2>1, <2>4
<1>6. ASSUME ~Goes(longer, q, e)
      PROVE  Replay(d, longer, start) = [db |-> e, pos |-> q]
    <2>1. \A p \in S : p \in start .. q /\ q <= Len(longer)
        BY <1>0, <1>4
    <2>2. Trace(longer, d, start, S, h, q)
        BY <1>3, <1>4, <1>5, <1>6, <2>1 DEF Trace
    <2> QED
        BY <1>0, <1>3, <2>2, TraceIsReplay
<1>7. ASSUME Goes(longer, q, e), Len(longer) < q + CmdLen + CmdLen
      PROVE  Replay(d, longer, start) = [db  |-> Execute(e, longer[q + 1].cmd),
                                         pos |-> q + CmdLen]
    <2>1. PICK last \in Nat, e2 \in Database :
              /\ last = q + CmdLen /\ e2 = Execute(e, longer[q + 1].cmd)
              /\ last > q /\ last <= Len(longer)
        BY <1>7, GoesOn
    <2> DEFINE S2 == S \cup {last}
               h2 == [p \in S2 |-> IF p = last THEN e2 ELSE h[p]]
    <2>2. \A p \in S : p \in start .. last /\ p # last /\ h2[p] = h[p]
        BY <1>0, <1>4, <2>1
    <2>3. start \in S2 /\ last \in S2 /\ h2 \in [S2 -> Database] /\ h2[start] = d
        BY <1>4, <2>2
    <2>4. \A p \in S2 : p \in start .. last /\ last <= Len(longer)
        <3>1. last \in start .. last
            BY <1>4, <2>1, <2>2
        <3> QED
            BY <2>1, <2>2, <3>1
    <2>5. ASSUME NEW p \in S2, p # last
          PROVE  /\ Goes(longer, p, h2[p]) /\ p + CmdLen \in S2
                 /\ h2[p + CmdLen] = Execute(h2[p], longer[p + 1].cmd)
        <3>1. p \in S /\ h2[p] = h[p]
            BY <2>2, <2>5
        <3>2. CASE p = q
            BY <1>3, <1>7, <2>1, <3>1, <3>2
        <3>3. CASE p # q
            BY <1>5, <2>2, <3>1, <3>3
        <3> QED
            BY <3>2, <3>3
    <2>6. ~Goes(longer, last, h2[last])
        BY <1>0, <1>7, <2>1 DEF Goes, CommandAt
    <2>7. h2[last] = e2
        OBVIOUS
    <2> HIDE DEF S2, h2
    <2>8. Trace(longer, d, start, S2, h2, last)
        BY <2>3, <2>4, <2>5, <2>6 DEF Trace
    <2>9. Replay(d, longer, start) = [db |-> h2[last], pos |-> last]
        BY <1>0, <2>8, TraceIsReplay
    <2> QED
        BY <2>1, <2>7, <2>9
<1> QED
    BY <1>6, <1>7

\* A file with holes that is replayed up to an offset recovers to what the file
\* without holes does.
LEMMA ReplayWithHoles ==
    ASSUME NEW file \in Seq(Cell), NEW start \in 0 .. Len(file), NEW d \in Database,
           NEW holed \in Seq(Cell),
           \A i \in 1 .. Len(file) : i <= Len(holed) => holed[i] = file[i] \/ holed[i] = Hole,
           NEW e, Replay(d, holed, start) = [db |-> e, pos |-> Len(file)],
           start <= Len(holed)
    PROVE  Replay(d, file, start) = [db |-> e, pos |-> Len(file)]
<1> DEFINE q == Len(file)
<1>0. CmdLen \in Nat /\ CmdLen > 0 /\ Len(file) \in Nat /\ Len(holed) \in Nat /\ start \in Nat
    BY EngineAssumption
<1>1. PICK S, h : \E x \in Nat : Trace(holed, d, start, S, h, x)
    <2>1. start \in 0 .. Len(holed)
        BY <1>0
    <2> QED
        BY <2>1, TraceExists
<1>2. PICK x \in Nat : Trace(holed, d, start, S, h, x)
    BY <1>1
<1>3. x = q /\ h[q] = e
    <2>1. Replay(d, holed, start) = [db |-> h[x], pos |-> x]
        BY <1>0, <1>2, TraceIsReplay
    <2> QED
        BY <2>1
<1>4. /\ start \in S /\ q \in S /\ h \in [S -> Database] /\ h[start] = d
      /\ \A p \in S : p \in start .. q /\ q <= Len(holed)
      /\ \A p \in S : p # q =>
            /\ Goes(holed, p, h[p]) /\ p + CmdLen \in S
            /\ h[p + CmdLen] = Execute(h[p], holed[p + 1].cmd)
    BY <1>2, <1>3 DEF Trace
<1>5. ASSUME NEW p \in S, p # q
      PROVE  /\ Goes(file, p, h[p]) /\ p + CmdLen \in S
             /\ h[p + CmdLen] = Execute(h[p], file[p + 1].cmd)
    <2>1. /\ Goes(holed, p, h[p]) /\ p + CmdLen \in S
          /\ h[p + CmdLen] = Execute(h[p], holed[p + 1].cmd)
        BY <1>4, <1>5
    <2>2. p \in Nat /\ p + CmdLen <= Len(file) /\ p + CmdLen <= Len(holed)
        BY <1>0, <1>4, <2>1
    <2>3. \A i \in 1 .. CmdLen : holed[p + i] = Encode(holed[p + 1].cmd)[i]
        BY <2>1, <2>2, CommandCells DEF Goes
    <2>4. ASSUME NEW i \in 1 .. CmdLen PROVE file[p + i] = holed[p + i]
        <3>1. holed[p + i] = [cmd |-> holed[p + 1].cmd, part |-> i]
            BY <2>3 DEF Encode
        <3>2. holed[p + i] # Hole
            BY <3>1 DEF Hole
        <3>3. p + i \in 1 .. Len(file) /\ p + i <= Len(holed)
            BY <1>0, <2>2
        <3> QED
            BY <3>2, <3>3
    <2>5. Goes(file, p, h[p]) /\ file[p + 1].cmd = holed[p + 1].cmd
        BY <2>1, <2>2, <2>4, GoesAlike
    <2> QED
        BY <2>1, <2>5
<1>6. ~Goes(file, q, h[q])
    BY <1>0 DEF Goes, CommandAt
<1>7. \A p \in S : p \in start .. q /\ q <= Len(file)
    <2>1. q <= Len(file)
        BY <1>0
    <2> HIDE DEF q
    <2> QED
        BY <1>4, <2>1
<1>8. Trace(file, d, start, S, h, q)
    BY <1>4, <1>5, <1>6, <1>7 DEF Trace
<1> QED
    BY <1>0, <1>3, <1>8, TraceIsReplay
=============================================================================
