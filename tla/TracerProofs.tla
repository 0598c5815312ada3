---------------------------- MODULE TracerProofs -----------------------------
(***************************************************************************)
(* What holds of the process tracer for any processes and any steps of the *)
(* kernel, any sizes of the ring and the tables, and any events lost.      *)
(***************************************************************************)
EXTENDS ProcessTracer, WellFoundedInduction, TLAPS

TP == INSTANCE PidTrackerProofs WITH Size <- TableSize, table <- tracker, members <- family

\* A set with 0 and with the successor of each of its members holds every
\* natural number.
LEMMA SetInduction ==
  ASSUME NEW S, 0 \in S, \A n \in Nat : n \in S => n + 1 \in S
  PROVE  Nat \subseteq S
<1> SUFFICES ASSUME Nat \ S # {}
             PROVE  FALSE
  OBVIOUS
<1> DEFINE R == OpToRel(<, Nat)
<1>1. \E x \in Nat \ S : \A y \in Nat \ S : <<y, x>> \notin R
  <2>1. IsWellFoundedOn(R, Nat)
    BY NatLessThanWellFounded
  <2> HIDE DEF R
  <2> QED
    BY <2>1, WFMin
<1>2. PICK x \in Nat \ S : \A y \in Nat \ S : ~(y < x)
  BY <1>1 DEF OpToRel
<1>3. x # 0 /\ x - 1 \in Nat /\ x - 1 < x
  OBVIOUS
<1> QED
  BY <1>2, <1>3

\* What a recursion computes from base in n steps exists.
LEMMA RecursionExists ==
  ASSUME NEW V, NEW base \in V, NEW n \in Nat, NEW step \in [1 .. n -> [V -> V]]
  PROVE  \E g \in [0 .. n -> V] : g[0] = base /\ \A i \in 1 .. n : g[i] = step[i][g[i - 1]]
<1> DEFINE Good(g, k) == g[0] = base /\ \A i \in 1 .. k : g[i] = step[i][g[i - 1]]
           S == {k \in Nat : k <= n => \E g \in [0 .. k -> V] : Good(g, k)}
<1>1. 0 \in S
  <2>1. [i \in 0 .. 0 |-> base] \in [0 .. 0 -> V] /\ Good([i \in 0 .. 0 |-> base], 0)
    OBVIOUS
  <2> QED
    BY <2>1
<1>2. ASSUME NEW k \in Nat, k \in S
      PROVE  k + 1 \in S
  <2>1. CASE ~(k + 1 <= n)
    BY <2>1
  <2>2. CASE k + 1 <= n
    <3>1. k <= n
      BY <2>2
    <3>2. \E g \in [0 .. k -> V] : Good(g, k)
      <4> HIDE DEF Good
      <4> QED
        BY <1>2, <3>1
    <3>3. PICK g \in [0 .. k -> V] : Good(g, k)
      BY <3>2
    <3> DEFINE h == [i \in 0 .. k + 1 |-> IF i = k + 1 THEN step[k + 1][g[k]] ELSE g[i]]
    <3>4. k + 1 \in 1 .. n /\ g[k] \in V
      BY <2>2
    <3>5. step[k + 1][g[k]] \in V
      BY <3>4
    <3>6. h \in [0 .. k + 1 -> V]
      BY <3>5
    <3>7. \A i \in 0 .. k : h[i] = g[i]
      OBVIOUS
    <3>8. h[k + 1] = step[k + 1][h[k]]
      BY <3>7
    <3>9. h[0] = base
      BY <3>3, <3>7
    <3>10. ASSUME NEW i \in 1 .. k + 1
           PROVE  h[i] = step[i][h[i - 1]]
      <4> HIDE DEF h
      <4>1. CASE i = k + 1
        BY <3>8, <4>1
      <4>2. CASE i # k + 1
        <5>1. i \in 1 .. k /\ i \in 0 .. k /\ i - 1 \in 0 .. k
          BY <4>2
        <5> QED
          BY <3>3, <3>7, <5>1
      <4> QED
        BY <4>1, <4>2
    <3>11. Good(h, k + 1)
      BY <3>9, <3>10
    <3>12. \E x \in [0 .. k + 1 -> V] : Good(x, k + 1)
      <4> HIDE DEF h, Good
      <4> QED
        BY <3>6, <3>11
    <3> HIDE DEF Good
    <3> QED
      BY <3>12
  <2> QED
    BY <2>1, <2>2
<1>3. Nat \subseteq S
  <2> HIDE DEF S
  <2> QED
    BY <1>1, <1>2, SetInduction
<1>4. n \in S
  BY <1>3
<1>5. \E g \in [0 .. n -> V] : Good(g, n)
  <2> HIDE DEF Good
  <2> QED
    BY <1>4
<1> QED
  BY <1>5

\* The table of the tracer and the table that the lemmas are about are one.
LEMMA OneTable ==
  /\ T!Table = TP!Table
  /\ T!EmptyTable = TP!EmptyTable
  /\ \A t : /\ T!Proper(t) = TP!Proper(t)
            /\ T!Held(t) = TP!Held(t)
            /\ T!TrackedPids(t) = TP!TrackedPids(t)
  /\ \A t, p : /\ T!AddPid(t, p) = TP!AddPid(t, p)
               /\ T!RemovePid(t, p) = TP!RemovePid(t, p)
               /\ T!AddSucceeds(t, p) = TP!AddSucceeds(t, p)
               /\ T!Tracked(t, p) = TP!Tracked(t, p)
               /\ T!SlotOf(t, p) = TP!SlotOf(t, p)
  /\ \A t, s : T!CutsChain(t, s) = TP!CutsChain(t, s)
BY DEF T!Hash, T!Slots, T!Free, T!Probe, T!Table, T!EmptyTable, T!Proper, T!Held, T!AddPid, T!RemovePid,
       T!AddSucceeds, T!Tracked, T!TrackedPids, T!SlotOf, T!CutsChain, T!FoundAt, T!VacantAt, T!HasVacancy,
       TP!Hash, TP!Slots, TP!Free, TP!Probe, TP!Table, TP!EmptyTable, TP!Proper, TP!Held, TP!AddPid, TP!RemovePid,
       TP!AddSucceeds, TP!Tracked, TP!TrackedPids, TP!SlotOf, TP!CutsChain, TP!FoundAt, TP!VacantAt, TP!HasVacancy

LEMMA PositivePids == Pids \subseteq Nat \ {0} /\ TableSize \in Nat \ {0}
BY TracerAssumption DEF NoPpid

LEMMA TableType ==
  /\ T!EmptyTable \in T!Table
  /\ \A t \in T!Table, p \in Pids : T!AddPid(t, p) \in T!Table /\ T!RemovePid(t, p) \in T!Table
BY OneTable, PositivePids, TP!AddType, TP!RemoveType, TP!EmptyProper

LEMMA EmptyHolds == T!Proper(T!EmptyTable) /\ T!Held(T!EmptyTable) = {}
BY OneTable, PositivePids, TP!EmptyProper

LEMMA LookUpExact ==
  ASSUME NEW t \in T!Table, T!Proper(t), NEW p \in Pids
  PROVE  T!Tracked(t, p) <=> p \in T!Held(t)
<1>1. TP!TrackedPids(t) = TP!Held(t)
  BY OneTable, PositivePids, TP!ProperExact
<1>2. p \in TP!TrackedPids(t) <=> TP!Tracked(t, p)
  BY DEF TP!TrackedPids
<1> QED
  BY <1>1, <1>2, OneTable

LEMMA AddHolds ==
  ASSUME NEW t \in T!Table, T!Proper(t), NEW p \in Pids
  PROVE  /\ T!Proper(T!AddPid(t, p))
         /\ T!Held(t) \subseteq T!Held(T!AddPid(t, p))
         /\ T!Held(T!AddPid(t, p)) \subseteq T!Held(t) \union {p}
<1>1. /\ TP!Proper(TP!AddPid(t, p))
      /\ TP!Held(TP!AddPid(t, p)) = IF TP!AddSucceeds(t, p) THEN TP!Held(t) \union {p} ELSE TP!Held(t)
  BY OneTable, PositivePids, TP!ProperAdd
<1> QED
  BY <1>1, OneTable

LEMMA RemoveHolds ==
  ASSUME NEW t \in T!Table, T!Proper(t), NEW p \in Pids,
         ~(T!Tracked(t, p) /\ T!CutsChain(T!RemovePid(t, p), T!SlotOf(t, p)))
  PROVE  T!Proper(T!RemovePid(t, p)) /\ T!Held(T!RemovePid(t, p)) = T!Held(t) \ {p}
<1>1. TP!Tracked(t, p) => ~TP!CutsChain(TP!RemovePid(t, p), TP!SlotOf(t, p))
  BY OneTable
<1>2. t \in TP!Table /\ TP!Proper(t)
  BY OneTable
<1>3. TP!Proper(TP!RemovePid(t, p)) /\ TP!Held(TP!RemovePid(t, p)) = TP!Held(t) \ {p}
  BY <1>1, <1>2, PositivePids, TP!ProperRemove
<1> QED
  BY <1>3, OneTable

-----------------------------------------------------------------------------

\* The tables of opens, and what the handlers do to them, are those of the
\* accounting, whose history has no part in it.
DP == INSTANCE DedupProofs WITH MaxEvents <- 0, MaxTime <- 0, Skew <- 0, clock <- 0, events <- 0,
        opens <- 0, seen <- 0, latest <- 0, passed <- 0, excused <- {}, owed <- {}

LEMMA OneCount == \A S : Cardinality(S) = DP!Cardinality(S)
BY DEF Cardinality, DP!Cardinality

LEMMA OneParts ==
  /\ \A p : Limitable(p) <=> DP!Limitable(p)
  /\ \A p, s : Counted(p, s) = DP!Counted(p, s)
  /\ \A p, s : DueWarning(p, s) <=> DP!DueWarning(p, s)
  /\ \A f, k, v : Put(f, k, v) = DP!Put(f, k, v)
  /\ \A f, S : Restrict(f, S) = DP!Restrict(f, S)
  /\ \A ts : SecondOf(ts) = DP!SecondOf(ts)
  /\ \A ts : Expired(ts) = DP!Expired(ts)
  /\ \A H, why : Aggregates(H, why) = DP!Aggregates(H, why)
  /\ \A p : OwnedBy(p) = DP!OwnedBy(p)
  /\ \A p, f, ts : First(p, f, ts) = DP!First(p, f, ts)
  /\ \A e, ts : Again(e, ts) = DP!Again(e, ts)
  /\ \A kind, h, e, w : Line(kind, h, e, w) = DP!Line(kind, h, e, w)
BY OneCount DEF Limitable, DP!Limitable, Counted, DP!Counted, DueWarning, DP!DueWarning, Put, DP!Put,
                Restrict, DP!Restrict, SecondOf, DP!SecondOf, Expired, DP!Expired, Elapsed, DP!Elapsed,
                Aggregates, DP!Aggregates, Line, DP!Line, OwnedBy, DP!OwnedBy, First, DP!First, Again, DP!Again

LEMMA OneAdmission ==
  /\ \A p, s : Exceeds(p, s) <=> DP!Exceeds(p, s)
  /\ \A p, s : Admit(p, s) <=> DP!Admit(p, s)
  /\ \A ts : Unexpired(ts) = DP!Unexpired(ts)
BY OneParts DEF Exceeds, Admit, Unexpired, DP!Exceeds, DP!Admit, DP!Unexpired

LEMMA OneOpen == \A p, f, ts : HandleOpen(p, f, ts) <=> DP!HandleOpen(p, f, ts)
<1> TAKE p, f, ts
<1>1. DropOpen(p, ts) <=> DP!DropOpen(p, ts)
  BY OneParts, OneAdmission DEF DropOpen, DP!DropOpen
<1>2. CountDuplicate(p, f, ts) <=> DP!CountDuplicate(p, f, ts)
  BY OneParts, OneAdmission DEF CountDuplicate, DP!CountDuplicate
<1>3. ReportFirst(p, f, ts) <=> DP!ReportFirst(p, f, ts)
  <2>1. Unexpired(ts) = DP!Unexpired(ts) /\ Expired(ts) = DP!Expired(ts)
    BY OneParts, OneAdmission
  <2>2. Cardinality(DOMAIN Unexpired(ts)) = DP!Cardinality(DOMAIN Unexpired(ts))
    BY OneCount
  <2>3. DueWarning(p, SecondOf(ts)) = DP!DueWarning(p, DP!SecondOf(ts))
    BY OneParts DEF DueWarning, DP!DueWarning
  <2>4. /\ Admit(p, SecondOf(ts)) <=> DP!Admit(p, DP!SecondOf(ts))
        /\ Aggregates(Expired(ts), "window_expired") = DP!Aggregates(DP!Expired(ts), "window_expired")
    BY OneParts, OneAdmission
  <2>5. First(p, f, ts) = DP!First(p, f, ts)
    BY DEF First, DP!First
  <2>6. \A v : Put(Unexpired(ts), HashOf[p, f], v) = DP!Put(Unexpired(ts), HashOf[p, f], v)
    BY DEF Put, DP!Put
  <2>7. \A kind, h, e, w : Line(kind, h, e, w) = DP!Line(kind, h, e, w)
    BY DEF Line, DP!Line
  <2> QED
    BY ZenonT(30), <2>1, <2>2, <2>3, <2>4, <2>5, <2>6, <2>7 DEF ReportFirst, DP!ReportFirst
<1> QED
  BY <1>1, <1>2, <1>3 DEF HandleOpen, DP!HandleOpen

LEMMA OneExit == \A p : HandleExit(p) <=> DP!HandleExit(p)
BY OneParts DEF HandleExit, DP!HandleExit

LEMMA OneType == (DedupTypeOK <=> DP!DedupTypeOK) /\ (DedupTypeOK' <=> DP!DedupTypeOK')
BY DEF DedupTypeOK, Entry, Slot, OpenLine, ProcessLine, Time,
       DP!DedupTypeOK, DP!Entry, DP!Slot, DP!OpenLine, DP!ProcessLine, DP!Time

LEMMA OpenType ==
  ASSUME DedupTypeOK, NEW p \in Pids, NEW f \in Files, NEW ts \in Time, HandleOpen(p, f, ts)
  PROVE  DedupTypeOK'
BY OneType, OneOpen, DedupAssumption, DP!OpenType DEF Time, DP!Time

LEMMA ExitType ==
  ASSUME DedupTypeOK, NEW p \in Pids, HandleExit(p)
  PROVE  DedupTypeOK'
BY OneType, OneExit, DedupAssumption, DP!ExitType

LEMMA OpenOwners ==
  ASSUME DedupTypeOK, NEW p \in Pids, NEW f \in Files, NEW ts \in Time, HandleOpen(p, f, ts)
  PROVE  /\ \A h \in DOMAIN file_hashes' :
              file_hashes'[h].pid = p \/ \E g \in DOMAIN file_hashes : file_hashes'[h].pid = file_hashes[g].pid
         /\ \A l \in out' : l.pid = p \/ \E g \in DOMAIN file_hashes : l.pid = file_hashes[g].pid
BY OneType, OneOpen, DedupAssumption, DP!OpenOwners DEF Time, DP!Time

LEMMA ExitOwners ==
  ASSUME DedupTypeOK, NEW p \in Pids, HandleExit(p)
  PROVE  /\ \A h \in DOMAIN file_hashes' :
              h \in DOMAIN file_hashes /\ file_hashes'[h] = file_hashes[h] /\ file_hashes[h].pid # p
         /\ \A l \in out' : l.pid = p
BY OneType, OneExit, DedupAssumption, DP!ExitOwners

-----------------------------------------------------------------------------

\* The kernel's steps keep its table and leave the tracer's alone.
KernelTyped ==
  /\ options \in Options
  /\ phase \in {"scan", "gap", "tracing", "stopped"}
  /\ cursor \in Pids \union {0}
  /\ procs \in [Pids -> Process]
  /\ exec_start \subseteq Pids
  /\ ring \in Seq(Event) /\ Len(ring) <= RingMax
  /\ clock \in 0 .. MaxTime
  /\ ops \in 0 .. MaxOps
  /\ family \subseteq Pids
  /\ blind \in BOOLEAN

UserTyped ==
  /\ DedupTypeOK
  /\ tracker \in T!Table
  /\ announced \subseteq Pids
  /\ cut \in BOOLEAN /\ overflow \in BOOLEAN

LEMMA TypedParts == TypeOK <=> KernelTyped /\ UserTyped
BY DEF TypeOK, KernelTyped, UserTyped

LEMMA EmitType ==
  ASSUME KernelTyped, NEW e \in Event, Emit(e)
  PROVE  ring' \in Seq(Event) /\ Len(ring') <= RingMax /\ blind' \in BOOLEAN
BY TracerAssumption DEF KernelTyped, Emit

LEMMA OperateUser ==
  ASSUME UserTyped, Operate
  PROVE  UserTyped'
BY DEF UserTyped, Operate, userVars, DedupTypeOK

LEMMA ForkTyped == ASSUME KernelTyped, NEW parent \in Pids \union {Reaper}, NEW p \in Pids, Fork(parent, p) PROVE KernelTyped'
<1> DEFINE child == [st |-> "running", ppid |-> parent, match |-> parent # Reaper /\ procs[parent].match]
<1>1. child \in Process
  <2>1. parent # Reaper => procs[parent].match \in BOOLEAN
    BY DEF KernelTyped, Process
  <2> QED
    BY <2>1 DEF Process, States
<1>2. procs' = [procs EXCEPT ![p] = child]
  BY DEF Fork
<1> HIDE DEF child
<1>3. procs' \in [Pids -> Process]
  BY <1>1, <1>2 DEF KernelTyped
<1> QED
  BY <1>3, TracerAssumption DEF Fork, Operate, KernelTyped

LEMMA ExecTyped == ASSUME KernelTyped, NEW p \in Pids, NEW match \in BOOLEAN, Exec(p, match) PROVE KernelTyped'
<1>1. procs[p] \in Process
  BY DEF KernelTyped
<1>2. procs' \in [Pids -> Process]
  BY DEF Exec, KernelTyped, Process, States
<1>3. [type |-> "EXEC", pid |-> p, ppid |-> procs[p].ppid, match |-> match] \in Event
  BY <1>1 DEF Process, Event
<1>4. ring' \in Seq(Event) /\ Len(ring') <= RingMax /\ blind' \in BOOLEAN
  BY <1>3, EmitType DEF Exec, Suppress, KernelTyped
<1>5. family' \subseteq Pids /\ exec_start' \subseteq Pids
  BY DEF Exec, KernelTyped
<1> QED
  BY <1>2, <1>4, <1>5, TracerAssumption DEF Exec, Operate, KernelTyped

LEMMA ExitTyped == ASSUME KernelTyped, NEW p \in Pids, Exit(p) PROVE KernelTyped'
<1>1. procs' \in [Pids -> Process]
  BY DEF Exit, KernelTyped, Process, States
<1>2. [type |-> "EXIT", pid |-> p] \in Event
  BY DEF Event
<1>3. ring' \in Seq(Event) /\ Len(ring') <= RingMax /\ blind' \in BOOLEAN
  BY <1>2, EmitType DEF Exit, Suppress, KernelTyped
<1>4. family' \subseteq Pids /\ exec_start' \subseteq Pids
  BY DEF Exit, KernelTyped
<1> QED
  BY <1>1, <1>3, <1>4, TracerAssumption DEF Exit, Operate, KernelTyped

LEMMA ReapTyped == ASSUME KernelTyped, NEW p \in Pids, Reap(p) PROVE KernelTyped'
<1>1. ASSUME NEW q \in Pids
      PROVE  procs'[q] \in Process
  <2>1. procs[q] \in Process
    BY DEF KernelTyped
  <2>2. procs'[q] \in {NoProcess, [procs[q] EXCEPT !.ppid = Reaper], procs[q]}
    BY DEF Reap
  <2>3. NoProcess \in Process /\ [procs[q] EXCEPT !.ppid = Reaper] \in Process
    BY <2>1 DEF Process, NoProcess, States
  <2> QED
    BY <2>1, <2>2, <2>3
<1>2. procs' \in [Pids -> Process]
  BY <1>1 DEF Reap
<1> QED
  BY <1>2, TracerAssumption DEF Reap, Operate, KernelTyped

LEMMA OpenTyped == ASSUME KernelTyped, NEW p \in Pids, NEW f \in Files, Open(p, f) PROVE KernelTyped'
<1>1. clock \in Time
  BY TracerAssumption, DedupAssumption DEF KernelTyped, Time
<1>2. [type |-> "OPEN", pid |-> p, file |-> f, ts |-> clock] \in Event
  BY <1>1 DEF Event
<1>3. ring' \in Seq(Event) /\ Len(ring') <= RingMax
  BY <1>2, TracerAssumption DEF Open, KernelTyped
<1> QED
  BY <1>3, TracerAssumption DEF Open, Operate, KernelTyped

LEMMA ReadlineTyped == ASSUME KernelTyped, NEW p \in Pids, Readline(p) PROVE KernelTyped'
<1>1. [type |-> "READLINE", pid |-> p] \in Event
  BY DEF Event
<1>2. ring' \in Seq(Event) /\ Len(ring') <= RingMax
  BY <1>1, TracerAssumption DEF Readline, KernelTyped
<1> QED
  BY <1>2, TracerAssumption DEF Readline, Operate, KernelTyped

\* A kernel step in all: what it keeps, and that it prints nothing.
LEMMA KernelStep ==
  ASSUME TypeOK, Kernel
  PROVE  TypeOK' /\ out' = {} /\ UNCHANGED <<options, phase, userVars>>
<1> USE TypedParts
<1>1. CASE \E parent \in Pids \union {Reaper}, p \in Pids : Fork(parent, p)
  <2>1. KernelTyped' /\ Operate
    BY <1>1, ForkTyped DEF Fork
  <2> QED
    BY <2>1, OperateUser DEF Operate, TypeOK, KernelTyped, UserTyped
<1>2. CASE \E p \in Pids, match \in BOOLEAN : Exec(p, match)
  <2>1. KernelTyped' /\ Operate
    BY <1>2, ExecTyped DEF Exec
  <2> QED
    BY <2>1, OperateUser DEF Operate, TypeOK, KernelTyped, UserTyped
<1>3. CASE \E p \in Pids : Exit(p) \/ Reap(p) \/ Readline(p)
  <2>1. KernelTyped' /\ Operate
    BY <1>3, ExitTyped, ReapTyped, ReadlineTyped DEF Exit, Reap, Readline
  <2> QED
    BY <2>1, OperateUser DEF Operate, TypeOK, KernelTyped, UserTyped
<1>4. CASE \E p \in Pids, f \in Files : Open(p, f)
  <2>1. KernelTyped' /\ Operate
    BY <1>4, OpenTyped DEF Open
  <2> QED
    BY <2>1, OperateUser DEF Operate, TypeOK, KernelTyped, UserTyped
<1>5. CASE Tick
  BY <1>5, TracerAssumption DEF Tick, TypeOK, DedupTypeOK, userVars
<1> QED
  BY <1>1, <1>2, <1>3, <1>4, <1>5 DEF Kernel

-----------------------------------------------------------------------------

\* handle_event keeps the types, whatever the event.
LEMMA HandleTyped ==
  ASSUME TypeOK, NEW e \in Event, Handle(e)
  PROVE  UserTyped'
<1>1. UserTyped /\ e.pid \in Pids
  BY TypedParts DEF Event
<1>2. \A kind \in {"exec", "exit", "readline"} : Printed(kind, e.pid) \in ProcessLine
  BY <1>1 DEF Printed, ProcessLine
<1>3. CASE e.type = "EXIT" /\ OnExit(e)
  <2>1. DedupTypeOK'
    <3>1. CASE HandleExit(e.pid)
      BY <1>1, <3>1, ExitType DEF UserTyped
    <3>2. CASE out' = {} /\ UNCHANGED <<file_hashes, pid_limits>>
      BY <1>1, <3>2 DEF UserTyped, DedupTypeOK
    <3> QED
      BY <1>3, <3>1, <3>2 DEF OnExit
  <2>2. tracker' \in T!Table /\ announced' \subseteq Pids /\ cut' \in BOOLEAN /\ overflow' \in BOOLEAN
    BY <1>1, <1>3, TableType DEF OnExit, UserTyped
  <2> QED
    BY <2>1, <2>2 DEF UserTyped
<1>4. CASE e.type = "EXEC" /\ OnExec(e)
  <2>1. DedupTypeOK'
    BY <1>1, <1>2, <1>4 DEF OnExec, UserTyped, DedupTypeOK
  <2>2. tracker' \in T!Table /\ announced' \subseteq Pids /\ overflow' \in BOOLEAN
    BY <1>1, <1>4, TableType DEF OnExec, Track, UserTyped
  <2> QED
    BY <1>1, <1>4, <2>1, <2>2 DEF OnExec, UserTyped
<1>5. CASE e.type = "READLINE" /\ OnReadline(e)
  BY <1>1, <1>2, <1>5 DEF OnReadline, userVars, UserTyped, DedupTypeOK
<1>6. CASE e.type = "OPEN" /\ OnOpen(e)
  <2>1. e.file \in Files /\ e.ts \in Time
    BY <1>6 DEF Event
  <2>2. DedupTypeOK'
    <3>1. CASE HandleOpen(e.pid, e.file, e.ts)
      BY <1>1, <2>1, <3>1, OpenType DEF UserTyped
    <3>2. CASE out' = {} /\ UNCHANGED <<file_hashes, pid_limits>>
      BY <1>1, <3>2 DEF UserTyped, DedupTypeOK
    <3> QED
      BY <1>6, <3>1, <3>2 DEF OnOpen
  <2> QED
    BY <1>1, <1>6, <2>2 DEF OnOpen, UserTyped
<1> QED
  BY <1>3, <1>4, <1>5, <1>6 DEF Handle

LEMMA ScanTyped ==
  ASSUME TypeOK, NEW p \in Pids, NEW ppid \in Pids \union {Reaper, NoPpid}, ScanPid(p, ppid)
  PROVE  TypeOK'
<1>1. tracker' \in T!Table /\ overflow' \in BOOLEAN /\ announced' \subseteq Pids
  BY TableType DEF ScanPid, Track, TypeOK
<1>2. cursor' \in Pids \union {0} /\ family' \subseteq Pids /\ blind' \in BOOLEAN
  BY DEF ScanPid, TypeOK
<1> QED
  BY <1>1, <1>2 DEF ScanPid, TypeOK, DedupTypeOK, kernelVars

\* The tracer's tables, the events in the ring and the lines printed keep their
\* types, so that no handler meets an event or an entry it does not know.
THEOREM TracerTypes == Spec => []TypeOK
<1>1. Init => TypeOK
  <2> SUFFICES ASSUME Init
               PROVE  TypeOK
    OBVIOUS
  <2>1. DedupTypeOK
    BY DEF Init, DedupInit, DedupTypeOK
  <2>2. procs \in [Pids -> Process]
    BY ExistingAssumption DEF Init
  <2>3. KernelTyped
    <3>1. <<>> \in Seq(Event) /\ Len(<<>>) <= RingMax
      BY TracerAssumption
    <3>2. 0 \in 0 .. MaxTime /\ 0 \in 0 .. MaxOps
      BY TracerAssumption
    <3> QED
      BY <2>2, <3>1, <3>2 DEF Init, KernelTyped
  <2>4. UserTyped
    BY <2>1, TableType DEF Init, UserTyped
  <2> QED
    BY <2>3, <2>4, TypedParts
<1>2. TypeOK /\ [Next]_vars => TypeOK'
  <2> SUFFICES ASSUME TypeOK, [Next]_vars
               PROVE  TypeOK'
    OBVIOUS
  <2>1. CASE Kernel
    BY <2>1, KernelStep
  <2>2. CASE \E p \in Pids, ppid \in Pids \union {Reaper, NoPpid} : ScanPid(p, ppid)
    BY <2>2, ScanTyped
  <2>3. CASE ScanDone \/ Attach
    BY <2>3 DEF ScanDone, Attach, kernelVars, userVars, TypeOK, DedupTypeOK
  <2>4. CASE Poll
    <3>1. Head(ring) \in Event /\ ring' \in Seq(Event) /\ Len(ring') <= RingMax
      BY <2>4, TracerAssumption DEF Poll, TypeOK
    <3>2. UserTyped'
      BY <2>4, <3>1, HandleTyped DEF Poll
    <3> QED
      BY <2>4, <3>1, <3>2, TypedParts DEF Poll, kernelVars, KernelTyped, TypeOK, UserTyped
  <2>5. CASE Stop
    BY <2>5, TracerAssumption DEF Stop, kernelVars, TypeOK, DedupTypeOK
  <2>6. CASE UNCHANGED vars
    BY <2>6 DEF vars, kernelVars, userVars, TypeOK, DedupTypeOK
  <2> QED
    BY <2>1, <2>2, <2>3, <2>4, <2>5, <2>6 DEF Next, Tracer
<1> QED
  BY <1>1, <1>2, PTL DEF Spec

-----------------------------------------------------------------------------

\* What makes OwnersTracked and NoLineOutsideLife inductive: until a removal cuts
\* a probe sequence, the table holds announced pids only, whoever owns an
\* aggregate is in the table, and nothing is printed before the tracer attaches.
Holding == T!Proper(tracker) /\ T!Held(tracker) \subseteq announced

OwnersHeld == options.mode # "ALL" => \A h \in DOMAIN file_hashes : file_hashes[h].pid \in T!Held(tracker)

Quiet == phase \in {"scan", "gap"} => out = {}

IInv == (~cut => Holding /\ OwnersHeld) /\ Quiet

\* No line but EXEC's is about a process outside its life.
LinesInLife == options.mode = "FILTER" /\ ~cut => \A l \in out' : l.kind = "exec" \/ l.pid \in announced

\* Adding a pid that is announced with it.
LEMMA TrackHolds ==
  ASSUME TypeOK, Holding, OwnersHeld, NEW p \in Pids, Track(p), UNCHANGED <<file_hashes, options>>
  PROVE  Holding' /\ OwnersHeld'
<1>1. tracker \in T!Table /\ tracker' = T!AddPid(tracker, p) /\ announced' = announced \union {p}
  BY DEF Track, TypeOK
<1>2. T!Proper(tracker') /\ T!Held(tracker) \subseteq T!Held(tracker') /\ T!Held(tracker') \subseteq T!Held(tracker) \union {p}
  BY <1>1, AddHolds DEF Holding
<1>3. T!Proper(tracker)' /\ T!Held(tracker)' = T!Held(tracker')
  BY <1>2
<1> QED
  BY <1>1, <1>2, <1>3 DEF Holding, OwnersHeld

LEMMA ExitHolds ==
  ASSUME TypeOK, IInv, NEW e \in Event, OnExit(e), UNCHANGED options
  PROVE  LinesInLife /\ (~cut' => Holding' /\ OwnersHeld')
<1> DEFINE p == e.pid
           tracked == T!Tracked(tracker, p)
           silent == ~tracked /\ options.mode = "FILTER"
<1>1. p \in Pids /\ DedupTypeOK /\ tracker \in T!Table
  BY DEF Event, TypeOK
<1>2. CASE cut
  BY <1>2 DEF OnExit, LinesInLife
<1>3. CASE ~cut
  <2>1. Holding /\ OwnersHeld
    BY <1>3 DEF IInv
  <2>2. tracked <=> p \in T!Held(tracker)
    BY <1>1, <2>1, LookUpExact DEF Holding
  <2>3. silent => out' = {} /\ UNCHANGED file_hashes /\ announced' = announced
    BY DEF OnExit
  <2>4. ~silent => HandleExit(p) /\ announced' = announced \ {p}
    BY DEF OnExit
  <2>5. LinesInLife
    <3>1. CASE silent
      BY <2>3, <3>1 DEF LinesInLife
    <3>2. CASE ~silent
      <4>1. \A l \in out' : l.pid = p
        BY <1>1, <2>4, <3>2, ExitOwners
      <4>2. options.mode = "FILTER" => p \in announced
        BY <2>1, <2>2, <3>2 DEF Holding
      <4> QED
        BY <4>1, <4>2 DEF LinesInLife
    <3> QED
      BY <3>1, <3>2
  <2>6. ASSUME ~cut'
        PROVE  Holding' /\ OwnersHeld'
    <3>1. tracker' = T!RemovePid(tracker, p) /\ ~(tracked /\ T!CutsChain(tracker', T!SlotOf(tracker, p)))
      BY <2>6 DEF OnExit
    <3>2. T!Proper(tracker') /\ T!Held(tracker') = T!Held(tracker) \ {p}
      BY <1>1, <2>1, <3>1, RemoveHolds DEF Holding
    <3>3. Holding'
      BY <2>1, <2>3, <2>4, <3>2 DEF Holding
    <3>4. ASSUME options.mode # "ALL", NEW h \in DOMAIN file_hashes'
          PROVE  file_hashes'[h].pid \in T!Held(tracker) \ {p}
      <4>1. CASE silent
        BY <2>1, <2>2, <2>3, <3>4, <4>1 DEF OwnersHeld
      <4>2. CASE ~silent
        <5>1. h \in DOMAIN file_hashes /\ file_hashes'[h] = file_hashes[h] /\ file_hashes[h].pid # p
          BY <1>1, <2>4, <3>4, <4>2, ExitOwners
        <5> QED
          BY <2>1, <3>4, <5>1 DEF OwnersHeld
      <4> QED
        BY <4>1, <4>2
    <3>5. OwnersHeld'
      BY <3>2, <3>4 DEF OwnersHeld
    <3> QED
      BY <3>3, <3>5
  <2> QED
    BY <2>5, <2>6
<1> QED
  BY <1>2, <1>3

LEMMA ExecHolds ==
  ASSUME TypeOK, IInv, NEW e \in Event, OnExec(e), UNCHANGED options
  PROVE  LinesInLife /\ (~cut' => Holding' /\ OwnersHeld')
<1>1. LinesInLife
  BY DEF OnExec, LinesInLife, Printed
<1>2. ASSUME ~cut'
      PROVE  Holding' /\ OwnersHeld'
  <2>1. Holding /\ OwnersHeld /\ e.pid \in Pids
    BY <1>2 DEF IInv, OnExec, Event
  <2>2. CASE Track(e.pid)
    BY <2>1, <2>2, TrackHolds DEF OnExec
  <2>3. CASE UNCHANGED <<tracker, overflow, announced>>
    BY <2>1, <2>3 DEF OnExec, Holding, OwnersHeld
  <2> QED
    BY <2>2, <2>3 DEF OnExec
<1> QED
  BY <1>1, <1>2

LEMMA ReadlineHolds ==
  ASSUME TypeOK, IInv, NEW e \in Event, OnReadline(e), UNCHANGED options
  PROVE  LinesInLife /\ (~cut' => Holding' /\ OwnersHeld')
<1>1. e.pid \in Pids /\ tracker \in T!Table
  BY DEF Event, TypeOK
<1>2. LinesInLife
  <2> SUFFICES ASSUME options.mode = "FILTER", ~cut, NEW l \in out'
               PROVE  l.pid \in announced
    BY DEF LinesInLife
  <2>1. l.pid = e.pid /\ T!Tracked(tracker, e.pid)
    BY DEF OnReadline, ReportsReadline, Printed
  <2> QED
    BY <1>1, <2>1, LookUpExact DEF IInv, Holding
<1>3. (~cut => Holding /\ OwnersHeld) => (~cut' => Holding' /\ OwnersHeld')
  BY DEF OnReadline, userVars, Holding, OwnersHeld
<1> QED
  BY <1>2, <1>3 DEF IInv

LEMMA OpenHolds ==
  ASSUME TypeOK, IInv, NEW e \in Event, e.type = "OPEN", OnOpen(e), UNCHANGED options
  PROVE  LinesInLife /\ (~cut' => Holding' /\ OwnersHeld')
<1> DEFINE p == e.pid
<1>1. p \in Pids /\ e.file \in Files /\ e.ts \in Time /\ DedupTypeOK /\ tracker \in T!Table
  BY DEF Event, TypeOK
<1>2. UNCHANGED <<tracker, announced, cut>>
  BY DEF OnOpen
<1>3. CASE cut
  BY <1>2, <1>3 DEF LinesInLife
<1>4. CASE ~cut
  <2>1. Holding /\ OwnersHeld
    BY <1>4 DEF IInv
  <2>2. Holding'
    BY <1>2, <2>1 DEF Holding
  <2>3. CASE ReportsFiles(p) /\ HandleOpen(p, e.file, e.ts)
    <3>1. options.mode # "ALL" => p \in T!Held(tracker)
      BY <1>1, <2>1, <2>3, LookUpExact DEF ReportsFiles, Holding
    <3>2. options.mode # "ALL" => \A h \in DOMAIN file_hashes' : file_hashes'[h].pid \in T!Held(tracker)
      BY <1>1, <2>1, <2>3, <3>1, OpenOwners DEF OwnersHeld
    <3>3. options.mode # "ALL" => \A l \in out' : l.pid \in T!Held(tracker)
      BY <1>1, <2>1, <2>3, <3>1, OpenOwners DEF OwnersHeld
    <3>4. OwnersHeld'
      BY <1>2, <3>2 DEF OwnersHeld
    <3>5. LinesInLife
      BY <2>1, <3>3 DEF LinesInLife, Holding
    <3> QED
      BY <2>2, <3>4, <3>5
  <2>4. CASE out' = {} /\ UNCHANGED <<file_hashes, pid_limits>>
    BY <1>2, <2>1, <2>2, <2>4 DEF LinesInLife, OwnersHeld
  <2> QED
    BY <2>3, <2>4 DEF OnOpen
<1> QED
  BY <1>3, <1>4

\* Every step keeps the invariant and prints about the living only.
LEMMA StepHolds ==
  ASSUME TypeOK, IInv, [Next]_vars
  PROVE  IInv' /\ (LinesInLife \/ UNCHANGED vars)
<1>1. CASE Kernel
  <2>1. out' = {} /\ UNCHANGED <<options, phase, userVars>>
    BY <1>1, KernelStep
  <2> QED
    BY <2>1 DEF userVars, IInv, Holding, OwnersHeld, Quiet, LinesInLife
<1>2. CASE \E p \in Pids, ppid \in Pids \union {Reaper, NoPpid} : ScanPid(p, ppid)
  <2>1. PICK p \in Pids, ppid \in Pids \union {Reaper, NoPpid} : ScanPid(p, ppid)
    BY <1>2
  <2>2. UNCHANGED <<options, phase, file_hashes, out, cut>> /\ out = {}
    BY <2>1 DEF ScanPid, IInv, Quiet
  <2>3. ASSUME ~cut'
        PROVE  Holding' /\ OwnersHeld'
    <3>1. Holding /\ OwnersHeld
      BY <2>2, <2>3 DEF IInv
    <3>2. CASE Track(p)
      BY <2>2, <3>1, <3>2, TrackHolds
    <3>3. CASE UNCHANGED <<tracker, overflow, announced>>
      BY <2>2, <3>1, <3>3 DEF Holding, OwnersHeld
    <3> QED
      BY <2>1, <3>2, <3>3 DEF ScanPid
  <2> QED
    BY <2>2, <2>3 DEF IInv, Quiet, LinesInLife
<1>3. CASE ScanDone \/ Attach
  BY <1>3 DEF ScanDone, Attach, userVars, IInv, Holding, OwnersHeld, Quiet, LinesInLife
<1>4. CASE Poll
  <2>1. Head(ring) \in Event /\ Handle(Head(ring)) /\ UNCHANGED <<options, phase>> /\ phase = "tracing"
    BY <1>4 DEF Poll, TypeOK
  <2>2. LinesInLife /\ (~cut' => Holding' /\ OwnersHeld')
    BY <2>1, ExitHolds, ExecHolds, ReadlineHolds, OpenHolds DEF Handle
  <2>3. Quiet'
    BY <2>1 DEF Quiet
  <2> QED
    BY <2>2, <2>3 DEF IInv
<1>5. CASE Stop
  BY <1>5 DEF Stop, IInv, Holding, OwnersHeld, Quiet, LinesInLife
<1>6. CASE UNCHANGED vars
  BY <1>6 DEF vars, kernelVars, userVars, IInv, Holding, OwnersHeld, Quiet
<1> QED
  BY <1>1, <1>2, <1>3, <1>4, <1>5, <1>6 DEF Next, Tracer

LEMMA Invariance == Spec => []IInv
<1>1. Init => IInv
  <2>1. Init => Holding /\ OwnersHeld
    BY EmptyHolds DEF Init, DedupInit, Holding, OwnersHeld
  <2>2. Init => Quiet
    BY DEF Init, DedupInit, Quiet
  <2> QED
    BY <2>1, <2>2 DEF IInv
<1>2. TypeOK /\ IInv /\ [Next]_vars => IInv'
  BY StepHolds
<1> QED
  BY <1>1, <1>2, TracerTypes, PTL DEF Spec

\* Outside ALL mode, whoever owns a pending aggregate is tracked until a removal
\* cuts a probe sequence: no aggregate is left without an EXIT to flush it,
\* whichever events are lost and however full the table is.
THEOREM OwnersStayTracked == Spec => []OwnersTracked
<1>1. TypeOK /\ IInv => OwnersTracked
  <2> SUFFICES ASSUME TypeOK, IInv, options.mode # "ALL", ~cut, NEW h \in DOMAIN file_hashes
               PROVE  T!Tracked(tracker, file_hashes[h].pid)
    BY DEF OwnersTracked
  <2>1. file_hashes[h].pid \in Pids /\ tracker \in T!Table
    BY DEF TypeOK, DedupTypeOK, Entry
  <2> QED
    BY <2>1, LookUpExact DEF IInv, Holding, OwnersHeld
<1> QED
  BY <1>1, TracerTypes, Invariance, PTL

\* In FILTER mode no line but EXEC's is printed about a process outside its
\* announced life, until a removal cuts a probe sequence.
THEOREM LinesWithinLife == Spec => NoLineOutsideLife
<1>1. TypeOK /\ IInv /\ [Next]_vars =>
        [options.mode = "FILTER" /\ ~cut => \A l \in out' : l.kind = "exec" \/ l.pid \in announced]_vars
  BY StepHolds DEF LinesInLife
<1> QED
  BY <1>1, TracerTypes, Invariance, PTL DEF Spec, NoLineOutsideLife

-----------------------------------------------------------------------------

\* What handling the events of the ring does to the set of tracked pids.
LEMMA AfterType ==
  ASSUME NEW S \in SUBSET Pids, NEW e \in Event
  PROVE  AfterEvent(S, e) \in SUBSET Pids
<1>1. e.pid \in Pids
  BY DEF Event
<1> QED
  BY <1>1 DEF AfterEvent

\* g is the set after each of the events es, from S.
IsRun(g, es, S) ==
  /\ g \in [0 .. Len(es) -> SUBSET Pids]
  /\ g[0] = S
  /\ \A i \in 1 .. Len(es) : g[i] = AfterEvent(g[i - 1], es[i])

LEMMA RunExists ==
  ASSUME NEW es \in Seq(Event), NEW S \in SUBSET Pids
  PROVE  \E g : IsRun(g, es, S)
<1> DEFINE n == Len(es)
           V == SUBSET Pids
           step == [i \in 1 .. n |-> [X \in V |-> AfterEvent(X, es[i])]]
<1>1. n \in Nat /\ \A i \in 1 .. n : es[i] \in Event
  OBVIOUS
<1>2. step \in [1 .. n -> [V -> V]]
  BY <1>1, AfterType
<1>3. PICK g \in [0 .. n -> V] : g[0] = S /\ \A i \in 1 .. n : g[i] = step[i][g[i - 1]]
  <2>1. S \in V /\ n \in Nat
    BY <1>1
  <2> HIDE DEF step, n, V
  <2> QED
    BY <1>2, <2>1, RecursionExists
<1>4. ASSUME NEW i \in 1 .. n
      PROVE  g[i] = AfterEvent(g[i - 1], es[i])
  <2>1. i - 1 \in 0 .. n
    OBVIOUS
  <2>2. g[i - 1] \in V
    BY <1>3, <2>1
  <2>3. step[i][g[i - 1]] = AfterEvent(g[i - 1], es[i])
    BY <2>2
  <2> QED
    BY <1>3, <2>3
<1> QED
  BY <1>3, <1>4 DEF IsRun

LEMMA RunApplied ==
  ASSUME NEW es \in Seq(Event), NEW S \in SUBSET Pids, NEW g, IsRun(g, es, S)
  PROVE  Applied(es, S) = g[Len(es)]
<1> DEFINE n == Len(es)
           P(h) == h = [i \in 0 .. n |-> IF i = 0 THEN S ELSE AfterEvent(h[i - 1], es[i])]
           f == CHOOSE h : P(h)
<1>1. n \in Nat
  OBVIOUS
<1>2. P(g)
  BY <1>1 DEF IsRun
<1>3. P(f)
  <2> HIDE DEF P
  <2> QED
    BY <1>2
<1>4. Applied(es, S) = f[n]
  BY DEF Applied
<1>5. \A h : P(h) => h[0] = S /\ \A i \in 1 .. n : h[i] = AfterEvent(h[i - 1], es[i])
  BY <1>1
<1>6. \A i \in 0 .. n : f[i] = g[i]
  <2> DEFINE Same == {i \in Nat : i <= n => f[i] = g[i]}
  <2>1. 0 \in Same
    BY <1>3, <1>5 DEF IsRun
  <2>2. ASSUME NEW i \in Nat, i \in Same
        PROVE  i + 1 \in Same
    <3> HIDE DEF P, f
    <3> QED
      BY <1>1, <1>3, <1>5, <2>2 DEF IsRun
  <2>3. Nat \subseteq Same
    <3> HIDE DEF Same
    <3> QED
      BY <2>1, <2>2, SetInduction
  <2> QED
    BY <2>3
<1> QED
  BY <1>1, <1>4, <1>6

LEMMA AppliedEmpty ==
  ASSUME NEW S \in SUBSET Pids
  PROVE  Applied(<<>>, S) = S
<1> DEFINE g == [i \in 0 .. 0 |-> S]
<1>1. IsRun(g, <<>>, S)
  BY DEF IsRun
<1>2. <<>> \in Seq(Event) /\ Len(<<>>) = 0
  OBVIOUS
<1> HIDE DEF g
<1>3. Applied(<<>>, S) = g[0]
  BY <1>1, <1>2, RunApplied
<1> QED
  BY <1>1, <1>3 DEF IsRun

LEMMA AppliedAppend ==
  ASSUME NEW es \in Seq(Event), NEW e \in Event, NEW S \in SUBSET Pids
  PROVE  Applied(Append(es, e), S) = AfterEvent(Applied(es, S), e)
<1> DEFINE n == Len(es)
<1>1. PICK g : IsRun(g, es, S)
  BY RunExists
<1> DEFINE h == [i \in 0 .. n + 1 |-> IF i = n + 1 THEN AfterEvent(g[n], e) ELSE g[i]]
<1>2. /\ n \in Nat /\ Append(es, e) \in Seq(Event) /\ Len(Append(es, e)) = n + 1
      /\ \A i \in 1 .. n : Append(es, e)[i] = es[i]
      /\ Append(es, e)[n + 1] = e
  OBVIOUS
<1>3. Applied(es, S) = g[n] /\ g[n] \in SUBSET Pids
  BY <1>1, <1>2, RunApplied DEF IsRun
<1>4. h \in [0 .. n + 1 -> SUBSET Pids]
  BY <1>1, <1>3, AfterType DEF IsRun
<1>5. /\ \A i \in 0 .. n : h[i] = g[i]
      /\ h[n + 1] = AfterEvent(g[n], e)
  BY <1>2
<1> HIDE DEF h
<1>6. ASSUME NEW i \in 1 .. n + 1
      PROVE  h[i] = AfterEvent(h[i - 1], Append(es, e)[i])
  <2>1. CASE i = n + 1
    BY <1>2, <1>5, <2>1
  <2>2. CASE i # n + 1
    <3>1. i \in 1 .. n /\ i \in 0 .. n /\ i - 1 \in 0 .. n
      BY <1>2, <2>2
    <3> QED
      BY <1>1, <1>2, <1>5, <3>1 DEF IsRun
  <2> QED
    BY <2>1, <2>2
<1>7. IsRun(h, Append(es, e), S)
  BY <1>1, <1>2, <1>4, <1>5, <1>6 DEF IsRun
<1>8. Applied(Append(es, e), S) = h[n + 1]
  BY <1>2, <1>7, RunApplied
<1> QED
  BY <1>3, <1>5, <1>8

LEMMA AppliedTail ==
  ASSUME NEW es \in Seq(Event), es # <<>>, NEW S \in SUBSET Pids
  PROVE  Applied(Tail(es), AfterEvent(S, Head(es))) = Applied(es, S)
<1> DEFINE n == Len(es)
<1>1. PICK g : IsRun(g, es, S)
  BY RunExists
<1> DEFINE h == [i \in 0 .. n - 1 |-> g[i + 1]]
<1>2. /\ n \in Nat \ {0} /\ Tail(es) \in Seq(Event) /\ Len(Tail(es)) = n - 1 /\ Head(es) = es[1] /\ Head(es) \in Event
      /\ \A i \in 1 .. n - 1 : Tail(es)[i] = es[i + 1]
  OBVIOUS
<1>3. h \in [0 .. n - 1 -> SUBSET Pids]
  BY <1>1, <1>2 DEF IsRun
<1>4. h[0] = AfterEvent(S, Head(es))
  BY <1>1, <1>2 DEF IsRun
<1>5. ASSUME NEW i \in 1 .. n - 1
      PROVE  h[i] = AfterEvent(h[i - 1], Tail(es)[i])
  <2>1. h[i] = g[i + 1] /\ h[i - 1] = g[i] /\ i + 1 \in 1 .. n
    BY <1>2
  <2>2. g[i + 1] = AfterEvent(g[i], es[i + 1])
    BY <1>1, <2>1 DEF IsRun
  <2> QED
    BY <1>2, <2>1, <2>2
<1>6. h[n - 1] = g[n]
  BY <1>2
<1> HIDE DEF h
<1>7. AfterEvent(S, Head(es)) \in SUBSET Pids
  BY <1>2, AfterType
<1>8. IsRun(h, Tail(es), AfterEvent(S, Head(es)))
  BY <1>2, <1>3, <1>4, <1>5 DEF IsRun
<1>9. Applied(Tail(es), AfterEvent(S, Head(es))) = h[n - 1]
  BY <1>2, <1>7, <1>8, RunApplied
<1>10. Applied(es, S) = g[n]
  BY <1>1, RunApplied
<1> QED
  BY <1>6, <1>9, <1>10

-----------------------------------------------------------------------------

\* The strengthening that makes CatchesUp inductive.  It holds already while the
\* tracer scans /proc and has not attached yet: nothing is in the ring then, and
\* what the scan has found is behind its cursor, so that a process which forks,
\* execs or exits before the scan reaches it is seen as it is by then.
InSync ==
  /\ Applied(ring, T!Held(tracker)) = family
  /\ \A p \in family : procs[p].st = "running"
  /\ phase \in {"scan", "gap"} => ring = <<>>
  /\ phase = "scan" => \A p \in family : p <= cursor

Synced == phase # "stopped" /\ ~blind /\ ~cut /\ ~overflow => InSync

\* Applied reads the filter mode, which no step changes.
LEMMA AppliedPrime ==
  ASSUME UNCHANGED options
  PROVE  Applied(ring, T!Held(tracker))' = Applied(ring', T!Held(tracker'))
BY DEF Applied, AfterEvent, Wanted, T!Held

LEMMA HeldPids ==
  ASSUME NEW t \in T!Table
  PROVE  T!Held(t) \in SUBSET Pids
BY DEF T!Held, T!Table, T!Free

LEMMA TrackedHeld ==
  ASSUME NEW t \in T!Table, T!Proper(t)
  PROVE  T!TrackedPids(t) = T!Held(t)
BY OneTable, PositivePids, TP!ProperExact

LEMMA TrackExact ==
  ASSUME NEW p \in Pids, tracker \in T!Table, T!Proper(tracker), Track(p), ~overflow'
  PROVE  T!Held(tracker') = T!Held(tracker) \union {p}
<1>1. tracker' = T!AddPid(tracker, p) /\ T!AddSucceeds(tracker, p)
  BY DEF Track
<1>2. TP!Held(TP!AddPid(tracker, p)) =
        IF TP!AddSucceeds(tracker, p) THEN TP!Held(tracker) \union {p} ELSE TP!Held(tracker)
  BY OneTable, PositivePids, TP!ProperAdd
<1> QED
  BY <1>1, <1>2, OneTable

\* An event due for e that is not lost ends up in the ring, or is about a process
\* that the scan has still to visit.
LEMMA EmitSync ==
  ASSUME TypeOK, InSync, NEW e \in Event, Emit(e), ~blind', UNCHANGED <<options, phase, tracker>>
  PROVE  \/ /\ Attached
            /\ Applied(ring, T!Held(tracker))' = AfterEvent(family, e)
         \/ /\ ~Attached /\ phase = "scan" /\ e.pid > cursor
            /\ UNCHANGED ring /\ Applied(ring, T!Held(tracker))' = family
<1>1. ring \in Seq(Event) /\ T!Held(tracker) \in SUBSET Pids
  BY HeldPids DEF TypeOK
<1>2. Applied(ring, T!Held(tracker))' = Applied(ring', T!Held(tracker))
  BY AppliedPrime
<1>3. CASE Attached
  <2>1. ring' = Append(ring, e)
    <3>1. ~(Len(ring) >= RingMax)
      BY <1>3, Zenon DEF Emit
    <3>2. Len(ring) < RingMax
      BY <1>1, <3>1, TracerAssumption
    <3> QED
      BY <1>3, <3>2 DEF Emit
  <2> QED
    BY <1>1, <1>2, <1>3, <2>1, AppliedAppend DEF InSync
<1>4. CASE ~Attached
  BY <1>2, <1>4 DEF Emit, Unseen, InSync
<1> QED
  BY <1>3, <1>4

\* An event that is no EXEC and no EXIT does not matter.
LEMMA OtherSync ==
  ASSUME TypeOK, InSync, NEW e \in Event, e.type \in {"OPEN", "READLINE"},
         ring' = IF Len(ring) < RingMax THEN Append(ring, e) ELSE ring, UNCHANGED <<options, tracker>>
  PROVE  Applied(ring, T!Held(tracker))' = family
<1>1. ring \in Seq(Event) /\ T!Held(tracker) \in SUBSET Pids
  BY HeldPids DEF TypeOK
<1>2. Applied(ring, T!Held(tracker))' = Applied(ring', T!Held(tracker))
  BY AppliedPrime
<1>3. Applied(Append(ring, e), T!Held(tracker)) = AfterEvent(family, e)
  BY <1>1, AppliedAppend DEF InSync
<1>4. AfterEvent(family, e) = family
  BY DEF AfterEvent
<1> QED
  BY <1>2, <1>3, <1>4 DEF InSync

LEMMA ForkSync ==
  ASSUME TypeOK, InSync, NEW parent \in Pids \union {Reaper}, NEW p \in Pids, Fork(parent, p)
  PROVE  InSync'
<1>1. UNCHANGED <<options, phase, cursor, tracker, ring, family>>
  BY DEF Fork, Operate, userVars
<1>2. Applied(ring, T!Held(tracker))' = Applied(ring, T!Held(tracker))
  BY <1>1, AppliedPrime
<1>3. \A q \in family : q \in Pids /\ procs'[q].st = "running"
  BY DEF Fork, TypeOK, InSync
<1> QED
  BY <1>1, <1>2, <1>3 DEF InSync

LEMMA ExecSync ==
  ASSUME TypeOK, InSync, NEW p \in Pids, NEW match \in BOOLEAN, Exec(p, match), ~blind'
  PROVE  InSync'
<1> DEFINE e == [type |-> "EXEC", pid |-> p, ppid |-> procs[p].ppid, match |-> match]
<1>1. UNCHANGED <<options, phase, cursor, tracker>> /\ procs[p] \in Process
  BY DEF Exec, Operate, userVars, TypeOK
<1>2. e \in Event /\ Emit(e)
  BY <1>1 DEF Exec, Suppress, Event, Process
<1>3. \A q \in Pids : q = p \/ procs[q].st = "running" => procs'[q].st = "running"
  BY DEF Exec, TypeOK
<1>4. \A q \in family' : q \in Pids /\ procs'[q].st = "running"
  BY <1>3 DEF Exec, InSync, TypeOK
<1>5. CASE Attached
  <2>1. Applied(ring, T!Held(tracker))' = AfterEvent(family, e)
    BY <1>1, <1>2, <1>5, EmitSync
  <2>2. AfterEvent(family, e) = family'
    BY <1>5 DEF Exec, AfterEvent
  <2> QED
    BY <1>1, <1>4, <1>5, <2>1, <2>2 DEF InSync, Attached
<1>6. CASE ~Attached
  <2>1. UNCHANGED ring /\ Applied(ring, T!Held(tracker))' = family
    BY <1>1, <1>2, <1>6, EmitSync
  <2>2. family' = family
    BY <1>6 DEF Exec
  <2> QED
    BY <1>1, <1>4, <2>1, <2>2 DEF InSync
<1> QED
  BY <1>5, <1>6

LEMMA ExitSync ==
  ASSUME TypeOK, InSync, NEW p \in Pids, Exit(p), ~blind'
  PROVE  InSync'
<1> DEFINE e == [type |-> "EXIT", pid |-> p]
<1>1. UNCHANGED <<options, phase, cursor, tracker>> /\ family' = family \ {p}
  BY DEF Exit, Operate, userVars
<1>2. e \in Event /\ Emit(e)
  BY DEF Exit, Suppress, Event
<1>3. \A q \in family' : q \in Pids /\ procs'[q].st = "running"
  BY <1>1 DEF Exit, InSync, TypeOK
<1>4. CASE Attached
  <2>1. Applied(ring, T!Held(tracker))' = AfterEvent(family, e)
    BY <1>1, <1>2, <1>4, EmitSync
  <2>2. AfterEvent(family, e) = family'
    BY <1>1 DEF AfterEvent
  <2> QED
    BY <1>1, <1>3, <1>4, <2>1, <2>2 DEF InSync, Attached
<1>5. CASE ~Attached
  <2>1. UNCHANGED ring /\ Applied(ring, T!Held(tracker))' = family /\ phase = "scan" /\ p > cursor
    BY <1>1, <1>2, <1>5, EmitSync
  <2>2. family' = family
    <3>1. p \in Nat /\ cursor \in Nat
      BY TracerAssumption DEF TypeOK
    <3> QED
      BY <1>1, <2>1, <3>1 DEF InSync
  <2> QED
    BY <1>1, <1>3, <2>1, <2>2 DEF InSync
<1> QED
  BY <1>4, <1>5

LEMMA ReapSync ==
  ASSUME TypeOK, InSync, NEW p \in Pids, Reap(p)
  PROVE  InSync'
<1>1. UNCHANGED <<options, phase, cursor, tracker, ring, family>>
  BY DEF Reap, Operate, userVars
<1>2. Applied(ring, T!Held(tracker))' = Applied(ring, T!Held(tracker))
  BY <1>1, AppliedPrime
<1>3. ASSUME NEW q \in family
      PROVE  procs'[q].st = "running"
  <2>1. q \in Pids /\ procs[q] \in Process /\ procs[q].st = "running" /\ q # p
    BY DEF Reap, TypeOK, InSync
  <2>2. procs'[q] \in {[procs[q] EXCEPT !.ppid = Reaper], procs[q]}
    BY <2>1 DEF Reap
  <2> QED
    BY <2>1, <2>2 DEF Process
<1> QED
  BY <1>1, <1>2, <1>3 DEF InSync

LEMMA KernelSync ==
  ASSUME TypeOK, InSync, Kernel, ~blind'
  PROVE  InSync'
<1>1. CASE \E parent \in Pids \union {Reaper}, p \in Pids : Fork(parent, p)
  BY <1>1, ForkSync
<1>2. CASE \E p \in Pids, match \in BOOLEAN : Exec(p, match)
  BY <1>2, ExecSync
<1>3. CASE \E p \in Pids : Exit(p)
  BY <1>3, ExitSync
<1>4. CASE \E p \in Pids : Reap(p)
  BY <1>4, ReapSync
<1>5. ASSUME NEW p \in Pids, Readline(p)
      PROVE  InSync'
  <2>1. [type |-> "READLINE", pid |-> p] \in Event
    BY DEF Event
  <2>2. UNCHANGED <<options, phase, cursor, tracker, family, procs>> /\ phase = "tracing"
    BY <1>5 DEF Readline, Operate, userVars, Attached
  <2>3. Applied(ring, T!Held(tracker))' = family
    BY <1>5, <2>1, <2>2, OtherSync DEF Readline
  <2> QED
    BY <2>2, <2>3 DEF InSync
<1>6. ASSUME NEW p \in Pids, NEW f \in Files, Open(p, f)
      PROVE  InSync'
  <2>1. [type |-> "OPEN", pid |-> p, file |-> f, ts |-> clock] \in Event
    BY TracerAssumption, DedupAssumption DEF Event, Time, TypeOK
  <2>2. UNCHANGED <<options, phase, cursor, tracker, family, procs>> /\ phase = "tracing"
    BY <1>6 DEF Open, Operate, userVars, Attached
  <2>3. Applied(ring, T!Held(tracker))' = family
    BY <1>6, <2>1, <2>2, OtherSync DEF Open
  <2> QED
    BY <2>2, <2>3 DEF InSync
<1>7. CASE Tick
  BY <1>7, AppliedPrime DEF Tick, userVars, InSync
<1> QED
  BY <1>1, <1>2, <1>3, <1>4, <1>5, <1>6, <1>7 DEF Kernel

\* The table after an event is handled is what AfterEvent says, unless a slot
\* was missing or a probe sequence cut.
LEMMA HandleSync ==
  ASSUME TypeOK, IInv, NEW e \in Event, Handle(e), ~cut', ~overflow'
  PROVE  T!Held(tracker') = AfterEvent(T!Held(tracker), e)
<1>1. ~cut
  BY DEF Handle, OnExit, OnExec, OnReadline, OnOpen, userVars
<1>2. tracker \in T!Table /\ T!Proper(tracker) /\ e.pid \in Pids
  BY <1>1 DEF TypeOK, IInv, Holding, Event
<1>3. CASE e.type = "EXIT" /\ OnExit(e)
  <2>1. /\ tracker' = T!RemovePid(tracker, e.pid)
        /\ ~(T!Tracked(tracker, e.pid) /\ T!CutsChain(tracker', T!SlotOf(tracker, e.pid)))
    BY <1>3 DEF OnExit
  <2>2. T!Held(tracker') = T!Held(tracker) \ {e.pid}
    BY <1>2, <2>1, RemoveHolds
  <2> QED
    BY <1>3, <2>2 DEF AfterEvent
<1>4. CASE e.type = "EXEC" /\ OnExec(e)
  <2>1. ShouldTrack(e.pid, e.ppid, e.match) <=> Wanted(e.pid, e.match, e.ppid \in T!Held(tracker))
    BY <1>2, TrackedHeld DEF ShouldTrack
  <2>2. CASE ShouldTrack(e.pid, e.ppid, e.match)
    <3>1. Track(e.pid)
      BY <1>4, <2>2 DEF OnExec
    <3>2. T!Held(tracker') = T!Held(tracker) \union {e.pid}
      BY <1>2, <3>1, TrackExact
    <3>3. e.type # "EXIT"
      BY <1>4
    <3> QED
      BY <1>4, <2>1, <2>2, <3>2, <3>3 DEF AfterEvent
  <2>3. CASE ~ShouldTrack(e.pid, e.ppid, e.match)
    <3>1. UNCHANGED tracker /\ e.type # "EXIT"
      BY <1>4, <2>3 DEF OnExec
    <3> QED
      BY <2>1, <2>3, <3>1 DEF AfterEvent
  <2> QED
    BY <2>2, <2>3
<1>5. CASE e.type = "READLINE" /\ OnReadline(e)
  BY <1>5 DEF OnReadline, userVars, AfterEvent
<1>6. CASE e.type = "OPEN" /\ OnOpen(e)
  BY <1>6 DEF OnOpen, AfterEvent
<1> QED
  BY <1>3, <1>4, <1>5, <1>6 DEF Handle

LEMMA PollSync ==
  ASSUME TypeOK, IInv, InSync, Poll, ~cut', ~overflow'
  PROVE  InSync'
<1>1. /\ UNCHANGED <<options, phase, procs, family>> /\ phase = "tracing"
      /\ ring # <<>> /\ ring' = Tail(ring) /\ Handle(Head(ring)) /\ ring \in Seq(Event)
  BY DEF Poll, kernelVars, TypeOK
<1>2. Head(ring) \in Event /\ T!Held(tracker) \in SUBSET Pids
  BY <1>1, HeldPids DEF TypeOK
<1>3. T!Held(tracker') = AfterEvent(T!Held(tracker), Head(ring))
  BY <1>1, <1>2, HandleSync
<1>4. Applied(Tail(ring), AfterEvent(T!Held(tracker), Head(ring))) = Applied(ring, T!Held(tracker))
  BY <1>1, <1>2, AppliedTail
<1>5. Applied(ring, T!Held(tracker))' = family
  BY <1>1, <1>3, <1>4, AppliedPrime DEF InSync
<1> QED
  BY <1>1, <1>5 DEF InSync

LEMMA ScanSync ==
  ASSUME TypeOK, IInv, InSync, NEW p \in Pids, NEW ppid \in Pids \union {Reaper, NoPpid}, ScanPid(p, ppid),
         ~blind', ~cut', ~overflow'
  PROVE  InSync'
<1> DEFINE adds == ShouldTrack(p, ppid, procs[p].match)
<1>1. /\ UNCHANGED <<options, phase, procs, ring>> /\ phase = "scan" /\ ring = <<>>
      /\ cursor' = p /\ p > cursor /\ procs[p].st # "none" /\ ~cut
  BY DEF ScanPid, kernelVars, InSync, InProc
<1>2. tracker \in T!Table /\ T!Proper(tracker) /\ procs[p] \in Process /\ family \in SUBSET Pids
  BY <1>1 DEF TypeOK, IInv, Holding
<1>3. T!Held(tracker) = family
  BY <1>1, <1>2, HeldPids, AppliedEmpty DEF InSync
<1>4. T!Held(tracker') = family'
  <2>1. CASE adds
    <3>1. Track(p) /\ family' = family \union {p}
      BY <2>1 DEF ScanPid
    <3> QED
      BY <1>2, <1>3, <3>1, TrackExact
  <2>2. CASE ~adds
    BY <1>3, <2>2 DEF ScanPid
  <2> QED
    BY <2>1, <2>2
<1>5. \A q \in family' : procs'[q].st = "running"
  <2>1. CASE adds
    <3>1. ~(adds /\ procs[p].st = "dying")
      BY Zenon DEF ScanPid
    <3>2. procs[p].st = "running"
      BY <1>1, <1>2, <2>1, <3>1 DEF Process, States
    <3> QED
      BY <1>1, <2>1, <3>2 DEF ScanPid, InSync
  <2>2. CASE ~adds
    BY <1>1, <2>2 DEF ScanPid, InSync
  <2> QED
    BY <2>1, <2>2
<1>6. family' \in SUBSET Pids /\ \A q \in family' : q <= p
  <2>1. family' \subseteq family \union {p} /\ p \in Nat /\ cursor \in Nat /\ Pids \subseteq Nat
    BY TracerAssumption DEF ScanPid, TypeOK
  <2>2. \A q \in family : q <= cursor
    BY <1>1 DEF InSync
  <2> QED
    BY <1>1, <1>2, <2>1, <2>2
<1>7. Applied(ring, T!Held(tracker))' = family'
  BY <1>1, <1>4, <1>6, AppliedPrime, AppliedEmpty
<1> QED
  BY <1>1, <1>5, <1>6, <1>7 DEF InSync

LEMMA StepSync ==
  ASSUME TypeOK, IInv, Synced, [Next]_vars
  PROVE  Synced'
<1> SUFFICES ASSUME phase' # "stopped", ~blind', ~cut', ~overflow'
             PROVE  InSync'
  BY DEF Synced
<1>1. CASE Kernel
  <2>1. InSync
    <3>1. UNCHANGED <<phase, cut, overflow>>
      BY <1>1, KernelStep DEF userVars
    <3>2. ~blind
      BY <1>1 DEF Kernel, Fork, Exec, Exit, Reap, Open, Readline, Tick, Emit, Suppress
    <3> QED
      BY <3>1, <3>2 DEF Synced
  <2> QED
    BY <1>1, <2>1, KernelSync
<1>2. CASE \E p \in Pids, ppid \in Pids \union {Reaper, NoPpid} : ScanPid(p, ppid)
  <2>1. phase # "stopped" /\ ~cut /\ ~blind
    <3>1. phase # "stopped" /\ ~cut
      BY <1>2 DEF ScanPid
    <3>2. ~blind
      BY <1>2, Zenon DEF ScanPid
    <3> QED
      BY <3>1, <3>2
  <2>2. ~overflow
    BY <1>2, Zenon DEF ScanPid, Track
  <2>3. InSync
    BY <2>1, <2>2 DEF Synced
  <2> QED
    BY <1>2, <2>3, ScanSync
<1>3. CASE ScanDone \/ Attach
  BY <1>3, AppliedPrime DEF ScanDone, Attach, kernelVars, userVars, Synced, InSync
<1>4. CASE Poll
  <2>1. UNCHANGED <<phase, blind>>
    BY <1>4 DEF Poll
  <2>2. ~cut
    BY <1>4, Zenon DEF Poll, Handle, OnExit, OnExec, OnReadline, OnOpen, userVars
  <2>3. ~overflow
    BY <1>4, Zenon DEF Poll, Handle, OnExit, OnExec, OnReadline, OnOpen, Track, userVars
  <2>4. InSync
    BY <2>1, <2>2, <2>3 DEF Synced
  <2> QED
    BY <1>4, <2>4, PollSync
<1>5. CASE Stop
  BY <1>5 DEF Stop
<1>6. CASE UNCHANGED vars
  BY <1>6, AppliedPrime DEF vars, kernelVars, userVars, Synced, InSync
<1> QED
  BY <1>1, <1>2, <1>3, <1>4, <1>5, <1>6 DEF Next, Tracer

\* The tracer is behind the kernel by exactly the events in the ring: unless an
\* event was lost or due before the tracer attached, a slot was missing or a
\* removal cut a probe sequence, the pids tracked once the ring is drained are
\* the running processes that ought to be, through any order of forks, execs,
\* exits and reaps and of the tracer's scan, attach and callbacks.
THEOREM TracerCatchesUp == Spec => []CatchesUp
<1>1. Init => Synced
  <2> SUFFICES ASSUME Init
               PROVE  InSync
    BY DEF Synced
  <2>1. T!Held(tracker) = {} /\ ring = <<>> /\ family = {}
    BY EmptyHolds DEF Init
  <2> QED
    BY <2>1, AppliedEmpty DEF InSync
<1>2. TypeOK /\ IInv /\ Synced /\ [Next]_vars => Synced'
  BY StepSync
<1>3. TypeOK /\ IInv /\ Synced => CatchesUp
  <2> SUFFICES ASSUME TypeOK, IInv, Synced, phase = "tracing", ~blind, ~cut, ~overflow
               PROVE  Applied(ring, T!TrackedPids(tracker)) = family /\ \A p \in family : procs[p].st = "running"
    BY DEF CatchesUp
  <2>1. T!TrackedPids(tracker) = T!Held(tracker)
    BY TrackedHeld DEF TypeOK, IInv, Holding
  <2> QED
    BY <2>1 DEF Synced, InSync
<1> QED
  BY <1>1, <1>2, <1>3, TracerTypes, Invariance, PTL DEF Spec
==============================================================================
